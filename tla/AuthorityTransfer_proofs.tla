---------------------- MODULE AuthorityTransfer_proofs ----------------------
(***************************************************************************)
(* Proofs about the workspace authority and its transfer to another        *)
(* checkout, for any packages, any number of supervisors, importers and    *)
(* edits, and any kills and failures.                                      *)
(*                                                                         *)
(* First the supervisors by themselves (SupervisionInv), then the export   *)
(* that reads beside them (ExportInv) and the import into a receiving      *)
(* checkout (ReceiverInv).                                                 *)
(***************************************************************************)
EXTENDS AuthorityTransfer, TLAPS

vars == <<packages, supervision>>

----------------------------------------------------------------------------
(* The inductive invariant.                                                *)

Labels == {"idle", "lease", "install", "write", "stage", "revalidate",
           "commit", "release"}
Outcomes == {"none", "error", "committed", "recovered", "unchanged", "killed"}
Runs == [pc : Labels, manifest : Manifests \cup {None}, staged : BOOLEAN,
         expired : BOOLEAN, committed : BOOLEAN, outcome : Outcomes]

SupervisionTypes ==
  /\ live \in Manifests /\ selected \in Manifests
  /\ manifests \in [Manifests -> {"absent", "torn", "whole"}]
  /\ pointer \in Manifests \cup {None}
  /\ lease \in Supervisors \cup {None}
  /\ sup \in [Supervisors -> Runs]

\* A package only selects sets of later inputs.
SelectsLater == \A c \in Catalogs : selected[c] <= live[c]

\* The pointer can be read, and is not ahead of the packages.
RootBehind ==
  /\ PointerReadable
  /\ pointer # None => \A c \in Catalogs : pointer[c] <= selected[c]

\* A run that goes on knows what it publishes.
Described(s) ==
  sup[s].pc \notin {"idle", "release"} => sup[s].manifest \in Manifests

\* From the lease to its release the lease is the run's own.
OwnsLease(s) ==
  sup[s].pc \in {"install", "write", "stage", "revalidate", "commit",
                "release"} => lease = s

\* A manifest is whole before the pointer that will name it is staged.
StagedIsWhole(s) ==
  sup[s].pc \in {"stage", "revalidate", "commit"} =>
    manifests[sup[s].manifest] = "whole"

\* What is about to replace the pointer is not behind it, nor ahead of the
\* packages.
CommitsForward(s) ==
  sup[s].pc = "commit" =>
    \A c \in Catalogs :
      /\ sup[s].manifest[c] <= selected[c]
      /\ pointer # None => pointer[c] <= sup[s].manifest[c]

\* A run that has committed is over but for its release.
CommittedIsOver(s) ==
  sup[s].committed => /\ sup[s].pc \in {"release", "idle"}
                      /\ sup[s].outcome \notin {"none", "error"}

Own(s) ==
  /\ Described(s) /\ OwnsLease(s) /\ StagedIsWhole(s) /\ CommitsForward(s)
  /\ CommittedIsOver(s)

SupervisionInv ==
  /\ SupervisionTypes /\ SelectsLater /\ RootBehind
  /\ \A s \in Supervisors : Own(s)

LEMMA InitInv == WorkspaceInit => SupervisionInv
<1> SUFFICES ASSUME WorkspaceInit PROVE SupervisionInv
  OBVIOUS
<1>1. SupervisionTypes
  BY WorkspaceConstants DEF WorkspaceInit, SupervisionTypes, Manifests,
       AtRest, Runs, Labels, Outcomes
<1>2. \A s \in Supervisors : sup[s].pc = "idle" /\ sup[s].committed = FALSE
  BY DEF WorkspaceInit, AtRest
<1>3. \A s \in Supervisors : Own(s)
  BY <1>2 DEF Own, Described, OwnsLease, StagedIsWhole, CommitsForward,
       CommittedIsOver
<1>4. SelectsLater /\ RootBehind
  BY DEF WorkspaceInit, SelectsLater, RootBehind, PointerReadable
<1> QED
  BY <1>1, <1>3, <1>4 DEF SupervisionInv

----------------------------------------------------------------------------
(* The packages move on by themselves; the supervisors watch.              *)

LEMMA EditInv ==
  ASSUME SupervisionInv, NEW c \in Catalogs, EditPackage(c)
  PROVE  SupervisionInv'
<1>1. live' \in Manifests
  BY WorkspaceConstants DEF EditPackage, SupervisionInv, SupervisionTypes,
       Manifests
<1>2. SelectsLater'
  BY DEF EditPackage, SupervisionInv, SupervisionTypes, SelectsLater, Manifests
<1> QED
  BY <1>1, <1>2 DEF EditPackage, SupervisionInv, SupervisionTypes, RootBehind,
       PointerReadable, supervision, Own, Described, OwnsLease, StagedIsWhole,
       CommitsForward, CommittedIsOver

LEMMA AuthorizeInv ==
  ASSUME SupervisionInv, NEW c \in Catalogs, Authorize(c)
  PROVE  SupervisionInv'
<1>1. UNCHANGED <<live, manifests, pointer, lease, sup>>
  BY DEF Authorize, supervision
<1>2. selected' \in Manifests /\ SelectsLater'
  BY DEF Authorize, SupervisionInv, SupervisionTypes, SelectsLater, Manifests
<1>3. \A d \in Catalogs : selected[d] <= selected'[d]
  BY DEF Authorize, SupervisionInv, SupervisionTypes, SelectsLater, Manifests
<1>4. \A m \in Manifests, d \in Catalogs :
         m[d] \in Nat /\ selected[d] \in Nat /\ selected'[d] \in Nat
  BY <1>2, WorkspaceConstants DEF SupervisionInv, SupervisionTypes, Manifests
<1>5. SupervisionTypes' /\ RootBehind'
  BY <1>1, <1>2, <1>3, <1>4 DEF SupervisionInv, SupervisionTypes, RootBehind,
       PointerReadable
<1>6. ASSUME NEW s \in Supervisors PROVE Own(s)'
  BY <1>1, <1>3, <1>4 DEF SupervisionInv, Own, Described, OwnsLease,
       StagedIsWhole, CommitsForward, CommittedIsOver
<1> QED
  BY <1>2, <1>5, <1>6 DEF SupervisionInv

----------------------------------------------------------------------------
(* The supervisors.                                                        *)

\* A step of one supervisor changes the record of no other.
LEMMA OthersStay ==
  ASSUME SupervisionTypes, NEW s \in Supervisors, Described(s), Supervise(s)
  PROVE  \A t \in Supervisors \ {s} : sup'[t] = sup[t]
<1> USE DEF SupervisionTypes, Pass, Throw
<1>1. CASE Describe(s) \/ Lease(s) \/ Write(s)
  BY <1>1 DEF Describe, Lease, Write
<1>2. CASE Stage(s) \/ Revalidate(s)
  BY <1>2 DEF Stage, Revalidate
<1>3. CASE Commit(s)
  BY <1>3 DEF Commit
<1>4. CASE Release(s) \/ Expire(s) \/ KillSupervisor(s)
  BY <1>4 DEF Release, Expire, KillSupervisor
<1>5. CASE Install(s)
  <2>1. sup[s].manifest \in Manifests
    BY <1>5 DEF Install, Described
  <2>2. CASE manifests[sup[s].manifest] = "absent"
    BY <1>5, <2>2 DEF Install
  <2>3. CASE manifests[sup[s].manifest] = "whole"
    BY <1>5, <2>3 DEF Install
  <2>4. CASE manifests[sup[s].manifest] = "torn"
    BY <1>5, <2>4 DEF Install
  <2> QED
    BY <2>1, <2>2, <2>3, <2>4
<1> QED
  BY <1>1, <1>2, <1>3, <1>4, <1>5 DEF Supervise

\* What each of the two ways to go on makes of the record.
LEMMA PassFields ==
  ASSUME SupervisionTypes, NEW s \in Supervisors, NEW label \in Labels,
         Pass(s, label)
  PROVE  /\ sup' \in [Supervisors -> Runs]
         /\ sup'[s].pc = label
         /\ sup'[s].manifest = sup[s].manifest
         /\ sup'[s].committed = sup[s].committed
         /\ sup'[s].outcome = sup[s].outcome
BY DEF Pass, SupervisionTypes, Runs

LEMMA ThrowFields ==
  ASSUME SupervisionTypes, NEW s \in Supervisors, Throw(s)
  PROVE  /\ sup' \in [Supervisors -> Runs]
         /\ sup'[s].pc = "release"
         /\ sup'[s].committed = sup[s].committed
<1>1. sup[s] \in Runs
  BY DEF SupervisionTypes
<1> QED
  BY <1>1 DEF Throw, SupervisionTypes, Runs, Labels, Outcomes

\* A run that throws disturbs nothing.
LEMMA ThrowInv ==
  ASSUME SupervisionInv, NEW s \in Supervisors, Supervise(s), Throw(s),
         sup[s].pc \in {"install", "stage", "revalidate", "commit"},
         UNCHANGED <<packages, manifests, pointer, lease>>
  PROVE  SupervisionInv'
<1>1. SupervisionTypes' /\ SelectsLater' /\ RootBehind'
  BY ThrowFields DEF SupervisionInv, SupervisionTypes, SelectsLater,
       RootBehind, PointerReadable, packages
<1>2. Own(s)'
  BY ThrowFields DEF SupervisionInv, Own, Described, OwnsLease, StagedIsWhole,
       CommitsForward, CommittedIsOver
<1>3. \A t \in Supervisors \ {s} : Own(t)'
  BY OthersStay DEF SupervisionInv, Own, Described, OwnsLease, StagedIsWhole,
       CommitsForward, CommittedIsOver, packages
<1> QED
  BY <1>1, <1>2, <1>3 DEF SupervisionInv

LEMMA SuperviseInv ==
  ASSUME SupervisionInv, NEW s \in Supervisors, Supervise(s)
  PROVE  SupervisionInv'
<1>1. /\ SupervisionTypes /\ SelectsLater /\ RootBehind
      /\ \A t \in Supervisors : Own(t)
  BY DEF SupervisionInv
<1>2. sup[s] \in Runs /\ Own(s)
  BY <1>1 DEF SupervisionTypes
<1>3. \A t \in Supervisors \ {s} : sup'[t] = sup[t] /\ Own(t)
  BY <1>1, <1>2, OthersStay DEF Own
<1>4. SelectsLater'
  BY <1>1 DEF SelectsLater, Supervise, Describe, Lease, Install, Write, Stage,
       Revalidate, Commit, Release, Expire, KillSupervisor, packages
<1> SUFFICES /\ SupervisionTypes' /\ RootBehind' /\ Own(s)'
             /\ \A t \in Supervisors \ {s} : Own(t)'
  BY <1>4 DEF SupervisionInv
<1>5. CASE Describe(s)
  <2>1. /\ sup' \in [Supervisors -> Runs]
        /\ sup'[s].pc = "lease" /\ sup'[s].manifest = selected
        /\ sup'[s].committed = sup[s].committed
        /\ sup'[s].outcome = sup[s].outcome
    BY <1>1, <1>2, <1>5 DEF Describe, SupervisionTypes, Runs, Labels,
         Outcomes, Own, Described, OwnsLease, StagedIsWhole, CommitsForward,
         CommittedIsOver
  <2>2. SupervisionTypes' /\ RootBehind'
    BY <1>1, <1>5, <2>1 DEF Describe, SupervisionTypes, RootBehind,
         PointerReadable, packages
  <2>3. Own(s)'
    BY <1>1, <1>2, <1>5, <2>1 DEF Describe, SupervisionTypes, Own, Described,
         OwnsLease, StagedIsWhole, CommitsForward, CommittedIsOver
  <2>4. \A t \in Supervisors \ {s} : Own(t)'
    BY <1>1, <1>2, <1>3, <1>5, <2>1 DEF Describe, Own, Described, OwnsLease,
         StagedIsWhole, CommitsForward, CommittedIsOver, packages
  <2> QED
    BY <2>2, <2>3, <2>4
<1>6. CASE Lease(s)
  <2>1. /\ sup' \in [Supervisors -> Runs]
        /\ \/ /\ lease = None /\ lease' = s
              /\ sup'[s].pc = "install"
              /\ sup'[s].manifest = sup[s].manifest
           \/ sup'[s].pc = "idle" /\ UNCHANGED lease
        /\ sup'[s].committed = sup[s].committed
    BY <1>1, <1>2, <1>6, PassFields DEF Lease, SupervisionTypes, Runs, Labels,
         Outcomes
  <2>2. SupervisionTypes' /\ RootBehind'
    BY <1>1, <1>6, <2>1 DEF Lease, SupervisionTypes, RootBehind,
         PointerReadable, packages
  <2>3. Own(s)'
    BY <1>2, <1>6, <2>1 DEF Lease, Own, Described, OwnsLease, StagedIsWhole,
         CommitsForward, CommittedIsOver, packages
  <2>4. \A t \in Supervisors \ {s} : Own(t)'
    BY <1>3, <1>6, <2>1, WorkspaceConstants DEF Lease, Own, Described,
         OwnsLease, StagedIsWhole, CommitsForward, CommittedIsOver, packages
  <2> QED
    BY <2>2, <2>3, <2>4
<1>7. CASE Install(s)
  <2>1. sup[s].manifest \in Manifests /\ lease = s /\ sup[s].pc = "install"
    BY <1>2, <1>7 DEF Install, Own, Described, OwnsLease, StagedIsWhole,
         CommitsForward, CommittedIsOver
  <2>2. CASE manifests[sup[s].manifest] = "torn"
    BY <1>7, <2>1, <2>2, ThrowInv DEF SupervisionInv, Install
  <2>3. CASE manifests[sup[s].manifest] = "whole"
    <3>1. Pass(s, "stage") /\ UNCHANGED <<packages, manifests, pointer, lease>>
      BY <1>7, <2>3 DEF Install
    <3>2. SupervisionTypes' /\ RootBehind'
      BY <1>1, <3>1, PassFields DEF SupervisionTypes, RootBehind,
           PointerReadable, packages, Labels
    <3>3. Own(s)'
      BY <1>1, <1>2, <2>1, <2>3, <3>1, PassFields DEF Own, Described,
           OwnsLease, StagedIsWhole, CommitsForward, CommittedIsOver, Labels
    <3>4. \A t \in Supervisors \ {s} : Own(t)'
      BY <1>3, <3>1 DEF Own, Described, OwnsLease, StagedIsWhole,
           CommitsForward, CommittedIsOver, packages
    <3> QED
      BY <3>2, <3>3, <3>4
  <2>4. CASE manifests[sup[s].manifest] = "absent"
    <3>1. /\ Pass(s, "write") /\ UNCHANGED <<packages, pointer, lease>>
          /\ manifests' = [manifests EXCEPT ![sup[s].manifest] = "torn"]
      BY <1>7, <2>4 DEF Install
    <3>2. SupervisionTypes'
      BY <1>1, <2>1, <3>1, PassFields DEF SupervisionTypes, packages, Labels
    <3>3. \A m \in Manifests : manifests[m] = "whole" => manifests'[m] = "whole"
      BY <1>1, <2>4, <3>1 DEF SupervisionTypes
    <3>4. RootBehind'
      BY <1>1, <3>1, <3>3 DEF SupervisionTypes, RootBehind, PointerReadable,
           packages
    <3>5. Own(s)'
      BY <1>1, <1>2, <2>1, <3>1, PassFields DEF Own, Described, OwnsLease,
           StagedIsWhole, CommitsForward, CommittedIsOver, Labels
    <3>6. \A t \in Supervisors \ {s} : Own(t)'
      BY <1>3, <3>1, <3>3 DEF Own, Described, OwnsLease, StagedIsWhole,
           CommitsForward, CommittedIsOver, packages
    <3> QED
      BY <3>2, <3>4, <3>5, <3>6
  <2> QED
    BY <1>1, <2>1, <2>2, <2>3, <2>4 DEF SupervisionInv, SupervisionTypes
<1>8. CASE Write(s)
  <2>1. /\ sup[s].manifest \in Manifests /\ lease = s /\ sup[s].pc = "write"
        /\ Pass(s, "stage") /\ UNCHANGED <<packages, pointer, lease>>
        /\ manifests' = [manifests EXCEPT ![sup[s].manifest] = "whole"]
    BY <1>2, <1>8 DEF Write, Own, Described, OwnsLease, StagedIsWhole,
         CommitsForward, CommittedIsOver
  <2>2. SupervisionTypes'
    BY <1>1, <2>1, PassFields DEF SupervisionTypes, packages, Labels
  <2>3. \A m \in Manifests : manifests[m] = "whole" => manifests'[m] = "whole"
    BY <1>1, <2>1 DEF SupervisionTypes
  <2>4. RootBehind'
    BY <1>1, <2>1, <2>3 DEF SupervisionTypes, RootBehind, PointerReadable,
         packages
  <2>5. Own(s)'
    BY <1>1, <1>2, <2>1, PassFields DEF SupervisionTypes, Own, Described,
         OwnsLease, StagedIsWhole, CommitsForward, CommittedIsOver, Labels
  <2>6. \A t \in Supervisors \ {s} : Own(t)'
    BY <1>3, <2>1, <2>3 DEF Own, Described, OwnsLease, StagedIsWhole,
         CommitsForward, CommittedIsOver, packages
  <2> QED
    BY <2>2, <2>4, <2>5, <2>6
<1>9. CASE Stage(s)
  <2>1. CASE Throw(s)
    BY <1>9, <2>1, ThrowInv DEF SupervisionInv, Stage
  <2>2. CASE ~Throw(s)
    <3>1. /\ sup[s].pc = "stage" /\ UNCHANGED <<packages, manifests, pointer, lease>>
          /\ sup' \in [Supervisors -> Runs]
          /\ sup'[s].pc = "revalidate" /\ sup'[s].manifest = sup[s].manifest
          /\ sup'[s].committed = sup[s].committed
      BY <1>1, <1>2, <1>9, <2>2 DEF Stage, SupervisionTypes, Runs, Labels
    <3>2. SupervisionTypes' /\ RootBehind'
      BY <1>1, <3>1 DEF SupervisionTypes, RootBehind, PointerReadable, packages
    <3>3. Own(s)'
      BY <1>2, <3>1 DEF Own, Described, OwnsLease, StagedIsWhole,
           CommitsForward, CommittedIsOver
    <3>4. \A t \in Supervisors \ {s} : Own(t)'
      BY <1>3, <3>1 DEF Own, Described, OwnsLease, StagedIsWhole,
           CommitsForward, CommittedIsOver, packages
    <3> QED
      BY <3>2, <3>3, <3>4
  <2> QED
    BY <2>1, <2>2
<1>10. CASE Revalidate(s)
  <2>1. CASE selected # sup[s].manifest
    BY <1>10, <2>1, ThrowInv DEF SupervisionInv, Revalidate
  <2>2. CASE selected = sup[s].manifest
    <3>1. /\ sup[s].pc = "revalidate" /\ Pass(s, "commit")
          /\ UNCHANGED <<packages, manifests, pointer, lease>>
      BY <1>10, <2>2 DEF Revalidate
    <3>2. SupervisionTypes' /\ RootBehind'
      BY <1>1, <3>1, PassFields DEF SupervisionTypes, RootBehind,
           PointerReadable, packages, Labels
    <3>3. \A c \in Catalogs : selected[c] \in Nat
      BY <1>1, WorkspaceConstants DEF SupervisionTypes, Manifests
    <3>4. Own(s)'
      BY <1>1, <1>2, <2>2, <3>1, <3>3, PassFields DEF Own, Described,
           OwnsLease, StagedIsWhole, CommitsForward, CommittedIsOver,
           RootBehind, packages, Labels
    <3>5. \A t \in Supervisors \ {s} : Own(t)'
      BY <1>3, <3>1 DEF Own, Described, OwnsLease, StagedIsWhole,
           CommitsForward, CommittedIsOver, packages
    <3> QED
      BY <3>2, <3>4, <3>5
  <2> QED
    BY <2>1, <2>2
<1>11. CASE Commit(s)
  <2>1. CASE sup[s].expired
    BY <1>11, <2>1, ThrowInv DEF SupervisionInv, Commit
  <2>2. CASE ~sup[s].expired
    <3>1. /\ sup[s].pc = "commit" /\ pointer' = sup[s].manifest
          /\ UNCHANGED <<packages, manifests, lease>>
          /\ sup' \in [Supervisors -> Runs]
          /\ sup'[s].pc = "release"
          /\ sup'[s].outcome \in {"unchanged", "committed", "recovered"}
      BY <1>1, <1>2, <1>11, <2>2 DEF Commit, SupervisionTypes, Runs, Labels,
           Outcomes
    <3>2. SupervisionTypes' /\ RootBehind'
      BY <1>1, <1>2, <3>1 DEF SupervisionTypes, RootBehind, Own, Described,
           OwnsLease, StagedIsWhole, CommitsForward, CommittedIsOver,
           PointerReadable, packages
    <3>3. Own(s)'
      BY <1>2, <3>1 DEF Own, Described, OwnsLease, StagedIsWhole,
           CommitsForward, CommittedIsOver
    <3>4. \A t \in Supervisors \ {s} : sup[t].pc # "commit"
      BY <1>2, <1>3, <3>1 DEF Own, Described, OwnsLease, StagedIsWhole,
           CommitsForward, CommittedIsOver
    <3>5. \A t \in Supervisors \ {s} : Own(t)'
      BY <1>3, <3>1, <3>4 DEF Own, Described, OwnsLease, StagedIsWhole,
           CommitsForward, CommittedIsOver, packages
    <3> QED
      BY <3>2, <3>3, <3>5
  <2> QED
    BY <2>1, <2>2
<1>12. CASE Release(s)
  <2>1. PICK failed \in BOOLEAN :
          sup' = [sup EXCEPT ![s].pc = "idle", ![s].outcome =
                    IF ~failed THEN @ ELSE IF sup[s].committed THEN "recovered"
                    ELSE "error"]
    BY <1>12 DEF Release
  <2>2. /\ sup[s].pc = "release" /\ lease' = None
        /\ UNCHANGED <<packages, manifests, pointer>>
    BY <1>12 DEF Release
  <2>3. sup' \in [Supervisors -> Runs]
    <3> DEFINE o == IF ~failed THEN sup[s].outcome
                    ELSE IF sup[s].committed THEN "recovered" ELSE "error"
    <3>1. o \in Outcomes
      BY <1>2 DEF Runs, Outcomes
    <3>2. sup' = [sup EXCEPT ![s].pc = "idle", ![s].outcome = o]
      BY <1>1, <2>1 DEF SupervisionTypes
    <3> HIDE DEF o
    <3> QED
      BY <1>1, <1>2, <3>1, <3>2 DEF SupervisionTypes, Runs, Labels
  <2>4. /\ sup'[s].pc = "idle" /\ sup'[s].committed = sup[s].committed
        /\ sup[s].committed => sup'[s].outcome \in {sup[s].outcome, "recovered"}
    BY <1>1, <1>2, <2>1 DEF SupervisionTypes, Runs
  <2>5. SupervisionTypes' /\ RootBehind'
    BY <1>1, <2>2, <2>3 DEF SupervisionTypes, RootBehind, PointerReadable,
         packages
  <2>6. Own(s)'
    BY <1>2, <2>4 DEF Own, Described, OwnsLease, StagedIsWhole,
         CommitsForward, CommittedIsOver
  <2>7. \A t \in Supervisors \ {s} : Own(t)'
    BY <1>2, <1>3, <2>2 DEF Own, Described, OwnsLease, StagedIsWhole,
         CommitsForward, CommittedIsOver, packages
  <2> QED
    BY <2>5, <2>6, <2>7
<1>13. CASE Expire(s)
  <2>1. /\ UNCHANGED <<packages, manifests, pointer, lease>>
        /\ sup' \in [Supervisors -> Runs]
        /\ sup'[s].pc = sup[s].pc /\ sup'[s].manifest = sup[s].manifest
        /\ sup'[s].committed = sup[s].committed
        /\ sup'[s].outcome = sup[s].outcome
    BY <1>1, <1>2, <1>13 DEF Expire, SupervisionTypes, Runs
  <2>2. SupervisionTypes' /\ RootBehind'
    BY <1>1, <2>1 DEF SupervisionTypes, RootBehind, PointerReadable, packages
  <2>3. \A t \in Supervisors : Own(t)'
    BY <1>2, <1>3, <2>1 DEF Own, Described, OwnsLease, StagedIsWhole,
         CommitsForward, CommittedIsOver, packages
  <2> QED
    BY <2>2, <2>3
<1>14. CASE KillSupervisor(s)
  <2>1. /\ UNCHANGED <<packages, manifests, pointer>>
        /\ lease' = IF lease = s THEN None ELSE lease
        /\ sup' \in [Supervisors -> Runs]
        /\ sup'[s].pc = "idle" /\ sup'[s].outcome = "killed"
    BY <1>1, <1>2, <1>14 DEF KillSupervisor, SupervisionTypes, Runs, Labels,
         Outcomes
  <2>2. SupervisionTypes' /\ RootBehind'
    BY <1>1, <2>1 DEF SupervisionTypes, RootBehind, PointerReadable, packages
  <2>3. Own(s)'
    BY <2>1 DEF Own, Described, OwnsLease, StagedIsWhole, CommitsForward,
         CommittedIsOver
  <2>4. \A t \in Supervisors \ {s} : Own(t)'
    BY <1>3, <2>1 DEF Own, Described, OwnsLease, StagedIsWhole,
         CommitsForward, CommittedIsOver, packages
  <2> QED
    BY <2>2, <2>3, <2>4
<1> QED
  BY <1>5, <1>6, <1>7, <1>8, <1>9, <1>10, <1>11, <1>12, <1>13, <1>14
     DEF Supervise

LEMMA NextInv == SupervisionInv /\ [WorkspaceNext]_vars => SupervisionInv'
<1> SUFFICES ASSUME SupervisionInv, [WorkspaceNext]_vars PROVE SupervisionInv'
  OBVIOUS
<1>1. CASE WorkspaceNext
  BY <1>1, EditInv, AuthorizeInv, SuperviseInv DEF WorkspaceNext
<1>2. CASE UNCHANGED vars
  BY <1>2 DEF vars, packages, supervision, SupervisionInv, SupervisionTypes,
       SelectsLater, RootBehind, PointerReadable, Own, Described, OwnsLease,
       StagedIsWhole, CommitsForward, CommittedIsOver
<1> QED
  BY <1>1, <1>2

LEMMA AlwaysInv == WorkspaceSpec => []SupervisionInv
<1>1. WorkspaceInit => SupervisionInv
  BY InitInv
<1>2. SupervisionInv /\ [WorkspaceNext]_vars => SupervisionInv'
  BY NextInv
<1> QED
  BY <1>1, <1>2, PTL DEF WorkspaceSpec, vars

----------------------------------------------------------------------------
(* A commit lasts: whatever is killed, torn or fails afterwards, the        *)
(* pointer names a manifest that can be read, and the run that renamed it   *)
(* reports no error (publishWorkspaceAuthority).                            *)
THEOREM CommittedLasts == WorkspaceSpec => []CommitLasts
<1>1. SupervisionInv => CommitLasts
  BY  DEF SupervisionInv, RootBehind, CommitLasts, CommitIsReported, Own,
       CommittedIsOver
<1> QED
  BY <1>1, AlwaysInv, PTL

(* The pointer never moves back, although a supervisor renames it at some   *)
(* time after it has looked at the packages: its lease keeps every other    *)
(* one from renaming it in between, and the packages only move on.          *)
THEOREM PointerForward == WorkspaceSpec => PointerMovesForward
<1> DEFINE Forward == \A c \in Catalogs : pointer # None => pointer'[c] >= pointer[c]
<1>1. SupervisionInv /\ [WorkspaceNext]_vars => [Forward]_pointer
  <2> SUFFICES ASSUME SupervisionInv, WorkspaceNext, pointer' # pointer,
                      pointer # None, NEW c \in Catalogs
               PROVE  pointer'[c] >= pointer[c]
    BY DEF vars, supervision
  <2>1. PICK s \in Supervisors : Commit(s)
    BY  DEF WorkspaceNext, EditPackage, Authorize, Supervise, Describe, Lease,
         Install, Write, Stage, Revalidate, Release, Expire, KillSupervisor,
         supervision
  <2>2. sup[s].pc = "commit" /\ pointer' = sup[s].manifest
    BY <2>1 DEF Commit
  <2>3. sup[s].manifest \in Manifests /\ pointer \in Manifests
    BY <2>2 DEF SupervisionInv, Own, Described, SupervisionTypes
  <2>4. pointer[c] <= sup[s].manifest[c]
    BY <2>2 DEF SupervisionInv, Own, CommitsForward
  <2> QED
    BY <2>2, <2>3, <2>4, WorkspaceConstants DEF Manifests
<1> QED
  BY <1>1, AlwaysInv, PTL DEF WorkspaceSpec, vars, PointerMovesForward

----------------------------------------------------------------------------
(* The export of a bundle.  The sets are read one after the other, three    *)
(* times, while they move forward: at the moment the first pass ends every  *)
(* set is at least the one chosen, and none read later is before it.  When  *)
(* the copy has the sets chosen, they were all selected at that moment.     *)

Passes == {"select", "root", "hash", "copy", "copyRoot", "validate", "verify",
           "done", "failed"}
Reads == [Catalogs -> Versions \cup {None}]
Roots == Manifests \cup {None}
Exports == [pc : Passes, left : Seq(Catalogs), chosen : Reads, hashed : Reads,
            staged : Reads, root : Roots, stagedRoot : Roots]

ExportTypes ==
  /\ export \in Exports
  /\ export.left # <<>>
  /\ selected \in seenSets /\ seenSets \subseteq Manifests

Left(c) == \E n \in DOMAIN export.left : export.left[n] = c

\* The first pass has only read sets that are not ahead of the packages.
ChoosesSelected ==
  export.pc = "select" =>
    \A c \in Catalogs :
      ~Left(c) => export.chosen[c] \in Versions /\ export.chosen[c] <= selected[c]

\* m is between what was chosen and what has been copied.
Between(m) ==
  /\ \A c \in Catalogs :
       /\ export.chosen[c] \in Versions
       /\ export.chosen[c] <= m[c] /\ m[c] <= selected[c]
  /\ export.pc = "copy" =>
       \A c \in Catalogs :
         ~Left(c) => export.staged[c] \in Versions /\ m[c] <= export.staged[c]
  /\ export.pc \in {"copyRoot", "validate", "verify", "done"} =>
       \A c \in Catalogs :
         export.staged[c] \in Versions /\ m[c] <= export.staged[c]

OneMoment ==
  export.pc \notin {"select", "failed"} => \E m \in seenSets : Between(m)

\* What the checks on the way have shown.
Validated ==
  /\ export.pc \in {"hash", "copy", "copyRoot", "validate", "verify", "done"}
       => export.root \in {None, export.chosen}
  /\ export.pc \in {"verify", "done"} =>
       export.staged = export.chosen /\ export.stagedRoot = export.root

ExportInv ==
  /\ ExportTypes /\ ChoosesSelected /\ OneMoment /\ Validated
  /\ ArchiveOneMoment

----------------------------------------------------------------------------
(* The import of a bundle.  Only the owner of the lock moves trees, and     *)
(* where each tree is follows from what it has installed and moved.         *)

ImportLabels == {"idle", "inspect", "swap", "install", "remove", "restore",
            "cleanup", "recovery", "killed"}
Trees == Versions \cup Roots
Imports == [pc : ImportLabels, unverified : Seq(Catalogs), left : Seq(Places),
            installed : Seq(Places), moved : Seq(Places),
            backup : [Places -> Trees], before : [Places -> Trees],
            outcome : {"none", "failed", "imported"}]
Bundles == [sets : Manifests, root : Roots]

ReceiverTypes ==
  /\ bundle \in Bundles \cup {None}
  /\ inputs \in Manifests
  /\ trees \in [Places -> Trees]
  /\ lock \in Importers \cup {None}
  /\ import \in [Importers -> Imports]

\* One import at a time, and only of a bundle.
OneImport ==
  \A i \in Importers :
    /\ import[i].pc # "idle" <=> lock = i
    /\ import[i].pc # "idle" => bundle \in Bundles
    /\ import[i].pc \in {"idle", "inspect"} =>
         /\ import[i].installed = <<>> /\ import[i].moved = <<>>
         /\ import[i].backup = NoTrees

Has(s, e) == \E n \in DOMAIN s : s[n] = e
Installed(i, p) == Has(import[i].installed, p)
Moved(i, p) == Has(import[i].moved, p)

\* The trees are installed in their order, and the rest is left.
InOrder(i) ==
  LET done == import[i].installed  left == import[i].left IN
  /\ Len(done) <= Len(PlacesInOrder)
  /\ \A n \in 1..Len(done) : done[n] = PlacesInOrder[n]
  /\ import[i].pc \in {"swap", "install"} =>
       /\ Len(left) = Len(PlacesInOrder) - Len(done)
       /\ \A n \in 1..Len(left) : left[n] = PlacesInOrder[Len(done) + n]
  /\ import[i].pc = "install" => left # <<>>

\* No tree is moved away twice, nor before its turn.
MovedOnce(i) ==
  LET gone == import[i].moved IN
  /\ \A m, n \in 1..Len(gone) : gone[m] = gone[n] => m = n
  /\ import[i].pc = "swap" => \A p \in Places : Moved(i, p) => Installed(i, p)
  /\ import[i].pc = "install" =>
       \A p \in Places : Moved(i, p) => Installed(i, p) \/ p = Head(import[i].left)

\* Where the tree of a place is, the old and the new.
WhereIs(i, p) ==
  /\ Installed(i, p) => trees[p] = Bundled(p)
  /\ ~Installed(i, p) /\ Moved(i, p) => trees[p] = None
  /\ ~Installed(i, p) /\ ~Moved(i, p) => trees[p] = import[i].before[p]
  /\ Moved(i, p) => import[i].backup[p] = import[i].before[p]
  /\ Installed(i, p) /\ ~Moved(i, p) => import[i].before[p] = None

\* In the install step the place is empty.
Emptied(i) ==
  import[i].pc = "install" =>
    LET p == Head(import[i].left) IN
    Moved(i, p) \/ import[i].before[p] = None

\* A rollback restores when nothing new is left, and ends when nothing is.
TakenBack(i) ==
  /\ import[i].pc = "restore" => import[i].installed = <<>>
  /\ import[i].pc = "cleanup" /\ import[i].outcome # "imported" =>
       import[i].installed = <<>> /\ import[i].moved = <<>>

Swap(i) ==
  /\ InOrder(i) /\ MovedOnce(i) /\ Emptied(i) /\ TakenBack(i)
  /\ \A p \in Places : WhereIs(i, p)

ReceiverInv ==
  /\ ReceiverTypes /\ OneImport
  /\ \A i \in Importers : lock = i => Swap(i)

\* A package of the bundle has verified since the last tree was installed, or
\* is yet to be verified.
Noticed(i) ==
  \A c \in Catalogs :
    Has(import[i].unverified, c) \/ bundle.sets[c] \in recent[c]

VerifyInv ==
  /\ recent \in [Catalogs -> SUBSET Versions]
  /\ \A c \in Catalogs : inputs[c] \in recent[c]
  /\ \A i \in Importers :
       /\ import[i].pc = "idle" => import[i].unverified = CatalogOrder
       /\ lock = i => Noticed(i)

----------------------------------------------------------------------------
(* The packages move forward, and the export reads them.                    *)

LEMMA SetsMoveForward ==
  ASSUME SupervisionInv, ExportTypes, [WorkspaceNext]_vars
  PROVE  /\ selected' \in seenSets' /\ seenSets' \subseteq Manifests
         /\ seenSets \subseteq seenSets'
         /\ selected \in Manifests /\ selected' \in Manifests
         /\ \A c \in Catalogs : selected[c] <= selected'[c]
<1>1. selected \in Manifests /\ live \in Manifests /\ SelectsLater
  BY DEF SupervisionInv, SupervisionTypes
<1>2. \A c \in Catalogs : selected[c] \in Nat
  BY <1>1, WorkspaceConstants DEF Manifests
<1>3. CASE UNCHANGED packages
  BY <1>1, <1>2, <1>3 DEF packages, ExportTypes
<1>4. ASSUME NEW c \in Catalogs, EditPackage(c)
      PROVE  UNCHANGED <<selected, seenSets>>
  BY <1>4 DEF EditPackage
<1>5. ASSUME NEW c \in Catalogs, Authorize(c)
      PROVE  /\ selected' = [selected EXCEPT ![c] = live[c]]
             /\ seenSets' = seenSets \cup {selected'}
             /\ selected' \in Manifests
             /\ \A d \in Catalogs : selected[d] <= selected'[d]
  BY <1>1, <1>2, <1>5 DEF Authorize, SelectsLater, Manifests
<1>6. ASSUME NEW s \in Supervisors, Supervise(s)
      PROVE  UNCHANGED packages
  BY <1>6 DEF Supervise, Describe, Lease, Install, Write, Stage, Revalidate,
       Commit, Release, Expire, KillSupervisor
<1> QED
  BY <1>1, <1>2, <1>3, <1>4, <1>5, <1>6 DEF WorkspaceNext, vars, ExportTypes

LEMMA ExportWaits ==
  ASSUME SupervisionInv, ExportInv, [WorkspaceNext]_vars,
         UNCHANGED <<export, archive>>
  PROVE  ExportInv'
<1>1. /\ selected' \in seenSets' /\ seenSets' \subseteq Manifests
      /\ seenSets \subseteq seenSets'
      /\ selected \in Manifests /\ selected' \in Manifests
      /\ \A c \in Catalogs : selected[c] <= selected'[c]
  BY SetsMoveForward DEF ExportInv
<1>2. \A m \in Manifests, c \in Catalogs : m[c] \in Nat
  BY WorkspaceConstants DEF Manifests
<1>3. Versions \subseteq Nat
  BY WorkspaceConstants DEF Versions
<1>4. \A c \in Catalogs : Left(c)' <=> Left(c)
  BY DEF Left
<1>5. ExportTypes' /\ Validated' /\ ArchiveOneMoment'
  BY <1>1 DEF ExportInv, ExportTypes, Validated, ArchiveOneMoment
<1>6. ChoosesSelected'
  <2> SUFFICES ASSUME export.pc = "select", NEW c \in Catalogs, ~Left(c)
               PROVE  /\ export.chosen[c] \in Versions
                      /\ export.chosen[c] <= selected'[c]
    BY <1>4 DEF ChoosesSelected
  <2>1. export.chosen[c] \in Versions /\ export.chosen[c] <= selected[c]
    BY DEF ExportInv, ChoosesSelected
  <2>2. export.chosen[c] \in Nat /\ selected[c] \in Nat /\ selected'[c] \in Nat
    BY <1>1, <1>2, <1>3, <2>1
  <2>3. selected[c] <= selected'[c]
    BY <1>1
  <2> QED
    BY <2>1, <2>2, <2>3
<1>7. ASSUME NEW m \in seenSets, Between(m) PROVE Between(m)'
  <2>1. m \in Manifests
    BY DEF ExportInv, ExportTypes
  <2>2. ASSUME NEW c \in Catalogs
        PROVE  /\ export.chosen[c] \in Versions
               /\ export.chosen[c] <= m[c] /\ m[c] <= selected'[c]
    <3>1. /\ export.chosen[c] \in Versions
          /\ export.chosen[c] <= m[c] /\ m[c] <= selected[c]
      BY <1>7 DEF Between
    <3> QED
      BY <1>1, <1>2, <2>1, <3>1
  <2> QED
    BY <1>4, <1>7, <2>2 DEF Between
<1>8. OneMoment'
  BY <1>1, <1>7 DEF ExportInv, OneMoment
<1> QED
  BY <1>5, <1>6, <1>8 DEF ExportInv

\* A pass reads one catalog more, and at its end all are left again.
LEMMA Visits ==
  ASSUME ExportTypes, NEW left,
         left = IF Tail(export.left) = <<>> THEN CatalogOrder
                ELSE Tail(export.left)
  PROVE  /\ left \in Seq(Catalogs) /\ left # <<>>
         /\ Current \in Catalogs
         /\ \A c \in Catalogs :
              (Tail(export.left) = <<>> \/ ~\E n \in DOMAIN left : left[n] = c)
                => c = Current \/ ~Left(c)
         /\ Tail(export.left) = <<>>
              => \A c \in Catalogs : \E n \in DOMAIN left : left[n] = c
<1> DEFINE l == export.left
<1>1. l \in Seq(Catalogs) /\ l # <<>>
  BY DEF ExportTypes, Exports
<1>2. /\ Head(l) \in Catalogs /\ Head(l) = l[1]
      /\ Tail(l) \in Seq(Catalogs) /\ Len(Tail(l)) = Len(l) - 1
      /\ \A n \in 1..Len(Tail(l)) : Tail(l)[n] = l[n + 1]
      /\ Len(l) \in Nat \ {0} /\ DOMAIN l = 1..Len(l)
      /\ DOMAIN Tail(l) = 1..Len(Tail(l))
  BY <1>1
<1>3. \A s : s = <<>> => Len(s) = 0
  OBVIOUS
<1>4. ASSUME NEW c \in Catalogs, c # Current, Left(c)
      PROVE  /\ Tail(l) # <<>>
             /\ \E n \in DOMAIN Tail(l) : Tail(l)[n] = c
  <2>1. PICK n \in 1..Len(l) : l[n] = c
    BY <1>2, <1>4 DEF Left
  <2>2. n # 1
    BY <1>2, <1>4, <2>1 DEF Current
  <2>3. n - 1 \in 1..Len(Tail(l)) /\ Tail(l)[n - 1] = l[(n - 1) + 1]
    BY <1>2, <2>2
  <2>4. Tail(l)[n - 1] = c
    BY <2>1, <2>3
  <2>5. Len(Tail(l)) # 0
    BY <1>2, <2>3
  <2> QED
    BY <1>2, <1>3, <2>3, <2>4, <2>5
<1> QED
  BY <1>2, <1>4, TransferConstants DEF Current

LEMMA SelectKeeps ==
  ASSUME SupervisionInv, ExportInv, SelectFiles
  PROVE  ExportInv'
<1> DEFINE c0 == Current
           read == [export EXCEPT !.chosen[c0] = selected[c0]]
           last == Tail(export.left) = <<>>
           left == IF last THEN CatalogOrder ELSE Tail(export.left)
<1>1. /\ export.pc = "select"
      /\ export' = [read EXCEPT !.left = left,
                                !.pc = IF last THEN "root" ELSE "select"]
      /\ UNCHANGED <<packages, supervision, archive>>
  BY DEF SelectFiles, Visit, ExportStep
<1>2. /\ left \in Seq(Catalogs) /\ left # <<>>
      /\ c0 \in Catalogs
      /\ \A c \in Catalogs :
           (last \/ ~\E n \in DOMAIN left : left[n] = c) => c = c0 \/ ~Left(c)
  BY Visits DEF ExportInv
<1>3. /\ selected \in Manifests /\ selected \in seenSets
      /\ \A c \in Catalogs : selected[c] \in Versions /\ selected[c] \in Nat
  BY WorkspaceConstants DEF ExportInv, ExportTypes, Manifests, Versions
<1> DEFINE chosen == [export.chosen EXCEPT ![c0] = selected[c0]]
<1>4. export \in Exports /\ chosen \in Reads
  BY <1>2, <1>3 DEF ExportInv, ExportTypes, Exports, Reads
<1> HIDE DEF left, last, c0
<1>5. /\ export' \in Exports
      /\ export'.left = left /\ export'.chosen = chosen
      /\ export'.pc = IF last THEN "root" ELSE "select"
  BY <1>1, <1>2, <1>4 DEF Exports, Passes
<1>6. \A c \in Catalogs :
        c = c0 \/ ~Left(c) => chosen[c] \in Versions /\ chosen[c] <= selected[c]
  <2> SUFFICES ASSUME NEW c \in Catalogs, c = c0 \/ ~Left(c)
               PROVE  chosen[c] \in Versions /\ chosen[c] <= selected[c]
    OBVIOUS
  <2>1. CASE c = c0
    BY <1>2, <1>3, <1>4, <2>1 DEF Exports, Reads
  <2>2. CASE c # c0
    BY <1>1, <1>2, <1>4, <2>2 DEF ExportInv, ChoosesSelected, Exports, Reads
  <2> QED
    BY <2>1, <2>2
<1> HIDE DEF chosen
<1>7. \A c \in Catalogs : (last \/ ~Left(c)') =>
        /\ export'.chosen[c] \in Versions
        /\ export'.chosen[c] <= selected[c]
  BY <1>2, <1>5, <1>6 DEF Left
<1>8. UNCHANGED <<selected, seenSets, archive>>
  BY <1>1 DEF packages
<1>9. ExportTypes' /\ Validated' /\ ArchiveOneMoment'
  BY <1>2, <1>5, <1>8 DEF ExportInv, ExportTypes, Validated, ArchiveOneMoment
<1>10. ChoosesSelected'
  BY <1>5, <1>7, <1>8 DEF ChoosesSelected
<1>11. OneMoment'
  <2>1. last => Between(selected)'
    BY <1>3, <1>5, <1>7, <1>8 DEF Between
  <2> QED
    BY <1>3, <1>5, <1>8, <2>1 DEF OneMoment
<1> QED
  BY <1>9, <1>10, <1>11 DEF ExportInv

LEMMA HashKeeps ==
  ASSUME SupervisionInv, ExportInv, HashFiles
  PROVE  ExportInv'
<1> DEFINE c0 == Current
           read == [export EXCEPT !.hashed[c0] = selected[c0]]
           last == Tail(export.left) = <<>>
           left == IF last THEN CatalogOrder ELSE Tail(export.left)
           hashed == [export.hashed EXCEPT ![c0] = selected[c0]]
<1>1. /\ export.pc = "hash"
      /\ export' = [read EXCEPT !.left = left,
                                !.pc = IF last THEN "copy" ELSE "hash"]
      /\ UNCHANGED <<packages, supervision, archive>>
  BY DEF HashFiles, Visit, ExportStep
<1>2. /\ left \in Seq(Catalogs) /\ left # <<>> /\ c0 \in Catalogs
      /\ last => \A c \in Catalogs : \E n \in DOMAIN left : left[n] = c
  BY Visits DEF ExportInv
<1>3. selected[c0] \in Versions
  BY <1>2 DEF ExportInv, ExportTypes, Manifests, Versions
<1>4. export \in Exports /\ hashed \in Reads
  BY <1>2, <1>3 DEF ExportInv, ExportTypes, Exports, Reads
<1> HIDE DEF left, last, c0
<1>5. /\ export' \in Exports /\ export'.left = left
      /\ export'.pc = IF last THEN "copy" ELSE "hash"
      /\ UNCHANGED <<export.chosen, export.root>>
  BY <1>1, <1>2, <1>4 DEF Exports, Passes
<1>6. UNCHANGED <<selected, seenSets, archive>>
  BY <1>1 DEF packages
<1>7. ExportTypes' /\ Validated' /\ ArchiveOneMoment' /\ ChoosesSelected'
  BY <1>1, <1>2, <1>5, <1>6 DEF ExportInv, ExportTypes, Validated,
       ArchiveOneMoment, ChoosesSelected
<1>8. ASSUME NEW m \in seenSets, Between(m) PROVE Between(m)'
  BY <1>2, <1>5, <1>6, <1>8 DEF Between, Left
<1> QED
  BY <1>1, <1>5, <1>6, <1>7, <1>8 DEF ExportInv, OneMoment

LEMMA CopyKeeps ==
  ASSUME SupervisionInv, ExportInv,
         Visit("copy", [export EXCEPT !.staged[Current] = selected[Current]],
               "copyRoot")
  PROVE  ExportInv'
<1> DEFINE c0 == Current
           read == [export EXCEPT !.staged[c0] = selected[c0]]
           last == Tail(export.left) = <<>>
           left == IF last THEN CatalogOrder ELSE Tail(export.left)
           staged == [export.staged EXCEPT ![c0] = selected[c0]]
<1>1. /\ export.pc = "copy"
      /\ export' = [read EXCEPT !.left = left,
                                !.pc = IF last THEN "copyRoot" ELSE "copy"]
      /\ UNCHANGED <<packages, supervision, archive>>
  BY DEF Visit, ExportStep
<1>2. /\ left \in Seq(Catalogs) /\ left # <<>>
      /\ c0 \in Catalogs
      /\ \A c \in Catalogs :
           (last \/ ~\E n \in DOMAIN left : left[n] = c) => c = c0 \/ ~Left(c)
  BY Visits DEF ExportInv
<1>3. \A c \in Catalogs : selected[c] \in Versions
  BY DEF ExportInv, ExportTypes, Manifests, Versions
<1>4. export \in Exports /\ staged \in Reads
  BY <1>2, <1>3 DEF ExportInv, ExportTypes, Exports, Reads
<1> HIDE DEF left, last, c0
<1>5. /\ export' \in Exports /\ export'.left = left /\ export'.staged = staged
      /\ export'.pc = IF last THEN "copyRoot" ELSE "copy"
      /\ UNCHANGED <<export.chosen, export.root>>
  BY <1>1, <1>2, <1>4 DEF Exports, Passes
<1>6. UNCHANGED <<selected, seenSets, archive>>
  BY <1>1 DEF packages
<1>7. ExportTypes' /\ Validated' /\ ArchiveOneMoment' /\ ChoosesSelected'
  BY <1>1, <1>2, <1>5, <1>6 DEF ExportInv, ExportTypes, Validated,
       ArchiveOneMoment, ChoosesSelected
<1>8. \A c \in Catalogs : staged[c] = IF c = c0 THEN selected[c] ELSE export.staged[c]
  BY <1>4 DEF Exports, Reads
<1> HIDE DEF staged
<1>9. ASSUME NEW m \in seenSets, Between(m) PROVE Between(m)'
  <2>1. ASSUME NEW c \in Catalogs, c = c0 \/ ~Left(c)
        PROVE  staged[c] \in Versions /\ m[c] <= staged[c]
    BY <1>1, <1>3, <1>8, <1>9, <2>1 DEF Between
  <2>2. \A c \in Catalogs : (last \/ ~Left(c)') =>
          export'.staged[c] \in Versions /\ m[c] <= export'.staged[c]
    BY <1>2, <1>5, <2>1 DEF Left
  <2> QED
    BY <1>5, <1>6, <1>9, <2>2 DEF Between
<1> QED
  BY <1>1, <1>5, <1>6, <1>7, <1>9 DEF ExportInv, OneMoment

\* An export that fails promises nothing.
LEMMA FailedKeeps ==
  ASSUME ExportInv, ExportFails
  PROVE  ExportInv'
<1>1. export' \in Exports /\ export'.left = export.left /\ export'.pc = "failed"
  BY DEF ExportInv, ExportTypes, Exports, Passes, ExportFails, ExportStep
<1>2. UNCHANGED <<selected, seenSets, archive>>
  BY DEF ExportFails, ExportStep, packages
<1> QED
  BY <1>1, <1>2 DEF ExportInv, ExportTypes, ChoosesSelected, OneMoment,
       Validated, ArchiveOneMoment

LEMMA RootKeeps ==
  ASSUME SupervisionInv, ExportInv, SelectRoot
  PROVE  ExportInv'
<1>1. CASE ExportFails
  BY <1>1, FailedKeeps
<1>2. CASE /\ pointer = None \/ pointer = export.chosen
           /\ ExportStep([export EXCEPT !.pc = "hash", !.root = pointer])
  <2>1. /\ export.pc = "root" /\ export \in Exports
        /\ pointer \in Roots
    BY  DEF SelectRoot, ExportInv, ExportTypes, SupervisionInv,
         SupervisionTypes, Roots
  <2>2. /\ export' \in Exports /\ export'.left = export.left
        /\ export'.pc = "hash" /\ export'.root = pointer
        /\ export'.chosen = export.chosen
    BY <1>2, <2>1 DEF ExportStep, Exports, Passes
  <2>3. UNCHANGED <<selected, seenSets, archive>>
    BY <1>2 DEF ExportStep, packages
  <2>4. \A m \in seenSets : Between(m) => Between(m)'
    BY <2>2, <2>3 DEF Between
  <2>5. OneMoment'
    BY <2>1, <2>2, <2>3, <2>4 DEF ExportInv, OneMoment
  <2>6. Validated'
    BY <1>2, <2>2 DEF Validated
  <2> QED
    BY <2>2, <2>3, <2>5, <2>6 DEF ExportInv, ExportTypes, ChoosesSelected,
         ArchiveOneMoment
<1> QED
  BY <1>1, <1>2 DEF SelectRoot

LEMMA CopyRootKeeps ==
  ASSUME SupervisionInv, ExportInv, export.pc = "copyRoot",
         ExportStep([export EXCEPT !.pc = "validate",
           !.stagedRoot = IF export.root = None THEN None ELSE pointer])
  PROVE  ExportInv'
<1>1. export \in Exports /\ pointer \in Roots /\ None \in Roots
  BY DEF ExportInv, ExportTypes, SupervisionInv, SupervisionTypes, Roots
<1>2. PICK root \in Roots : root = IF export.root = None THEN None ELSE pointer
  BY <1>1
<1>3. export' = [export EXCEPT !.pc = "validate", !.stagedRoot = root]
  BY <1>2 DEF ExportStep
<1>4. /\ export' \in Exports /\ export'.left = export.left
      /\ export'.pc = "validate"
      /\ UNCHANGED <<export.root, export.chosen, export.staged>>
  BY <1>1, <1>3 DEF Exports, Passes
<1>5. UNCHANGED <<selected, seenSets, archive>>
  BY DEF ExportStep, packages
<1>6. \A m \in seenSets : Between(m) => Between(m)'
  BY <1>4, <1>5 DEF Between
<1>7. OneMoment'
  BY <1>4, <1>5, <1>6 DEF ExportInv, OneMoment
<1> QED
  BY <1>4, <1>5, <1>7 DEF ExportInv, ExportTypes, ChoosesSelected, Validated,
       ArchiveOneMoment

LEMMA ValidateKeeps ==
  ASSUME ExportInv, ValidateBundle
  PROVE  ExportInv'
<1>1. CASE ExportFails
  BY <1>1, FailedKeeps
<1>2. CASE /\ export.staged = export.chosen
           /\ export.stagedRoot = export.root
           /\ ExportStep([export EXCEPT !.pc = "verify"])
  <2>1. export.pc = "validate" /\ export \in Exports
    BY DEF ValidateBundle, ExportInv, ExportTypes
  <2>2. /\ export' \in Exports /\ export'.left = export.left
        /\ export'.pc = "verify"
        /\ UNCHANGED <<export.root, export.chosen, export.staged,
                       export.stagedRoot>>
    BY <1>2, <2>1 DEF ExportStep, Exports, Passes
  <2>3. UNCHANGED <<selected, seenSets, archive>>
    BY <1>2 DEF ExportStep, packages
  <2>4. \A m \in seenSets : Between(m) => Between(m)'
    BY <2>1, <2>2, <2>3 DEF Between
  <2>5. OneMoment'
    BY <2>1, <2>2, <2>3, <2>4 DEF ExportInv, OneMoment
  <2>6. Validated'
    BY <1>2, <2>1, <2>2 DEF ExportInv, Validated
  <2> QED
    BY <2>2, <2>3, <2>5, <2>6 DEF ExportInv, ExportTypes, ChoosesSelected,
         ArchiveOneMoment
<1> QED
  BY <1>1, <1>2 DEF ValidateBundle

\* The copy is between what was chosen and itself: it is the moment.
LEMMA CopyIsTheMoment ==
  ASSUME ExportInv, export.pc = "verify"
  PROVE  /\ export.staged \in seenSets
         /\ export.stagedRoot \in {None, export.staged}
<1>1. /\ export.staged = export.chosen /\ export.stagedRoot = export.root
      /\ export.root \in {None, export.chosen}
  BY DEF ExportInv, Validated
<1>2. PICK m \in seenSets : Between(m)
  BY DEF ExportInv, OneMoment
<1>3. m \in Manifests /\ export.staged \in Reads
  BY DEF ExportInv, ExportTypes, Exports
<1>4. \A c \in Catalogs : m[c] \in Nat /\ export.staged[c] \in Nat
                          /\ export.staged[c] <= m[c] /\ m[c] <= export.staged[c]
  BY <1>1, <1>2, <1>3, WorkspaceConstants DEF Between, Versions, Manifests
<1>5. \A c \in Catalogs : m[c] = export.staged[c]
  BY <1>4
<1>6. m = export.staged
  BY <1>3, <1>5 DEF Manifests, Reads
<1> QED
  BY <1>1, <1>6

LEMMA VerifyKeeps ==
  ASSUME ExportInv, VerifyExport
  PROVE  ExportInv'
<1> DEFINE rest == Tail(export.left)
<1>1. export.pc = "verify" /\ export \in Exports /\ export.left # <<>>
  BY DEF VerifyExport, ExportInv, ExportTypes
<1>2. CASE ExportFails
  BY <1>2, FailedKeeps
<1>3. CASE rest # <<>> /\ ExportStep([export EXCEPT !.left = rest])
  <2>1. rest \in Seq(Catalogs)
    BY <1>1 DEF Exports
  <2>2. /\ export' \in Exports /\ export'.left = rest /\ export'.pc = "verify"
        /\ UNCHANGED <<export.root, export.chosen, export.staged,
                       export.stagedRoot>>
    BY <1>1, <1>3, <2>1 DEF ExportStep, Exports
  <2>3. UNCHANGED <<selected, seenSets, archive>>
    BY <1>3 DEF ExportStep, packages
  <2>4. \A m \in seenSets : Between(m) => Between(m)'
    BY <1>1, <2>2, <2>3 DEF Between
  <2>5. OneMoment'
    BY <1>1, <2>2, <2>3, <2>4 DEF ExportInv, OneMoment
  <2> QED
    BY <1>1, <1>3, <2>2, <2>3, <2>5 DEF ExportInv, ExportTypes,
         ChoosesSelected, Validated, ArchiveOneMoment
<1>4. CASE /\ archive' = [sets |-> export.staged, root |-> export.stagedRoot]
           /\ export' = [export EXCEPT !.pc = "done"]
           /\ UNCHANGED <<packages, supervision>>
  <2>1. /\ export' \in Exports /\ export'.left = export.left
        /\ export'.pc = "done"
        /\ UNCHANGED <<export.root, export.chosen, export.staged,
                       export.stagedRoot>>
    BY <1>1, <1>4 DEF Exports, Passes
  <2>2. UNCHANGED <<selected, seenSets>>
    BY <1>4 DEF packages
  <2>3. ArchiveOneMoment'
    BY <1>1, <1>4, <2>2, CopyIsTheMoment DEF ArchiveOneMoment
  <2>4. \A m \in seenSets : Between(m) => Between(m)'
    BY <1>1, <2>1, <2>2 DEF Between
  <2>5. OneMoment'
    BY <1>1, <2>1, <2>2, <2>4 DEF ExportInv, OneMoment
  <2> QED
    BY <1>1, <2>1, <2>2, <2>3, <2>5 DEF ExportInv, ExportTypes,
         ChoosesSelected, Validated
<1> QED
  BY <1>2, <1>3, <1>4 DEF VerifyExport

LEMMA ExportKeeps ==
  ASSUME SupervisionInv, ExportInv, Export
  PROVE  ExportInv' /\ UNCHANGED <<packages, supervision>>
<1>1. ExportInv'
  BY SelectKeeps, RootKeeps, HashKeeps, CopyKeeps, CopyRootKeeps,
     ValidateKeeps, VerifyKeeps
     DEF Export, CopyFiles
<1>2. UNCHANGED <<packages, supervision>>
  BY  DEF Export, SelectFiles, SelectRoot, HashFiles, CopyFiles,
       ValidateBundle, VerifyExport, Visit, ExportStep, ExportFails
<1> QED
  BY <1>1, <1>2

----------------------------------------------------------------------------
(* The places in their order: none twice, and every generated tree before   *)
(* the first authority tree.                                                *)

LEMMA PlacesDistinct ==
  ASSUME bundle \in Bundles
  PROVE  /\ PlacesInOrder \in Seq(Places) /\ Len(PlacesInOrder) \in Nat \ {0}
         /\ \A m, n \in 1..Len(PlacesInOrder) :
              PlacesInOrder[m] = PlacesInOrder[n] => m = n
         /\ \A m \in 1..Len(PlacesInOrder) : PlacesInOrder[m] \in Authority =>
              \A q \in Generated : \E k \in 1..m : PlacesInOrder[k] = q
<1> DEFINE n == Len(CatalogOrder)
           Place(k) == IF k <= n THEN <<"generated", CatalogOrder[k]>>
                       ELSE <<"authority", CatalogOrder[k - n]>>
           all == [k \in 1..2 * n |-> Place(k)]
           order == PlacesInOrder
<1>1. n \in Nat /\ n # 0 /\ DOMAIN CatalogOrder = 1..n
  BY TransferConstants
<1>2. \A k \in 1..n : CatalogOrder[k] \in Catalogs
  BY TransferConstants
<1>3. \A c \in Catalogs : \E k \in 1..n : CatalogOrder[k] = c
  BY <1>1, TransferConstants
<1>4. \A k \in 1..2 * n : Place(k) \in Places /\ Place(k) # Workspace
  BY <1>1, <1>2 DEF Places, Generated, Authority, Workspace
<1>5. \A k, m \in 1..2 * n : Place(k) = Place(m) => k = m
  <2> SUFFICES ASSUME NEW k \in 1..2 * n, NEW m \in 1..2 * n,
                      Place(k) = Place(m)
               PROVE  k = m
    OBVIOUS
  <2>1. CASE k <= n /\ m <= n
    BY <1>1, <2>1, TransferConstants
  <2>2. CASE ~(k <= n) /\ ~(m <= n)
    <3>1. k - n \in 1..n /\ m - n \in 1..n
      BY <1>1, <2>2
    <3>2. CatalogOrder[k - n] = CatalogOrder[m - n]
      BY <2>2
    <3>3. k - n = m - n
      BY <1>1, <3>1, <3>2, TransferConstants
    <3> QED
      BY <1>1, <3>3
  <2> QED
    BY <2>1, <2>2
<1>6. \A m \in 1..2 * n : Place(m) \in Authority =>
        \A q \in Generated : \E k \in 1..m : Place(k) = q
  <2> SUFFICES ASSUME NEW m \in 1..2 * n, Place(m) \in Authority,
                      NEW q \in Generated
               PROVE  \E k \in 1..m : Place(k) = q
    OBVIOUS
  <2>1. ~(m <= n)
    BY DEF Authority
  <2>2. PICK c \in Catalogs : q = <<"generated", c>>
    BY DEF Generated
  <2>3. PICK k \in 1..n : CatalogOrder[k] = c
    BY <1>3
  <2>4. k \in 1..m /\ k <= n
    BY <1>1, <2>1
  <2> QED
    BY <2>2, <2>3, <2>4
<1>7. \/ bundle.root = None /\ order = all
      \/ order = Append(all, Workspace)
  BY DEF PlacesInOrder
<1> HIDE DEF Place
<1>8. all \in Seq(Places) /\ Len(all) = 2 * n
  <2>1. all \in [1..2 * n -> Places] /\ 2 * n \in Nat
    BY <1>1, <1>4
  <2> QED
    BY <2>1
<1>9. \A k \in 1..2 * n : all[k] = Place(k)
  OBVIOUS
<1> HIDE DEF all, order
<1>10. Workspace \in Places /\ Workspace \notin Authority
  BY DEF Places, Authority, Workspace
<1>11. CASE order = all
  BY <1>1, <1>5, <1>6, <1>8, <1>9, <1>11 DEF order
<1>12. CASE order = Append(all, Workspace)
  <2>1. order \in Seq(Places) /\ Len(order) = 2 * n + 1
    BY <1>1, <1>8, <1>10, <1>12
  <2>2. \A k \in 1..2 * n : order[k] = Place(k)
    BY <1>1, <1>8, <1>9, <1>12
  <2>3. order[2 * n + 1] = Workspace
    BY <1>1, <1>8, <1>12
  <2>4. \A k \in 1..Len(order) : k = 2 * n + 1 \/ k \in 1..2 * n
    BY <1>1, <2>1
  <2>5. \A k, m \in 1..Len(order) : order[k] = order[m] => k = m
    BY <1>4, <1>5, <2>2, <2>3, <2>4
  <2>6. \A m \in 1..Len(order) : order[m] \in Authority =>
          \A q \in Generated : \E k \in 1..m : order[k] = q
    <3> SUFFICES ASSUME NEW m \in 1..Len(order), order[m] \in Authority,
                        NEW q \in Generated
                 PROVE  \E k \in 1..m : order[k] = q
      OBVIOUS
    <3>1. m \in 1..2 * n
      BY <1>10, <2>3, <2>4
    <3>2. PICK k \in 1..m : Place(k) = q
      BY <1>6, <2>2, <3>1
    <3>3. k \in 1..2 * n
      BY <1>1, <3>1
    <3> QED
      BY <2>2, <3>2, <3>3
  <2>7. Len(order) \in Nat \ {0}
    BY <1>1, <2>1
  <2> QED
    BY <2>1, <2>5, <2>6, <2>7 DEF order
<1> QED
  BY <1>7, <1>11, <1>12

\* Every authority tree has its place among them.
LEMMA AuthorityHasPlace ==
  ASSUME bundle \in Bundles, NEW c \in Catalogs
  PROVE  \E m \in 1..Len(PlacesInOrder) : PlacesInOrder[m] = <<"authority", c>>
<1> DEFINE n == Len(CatalogOrder)
           all == [k \in 1..2 * n |-> IF k <= n THEN <<"generated", CatalogOrder[k]>>
                     ELSE <<"authority", CatalogOrder[k - n]>>]
<1>1. n \in Nat /\ DOMAIN CatalogOrder = 1..n
  BY TransferConstants
<1>2. PICK k \in 1..n : CatalogOrder[k] = c
  BY <1>1, TransferConstants
<1>3. k + n \in 1..2 * n /\ ~(k + n <= n) /\ (k + n) - n = k
  BY <1>1
<1>4. all[k + n] = <<"authority", c>>
  <2>1. all[k + n] = <<"authority", CatalogOrder[(k + n) - n]>>
    BY <1>3
  <2> QED
    BY <1>2, <1>3, <2>1
<1>5. PlacesInOrder = all \/ PlacesInOrder = Append(all, Workspace)
  BY DEF PlacesInOrder
<1>6. DOMAIN all = 1..2 * n /\ 2 * n \in Nat
  BY <1>1
<1> HIDE DEF all
<1>7. CASE PlacesInOrder = all
  <2>1. Len(PlacesInOrder) = 2 * n
    BY <1>6, <1>7, PlacesDistinct
  <2> QED
    BY <1>3, <1>4, <1>7, <2>1
<1>8. CASE PlacesInOrder = Append(all, Workspace)
  <2>1. all \in Seq(Places) /\ Len(all) = 2 * n
    <3>1. \A m \in 1..2 * n : all[m] \in Places
      <4>1. \A m \in 1..2 * n : m <= n \/ m - n \in 1..n
        BY <1>1
      <4> QED
        BY <1>1, <4>1, TransferConstants DEF all, Places, Generated, Authority
    <3>2. all = [m \in 1..2 * n |-> all[m]]
      BY <1>6 DEF all
    <3> QED
      BY <1>6, <3>1, <3>2
  <2>2. /\ Len(Append(all, Workspace)) = 2 * n + 1
        /\ \A m \in 1..2 * n : Append(all, Workspace)[m] = all[m]
    BY <2>1
  <2>3. k + n \in 1..(2 * n + 1)
    BY <1>3, <1>6
  <2> QED
    BY <1>3, <1>4, <1>8, <2>2, <2>3
<1> QED
  BY <1>5, <1>7, <1>8

\* What a bundle has for a place is a tree.
LEMMA BundledIsATree ==
  ASSUME bundle \in Bundles, NEW p \in Places
  PROVE  Bundled(p) \in Trees
<1>1. CASE p = Workspace
  BY <1>1 DEF Bundled, Bundles, Trees
<1>2. CASE p # Workspace
  <2>1. p[2] \in Catalogs
    BY <1>2 DEF Places, Generated, Authority
  <2>2. bundle.sets[p[2]] \in Versions
    BY <2>1 DEF Bundles, Manifests, Versions
  <2> QED
    BY <1>2, <2>2 DEF Bundled, Trees
<1> QED
  BY <1>1, <1>2

----------------------------------------------------------------------------
(* The steps of an import.                                                  *)

\* An import that is under way has the lock, and a bundle.
LEMMA UnderWay ==
  ASSUME ReceiverInv, NEW i \in Importers, import[i].pc # "idle"
  PROVE  lock = i /\ Swap(i) /\ bundle \in Bundles
BY DEF ReceiverInv, OneImport

LEMMA StepOf ==
  ASSUME ReceiverInv, NEW i \in Importers, NEW next \in Imports,
         ImportStep(i, next)
  PROVE  /\ import' \in [Importers -> Imports] /\ import'[i] = next
         /\ \A j \in Importers : j # i => import'[j] = import[j]
BY DEF ReceiverInv, ReceiverTypes, ImportStep

\* The owner of the lock turns to its next step.
LEMMA TurnKeeps ==
  ASSUME ReceiverInv, NEW i \in Importers, NEW next \in Imports,
         ImportStep(i, next), import[i].pc # "idle",
         next.pc \notin {"idle", "inspect"}, trees' \in [Places -> Trees],
         UNCHANGED <<bundle, inputs, lock>>, Swap(i)'
  PROVE  ReceiverInv'
<1>1. lock = i /\ bundle \in Bundles
  BY UnderWay
<1>2. /\ import' \in [Importers -> Imports] /\ import'[i] = next
      /\ \A j \in Importers : j # i => import'[j] = import[j]
  BY StepOf
<1>3. ReceiverTypes'
  BY <1>2 DEF ReceiverInv, ReceiverTypes
<1>4. OneImport'
  BY <1>1, <1>2 DEF ReceiverInv, OneImport
<1> QED
  BY <1>1, <1>3, <1>4 DEF ReceiverInv

\* A step that moves no tree, and forgets nothing.
LEMMA RestKeeps ==
  ASSUME ReceiverInv, NEW i \in Importers, NEW next \in Imports,
         ImportStep(i, next), import[i].pc # "idle",
         next.pc \notin {"idle", "inspect", "install"},
         next.pc = "swap" => import[i].pc = "swap",
         next.pc = "restore" => import[i].installed = <<>>,
         next.pc = "cleanup" /\ next.outcome # "imported" =>
           import[i].installed = <<>> /\ import[i].moved = <<>>,
         next.left = import[i].left,
         next.installed = import[i].installed,
         next.moved = import[i].moved, next.backup = import[i].backup,
         next.before = import[i].before,
         UNCHANGED <<bundle, inputs, lock, trees>>
  PROVE  ReceiverInv'
<1>1. Swap(i)
  BY UnderWay
<1>2. import'[i] = next
  BY StepOf
<1>3. /\ PlacesInOrder' = PlacesInOrder
      /\ \A p \in Places : Bundled(p)' = Bundled(p)
  BY DEF PlacesInOrder, Bundled
<1>4. \A p \in Places : (Installed(i, p)' <=> Installed(i, p))
                        /\ (Moved(i, p)' <=> Moved(i, p))
  BY <1>2 DEF Installed, Moved, Has
<1>5. InOrder(i)'
  BY <1>1, <1>2, <1>3 DEF Swap, InOrder
<1>6. MovedOnce(i)' /\ Emptied(i)' /\ TakenBack(i)'
  BY <1>1, <1>2, <1>4 DEF Swap, MovedOnce, Emptied, TakenBack
<1>7. \A p \in Places : WhereIs(i, p)'
  BY <1>1, <1>2, <1>3, <1>4 DEF Swap, WhereIs
<1>8. Swap(i)'
  BY <1>5, <1>6, <1>7 DEF Swap
<1> QED
  BY <1>8, TurnKeeps DEF ReceiverInv, ReceiverTypes

LEMMA ImportIs ==
  ASSUME ReceiverInv, NEW i \in Importers
  PROVE  import[i] \in Imports
BY DEF ReceiverInv, ReceiverTypes

LEMMA RollbackKeeps ==
  ASSUME ReceiverInv, NEW i \in Importers, Rollback(i),
         import[i].pc # "idle", UNCHANGED <<bundle, inputs, lock, trees>>
  PROVE  ReceiverInv'
<1> DEFINE next == [import[i] EXCEPT !.pc = "remove", !.outcome = "failed"]
<1>1. /\ next \in Imports /\ next.pc = "remove" /\ next.left = import[i].left
      /\ next.installed = import[i].installed
      /\ next.moved = import[i].moved /\ next.backup = import[i].backup
      /\ next.before = import[i].before
  BY ImportIs DEF Imports, ImportLabels
<1>2. ImportStep(i, next)
  BY DEF Rollback
<1> HIDE DEF next
<1> QED
  BY <1>1, <1>2, RestKeeps

\* A step that only changes its label, to one where nothing more is known.
LEMMA LabelKeeps ==
  ASSUME ReceiverInv, NEW i \in Importers,
         NEW label \in {"remove", "restore", "cleanup", "recovery", "killed"},
         ImportStep(i, [import[i] EXCEPT !.pc = label]),
         label = "restore" => import[i].installed = <<>>,
         label = "cleanup" => import[i].installed = <<>> /\ import[i].moved = <<>>,
         import[i].pc # "idle", UNCHANGED <<bundle, inputs, lock, trees>>
  PROVE  ReceiverInv'
<1> DEFINE next == [import[i] EXCEPT !.pc = label]
<1>1. /\ next \in Imports /\ next.pc = label /\ next.left = import[i].left
      /\ next.installed = import[i].installed
      /\ next.moved = import[i].moved /\ next.backup = import[i].backup
      /\ next.before = import[i].before
  BY ImportIs DEF Imports, ImportLabels
<1> HIDE DEF next
<1> QED
  BY <1>1, RestKeeps DEF next

LEMMA LockKeeps ==
  ASSUME ReceiverInv, NEW i \in Importers, LockTransfer(i)
  PROVE  ReceiverInv'
<1>1. /\ import[i].pc = "idle" /\ bundle \in Bundles
      /\ UNCHANGED <<bundle, inputs, trees>>
  BY DEF LockTransfer, Keep, Kept, ReceiverInv, ReceiverTypes
<1>2. CASE /\ lock # None /\ UNCHANGED lock
           /\ ImportStep(i, [import[i] EXCEPT !.outcome = "failed"])
  <2> DEFINE next == [import[i] EXCEPT !.outcome = "failed"]
  <2>1. /\ next \in Imports /\ next.pc = "idle"
        /\ next.installed = import[i].installed
        /\ next.moved = import[i].moved /\ next.backup = import[i].backup
    BY <1>1, ImportIs DEF Imports, ImportLabels
  <2> HIDE DEF next
  <2>2. /\ import' \in [Importers -> Imports] /\ import'[i] = next
        /\ \A j \in Importers : j # i => import'[j] = import[j]
    BY <1>2, <2>1, StepOf DEF next
  <2>3. ReceiverTypes' /\ OneImport'
    BY <1>1, <1>2, <2>1, <2>2 DEF ReceiverInv, ReceiverTypes, OneImport
  <2>4. ASSUME NEW j \in Importers, lock' = j PROVE Swap(j)'
    <3>1. j # i /\ lock = j /\ Swap(j)
      BY <1>1, <1>2, <2>4 DEF ReceiverInv, OneImport
    <3>2. import'[j] = import[j]
      BY <2>2, <3>1
    <3>3. /\ PlacesInOrder' = PlacesInOrder
          /\ \A p \in Places : Bundled(p)' = Bundled(p)
      BY <1>1 DEF PlacesInOrder, Bundled
    <3>4. \A p : (Installed(j, p)' <=> Installed(j, p))
                 /\ (Moved(j, p)' <=> Moved(j, p))
      BY <3>2 DEF Installed, Moved, Has
    <3>5. InOrder(j)'
      BY <3>1, <3>2, <3>3 DEF Swap, InOrder
    <3>6. MovedOnce(j)' /\ Emptied(j)' /\ TakenBack(j)'
      BY <3>1, <3>2, <3>4 DEF Swap, MovedOnce, Emptied, TakenBack
    <3>7. \A p \in Places : WhereIs(j, p)'
      BY <1>1, <3>1, <3>2, <3>3, <3>4 DEF Swap, WhereIs
    <3> QED
      BY <3>5, <3>6, <3>7 DEF Swap
  <2> QED
    BY <2>3, <2>4 DEF ReceiverInv
<1>3. CASE /\ lock = None /\ lock' = i
           /\ ImportStep(i, [import[i] EXCEPT !.pc = "inspect", !.before = trees])
  <2> DEFINE next == [import[i] EXCEPT !.pc = "inspect", !.before = trees]
  <2>1. /\ next \in Imports /\ next.pc = "inspect" /\ next.before = trees
        /\ next.installed = import[i].installed
        /\ next.moved = import[i].moved /\ next.backup = import[i].backup
    BY ImportIs DEF Imports, ImportLabels, ReceiverInv, ReceiverTypes
  <2> HIDE DEF next
  <2>2. /\ import' \in [Importers -> Imports] /\ import'[i] = next
        /\ \A j \in Importers : j # i => import'[j] = import[j]
    BY <1>3, <2>1, StepOf DEF next
  <2>3. next.installed = <<>> /\ next.moved = <<>> /\ next.backup = NoTrees
    BY <1>1, <2>1 DEF ReceiverInv, OneImport
  <2>4. \A j \in Importers : import[j].pc = "idle"
    BY <1>3, TransferConstants DEF ReceiverInv, OneImport
  <2>5. ReceiverTypes' /\ OneImport'
    BY <1>1, <1>3, <2>1, <2>2, <2>3, <2>4 DEF ReceiverInv, ReceiverTypes,
         OneImport
  <2>6. \A p \in Places : ~Installed(i, p)' /\ ~Moved(i, p)'
    BY <2>2, <2>3 DEF Installed, Moved, Has
  <2>7. InOrder(i)'
    <3>1. Len(PlacesInOrder)' \in Nat
      BY <1>1, PlacesDistinct DEF PlacesInOrder
    <3>2. Len(import'[i].installed) = 0
      BY <2>2, <2>3
    <3>3. import'[i].pc = "inspect"
      BY <2>1, <2>2
    <3> QED
      BY <3>1, <3>2, <3>3 DEF InOrder
  <2>8. MovedOnce(i)' /\ Emptied(i)' /\ TakenBack(i)'
    BY <2>1, <2>2, <2>3 DEF MovedOnce, Emptied, TakenBack
  <2>9. \A p \in Places : WhereIs(i, p)'
    BY <1>1, <2>1, <2>2, <2>6 DEF WhereIs
  <2> QED
    BY <1>3, <2>5, <2>7, <2>8, <2>9 DEF ReceiverInv, Swap
<1> QED
  BY <1>1, <1>2, <1>3 DEF LockTransfer

LEMMA InspectKeeps ==
  ASSUME ReceiverInv, NEW i \in Importers, Inspect(i)
  PROVE  ReceiverInv'
<1>1. /\ import[i].pc = "inspect"
      /\ UNCHANGED <<bundle, inputs, lock, trees>>
  BY DEF Inspect, Keep, Kept
<1>2. /\ import[i].installed = <<>> /\ import[i].moved = <<>>
      /\ Swap(i) /\ bundle \in Bundles
  BY <1>1, UnderWay DEF ReceiverInv, OneImport
<1>3. CASE ImportStep(i, [import[i] EXCEPT !.pc = "cleanup", !.outcome = "failed"])
  <2> DEFINE next == [import[i] EXCEPT !.pc = "cleanup", !.outcome = "failed"]
  <2>1. /\ next \in Imports /\ next.pc = "cleanup" /\ next.left = import[i].left
        /\ next.installed = import[i].installed
        /\ next.moved = import[i].moved /\ next.backup = import[i].backup
        /\ next.before = import[i].before
    BY ImportIs DEF Imports, ImportLabels
  <2> HIDE DEF next
  <2> QED
    BY <1>1, <1>2, <1>3, <2>1, RestKeeps DEF next
<1>4. CASE ImportStep(i, [import[i] EXCEPT !.pc = "swap", !.left = PlacesInOrder])
  <2> DEFINE next == [import[i] EXCEPT !.pc = "swap", !.left = PlacesInOrder]
  <2>1. PlacesInOrder \in Seq(Places) /\ Len(PlacesInOrder) \in Nat
    BY <1>2, PlacesDistinct
  <2>2. /\ next \in Imports /\ next.pc = "swap" /\ next.left = PlacesInOrder
        /\ next.installed = <<>> /\ next.moved = <<>>
        /\ next.before = import[i].before
    BY <1>2, <2>1, ImportIs DEF Imports, ImportLabels
  <2> HIDE DEF next
  <2>3. import'[i] = next
    BY <1>4, <2>2, StepOf DEF next
  <2>4. PlacesInOrder' = PlacesInOrder
    BY <1>1 DEF PlacesInOrder
  <2>5. InOrder(i)'
    <3>1. Len(import'[i].installed) = 0
      BY <2>2, <2>3
    <3>2. import'[i].left = PlacesInOrder' /\ import'[i].pc = "swap"
      BY <2>2, <2>3, <2>4
    <3>3. Len(PlacesInOrder)' \in Nat
      BY <2>1, <2>4
    <3>4. \A n \in 1..Len(PlacesInOrder)' :
            PlacesInOrder'[n] = PlacesInOrder'[0 + n]
      BY <3>3
    <3> QED
      BY <3>1, <3>2, <3>3, <3>4 DEF InOrder
  <2>6. \A p \in Places : /\ ~Installed(i, p)' /\ ~Moved(i, p)'
                          /\ ~Installed(i, p) /\ ~Moved(i, p)
    BY <1>2, <2>2, <2>3 DEF Installed, Moved, Has
  <2>7. MovedOnce(i)' /\ Emptied(i)' /\ TakenBack(i)'
    BY <2>2, <2>3, <2>6 DEF MovedOnce, Emptied, TakenBack
  <2>8. \A p \in Places : WhereIs(i, p)'
    BY <1>1, <1>2, <2>2, <2>3, <2>6 DEF Swap, WhereIs
  <2>9. Swap(i)'
    BY <2>5, <2>7, <2>8 DEF Swap
  <2> QED
    BY <1>1, <1>4, <2>2, <2>9, TurnKeeps DEF next, ReceiverInv, ReceiverTypes
<1> QED
  BY <1>3, <1>4 DEF Inspect

\* What a sequence has after something was added to it, or taken from its end.
LEMMA HasAppend ==
  ASSUME NEW S, NEW s \in Seq(S), NEW e \in S
  PROVE  /\ Append(s, e) \in Seq(S) /\ Len(Append(s, e)) = Len(s) + 1
         /\ \A n \in 1..Len(s) : Append(s, e)[n] = s[n]
         /\ Append(s, e)[Len(s) + 1] = e
         /\ \A x : Has(Append(s, e), x) <=> Has(s, x) \/ x = e
<1>1. /\ Append(s, e) \in Seq(S) /\ Len(Append(s, e)) = Len(s) + 1
      /\ \A n \in 1..Len(s) : Append(s, e)[n] = s[n]
      /\ Append(s, e)[Len(s) + 1] = e
  OBVIOUS
<1>2. /\ Len(s) \in Nat /\ DOMAIN s = 1..Len(s)
      /\ DOMAIN Append(s, e) = 1..(Len(s) + 1)
  BY <1>1
<1>3. \A n \in 1..(Len(s) + 1) : n \in 1..Len(s) \/ n = Len(s) + 1
  BY <1>2
<1>4. 1..Len(s) \subseteq 1..(Len(s) + 1) /\ Len(s) + 1 \in 1..(Len(s) + 1)
  BY <1>2
<1> QED
  BY <1>1, <1>2, <1>3, <1>4 DEF Has

LEMMA HasFront ==
  ASSUME NEW S, NEW s \in Seq(S), s # <<>>,
         \A m, n \in 1..Len(s) : s[m] = s[n] => m = n
  PROVE  LET front == SubSeq(s, 1, Len(s) - 1) IN
         /\ front \in Seq(S) /\ Len(front) = Len(s) - 1 /\ Len(s) \in Nat \ {0}
         /\ \A n \in 1..Len(front) : front[n] = s[n]
         /\ s[Len(s)] \in S /\ Has(s, s[Len(s)])
         /\ \A x : Has(front, x) <=> Has(s, x) /\ x # s[Len(s)]
<1> DEFINE front == SubSeq(s, 1, Len(s) - 1)
<1>1. Len(s) \in Nat \ {0} /\ DOMAIN s = 1..Len(s) /\ s[Len(s)] \in S
  OBVIOUS
<1>2. PICK k \in Nat : k + 1 = Len(s) /\ Len(s) - 1 = k
  <2>1. Len(s) - 1 \in Nat /\ (Len(s) - 1) + 1 = Len(s)
    BY <1>1
  <2> QED
    BY <2>1
<1>3. Len(s) - 1 = k
  BY <1>2
<1>4. /\ \A n \in 1..k : n \in 1..(k + 1) /\ n # k + 1
      /\ \A n \in 1..(k + 1) : n \in 1..k \/ n = k + 1
  OBVIOUS
<1>5. \A n \in 1..k : s[n] \in S
  BY <1>1, <1>2, <1>4
<1>6. /\ front \in Seq(S) /\ Len(front) = k
      /\ \A n \in 1..k : front[n] = s[n]
  <2>1. front = [n \in 1..k |-> s[n]]
    BY <1>2, <1>3, <1>5
  <2> QED
    BY <1>5, <2>1
<1>7. DOMAIN front = 1..k
  BY <1>6
<1> HIDE DEF front
<1>8. \A x : Has(front, x) <=> Has(s, x) /\ x # s[k + 1]
  BY <1>1, <1>2, <1>4, <1>6, <1>7 DEF Has
<1>9. Has(s, s[Len(s)])
  BY <1>1 DEF Has
<1> QED
  BY <1>1, <1>2, <1>3, <1>6, <1>8, <1>9 DEF front

\* The place an import is at: not installed, and moved in its step only.
LEMMA AtPlace ==
  ASSUME ReceiverInv, NEW i \in Importers,
         import[i].pc \in {"swap", "install"}, import[i].left # <<>>
  PROVE  LET p == Head(import[i].left)  done == import[i].installed IN
         /\ p \in Places /\ p = PlacesInOrder[Len(done) + 1]
         /\ Len(done) \in Nat /\ Len(done) + 1 \in 1..Len(PlacesInOrder)
         /\ ~Installed(i, p)
         /\ import[i].pc = "swap" => ~Moved(i, p)
<1> DEFINE l == import[i].left
           p == Head(l)
           done == import[i].installed
           order == PlacesInOrder
<1>1. import[i] \in Imports /\ Swap(i) /\ bundle \in Bundles
  BY ImportIs, UnderWay
<1>2. l \in Seq(Places) /\ l # <<>> /\ done \in Seq(Places)
  BY <1>1 DEF Imports
<1>3. p \in Places /\ p = l[1] /\ Len(l) \in Nat \ {0}
  BY <1>2
<1>4. /\ Len(l) = Len(order) - Len(done)
      /\ \A n \in 1..Len(l) : l[n] = order[Len(done) + n]
      /\ \A n \in 1..Len(done) : done[n] = order[n]
  BY <1>1 DEF Swap, InOrder
<1>5. /\ Len(order) \in Nat
      /\ \A m, n \in 1..Len(order) : order[m] = order[n] => m = n
  BY <1>1, PlacesDistinct
<1>6. Len(done) \in Nat /\ DOMAIN done = 1..Len(done)
  BY <1>2
<1> HIDE DEF l, done, order
<1>7. Len(done) + 1 \in 1..Len(order) /\ l[1] = order[Len(done) + 1]
  <2>1. 1 \in 1..Len(l)
    BY <1>3
  <2>2. l[1] = order[Len(done) + 1]
    BY <1>4, <2>1
  <2>3. \A a, b, c \in Nat : a # 0 /\ a = b - c => c + 1 \in 1..b
    OBVIOUS
  <2> QED
    BY <1>3, <1>4, <1>5, <1>6, <2>2, <2>3
<1>8. ~Has(done, order[Len(done) + 1])
  <2> SUFFICES ASSUME NEW n \in 1..Len(done), done[n] = order[Len(done) + 1]
               PROVE  FALSE
    BY <1>6 DEF Has
  <2>1. n \in 1..Len(order) /\ order[n] = order[Len(done) + 1]
    BY <1>4, <1>5, <1>6, <1>7
  <2>2. n = Len(done) + 1
    BY <1>5, <1>7, <2>1
  <2> QED
    BY <1>6, <2>2
<1>9. ~Installed(i, p)
  BY <1>3, <1>7, <1>8 DEF Installed, done
<1>10. import[i].pc = "swap" => ~Moved(i, p)
  BY <1>1, <1>3, <1>9 DEF Swap, MovedOnce
<1> QED
  BY <1>3, <1>6, <1>7, <1>9, <1>10 DEF l, done, order

LEMMA MoveKeeps ==
  ASSUME ReceiverInv, NEW i \in Importers, MoveAway(i)
  PROVE  ReceiverInv'
<1> DEFINE p == Head(import[i].left)
           gone == import[i].moved
           moved == IF trees[p] = None THEN gone ELSE Append(gone, p)
           next == [import[i] EXCEPT !.pc = "install", !.backup[p] = trees[p],
                      !.moved = moved]
<1>1. /\ import[i].pc = "swap" /\ import[i].left # <<>>
      /\ UNCHANGED <<bundle, inputs, lock>>
  BY DEF MoveAway, Keep, Kept
<1>2. CASE Rollback(i) /\ UNCHANGED trees
  BY <1>1, <1>2, RollbackKeeps
<1>3. CASE trees' = [trees EXCEPT ![p] = None] /\ ImportStep(i, next)
  <2>1. import[i] \in Imports /\ Swap(i) /\ bundle \in Bundles
    BY <1>1, ImportIs, UnderWay
  <2>2. p \in Places /\ ~Installed(i, p) /\ ~Moved(i, p)
    BY <1>1, AtPlace
  <2>3. trees \in [Places -> Trees] /\ None \in Trees
    BY DEF ReceiverInv, ReceiverTypes, Trees, Roots
  <2>4. trees[p] = import[i].before[p] /\ trees[p] \in Trees
    BY <2>1, <2>2, <2>3 DEF Swap, WhereIs
  <2>5. gone \in Seq(Places)
    BY <2>1 DEF Imports
  <2>6. /\ moved \in Seq(Places)
        /\ \A q : Has(moved, q) <=> Has(gone, q) \/ (q = p /\ trees[p] # None)
    BY <2>2, <2>5, HasAppend
  <2>7. \A m, n \in 1..Len(moved) : moved[m] = moved[n] => m = n
    <3>1. \A m, n \in 1..Len(gone) : gone[m] = gone[n] => m = n
      BY <2>1 DEF Swap, MovedOnce
    <3>2. CASE trees[p] = None
      BY <3>1, <3>2
    <3>3. CASE moved = Append(gone, p)
      <4>1. /\ Len(moved) = Len(gone) + 1 /\ moved[Len(gone) + 1] = p
            /\ \A n \in 1..Len(gone) : moved[n] = gone[n]
            /\ Len(gone) \in Nat /\ DOMAIN gone = 1..Len(gone)
        BY <2>2, <2>5, <3>3, HasAppend
      <4>2. \A n \in 1..Len(gone) : gone[n] # p
        BY <2>2, <4>1 DEF Moved, Has
      <4> HIDE DEF moved, gone, p
      <4>3. \A n \in 1..Len(moved) : n \in 1..Len(gone) \/ n = Len(gone) + 1
        BY <4>1
      <4> QED
        BY <3>1, <4>1, <4>2, <4>3
    <3> QED
      BY <3>2, <3>3
  <2> HIDE DEF moved
  <2>8. /\ next \in Imports /\ next.pc = "install"
        /\ next.left = import[i].left /\ next.moved = moved
        /\ next.installed = import[i].installed
        /\ next.before = import[i].before
        /\ next.backup = [import[i].backup EXCEPT ![p] = trees[p]]
    <3>1. import[i].backup \in [Places -> Trees]
      BY <2>1 DEF Imports
    <3>2. [import[i].backup EXCEPT ![p] = trees[p]] \in [Places -> Trees]
      BY <2>2, <2>4, <3>1
    <3> QED
      BY <2>1, <2>6, <3>2 DEF Imports, ImportLabels
  <2>9. /\ next.backup[p] = trees[p]
        /\ \A q \in Places : q # p => next.backup[q] = import[i].backup[q]
    BY <2>1, <2>2, <2>8 DEF Imports
  <2> HIDE DEF next
  <2>10. import'[i] = next
    BY <1>3, <2>8, StepOf
  <2>11. /\ trees' \in [Places -> Trees] /\ trees'[p] = None
         /\ \A q \in Places : q # p => trees'[q] = trees[q]
    BY <1>3, <2>2, <2>3
  <2>12. /\ PlacesInOrder' = PlacesInOrder
         /\ \A q \in Places : Bundled(q)' = Bundled(q)
    BY <1>1 DEF PlacesInOrder, Bundled
  <2>13. \A q : /\ Installed(i, q)' <=> Installed(i, q)
                /\ Moved(i, q)' <=> Moved(i, q) \/ (q = p /\ trees[p] # None)
    BY <2>6, <2>8, <2>10 DEF Installed, Moved
  <2>14. InOrder(i)'
    BY <1>1, <2>1, <2>8, <2>10, <2>12 DEF Swap, InOrder
  <2>15. MovedOnce(i)'
    <3>1. \A q \in Places : Moved(i, q)' => Installed(i, q)' \/ q = p
      BY <1>1, <2>1, <2>13 DEF Swap, MovedOnce
    <3> QED
      BY <2>7, <2>8, <2>10, <3>1 DEF MovedOnce
  <2>16. Emptied(i)' /\ TakenBack(i)'
    BY <2>4, <2>8, <2>10, <2>13 DEF Emptied, TakenBack
  <2>17. ASSUME NEW q \in Places PROVE WhereIs(i, q)'
    <3>1. WhereIs(i, q)
      BY <2>1 DEF Swap
    <3>2. CASE q = p
      BY <2>2, <2>4, <2>8, <2>9, <2>10, <2>11, <2>13, <3>2 DEF WhereIs
    <3>3. CASE q # p
      BY <2>8, <2>9, <2>10, <2>11, <2>12, <2>13, <3>1, <3>3 DEF WhereIs
    <3> QED
      BY <3>2, <3>3
  <2>18. Swap(i)'
    BY <2>14, <2>15, <2>16, <2>17 DEF Swap
  <2> QED
    BY <1>1, <1>3, <2>8, <2>11, <2>18, TurnKeeps
<1> QED
  BY <1>2, <1>3 DEF MoveAway

LEMMA InstallKeeps ==
  ASSUME ReceiverInv, NEW i \in Importers, InstallTree(i)
  PROVE  ReceiverInv'
<1> DEFINE left == import[i].left
           p == Head(left)
           done == import[i].installed
           next == [import[i] EXCEPT !.pc = "swap", !.left = Tail(left),
                      !.installed = Append(done, p), !.unverified = CatalogOrder]
<1>1. import[i].pc = "install" /\ UNCHANGED <<bundle, inputs, lock>>
  BY DEF InstallTree, Keep, Kept
<1>2. /\ import[i] \in Imports /\ Swap(i) /\ bundle \in Bundles
      /\ left # <<>>
  BY <1>1, ImportIs, UnderWay DEF Swap, InOrder
<1>3. CASE Rollback(i) /\ UNCHANGED trees
  BY <1>1, <1>3, RollbackKeeps
<1>4. CASE /\ trees' = [trees EXCEPT ![p] = Bundled(p)]
           /\ ImportStep(i, [import[i] EXCEPT !.pc = "swap", !.left = Tail(@),
                !.installed = Append(@, p), !.unverified = CatalogOrder])
  <2>1. /\ p \in Places /\ p = PlacesInOrder[Len(done) + 1]
        /\ Len(done) \in Nat /\ Len(done) + 1 \in 1..Len(PlacesInOrder)
        /\ ~Installed(i, p)
    BY <1>1, <1>2, AtPlace
  <2>2. left \in Seq(Places) /\ done \in Seq(Places)
    BY <1>2 DEF Imports
  <2>3. /\ Append(done, p) \in Seq(Places) /\ Len(Append(done, p)) = Len(done) + 1
        /\ \A n \in 1..Len(done) : Append(done, p)[n] = done[n]
        /\ Append(done, p)[Len(done) + 1] = p
        /\ \A x : Has(Append(done, p), x) <=> Has(done, x) \/ x = p
    BY <2>1, <2>2, HasAppend
  <2>4. /\ Tail(left) \in Seq(Places) /\ Len(left) \in Nat \ {0}
        /\ Len(Tail(left)) = Len(left) - 1
        /\ \A n \in 1..Len(Tail(left)) : Tail(left)[n] = left[n + 1]
    BY <1>2, <2>2
  <2>5. PICK appended \in Seq(Places) : appended = Append(done, p)
    BY <2>3
  <2>6. PICK rest \in Seq(Places) : rest = Tail(left)
    BY <2>4
  <2>7. /\ next \in Imports /\ next.pc = "swap" /\ next.left = rest
        /\ next.installed = appended /\ next.moved = import[i].moved
        /\ next.before = import[i].before /\ next.backup = import[i].backup
    BY <1>2, <2>5, <2>6, TransferConstants DEF Imports, ImportLabels
  <2>8. ImportStep(i, next)
    BY <1>4
  <2> HIDE DEF next
  <2>9. import'[i] = next
    BY <2>7, <2>8, StepOf
  <2>10. trees \in [Places -> Trees] /\ Bundled(p) \in Trees
    BY <1>2, <2>1, BundledIsATree DEF ReceiverInv, ReceiverTypes
  <2>11. /\ trees' \in [Places -> Trees] /\ trees'[p] = Bundled(p)
         /\ \A q \in Places : q # p => trees'[q] = trees[q]
    BY <1>4, <2>1, <2>10
  <2>12. /\ PlacesInOrder' = PlacesInOrder
         /\ \A q : Bundled(q)' = Bundled(q)
    BY <1>1 DEF PlacesInOrder, Bundled
  <2>13. \A q : /\ Installed(i, q)' <=> Installed(i, q) \/ q = p
                /\ Moved(i, q)' <=> Moved(i, q)
    BY <2>3, <2>5, <2>7, <2>9 DEF Installed, Moved
  <2>14. InOrder(i)'
    <3> DEFINE order == PlacesInOrder
    <3>1. /\ Len(left) = Len(order) - Len(done)
          /\ \A n \in 1..Len(left) : left[n] = order[Len(done) + n]
          /\ \A n \in 1..Len(done) : done[n] = order[n]
          /\ Len(order) \in Nat
      BY <1>1, <1>2, PlacesDistinct DEF Swap, InOrder
    <3>2. PICK k \in Nat : k = Len(done)
      BY <2>1
    <3>3. PICK l \in Nat : l = Len(order)
      BY <3>1
    <3>4. k + 1 <= l /\ Len(appended) = k + 1 /\ Len(rest) = l - (k + 1)
      <4>1. k + 1 \in 1..l /\ Len(appended) = k + 1
        BY <2>1, <2>3, <2>5, <3>2, <3>3
      <4>2. Len(rest) = Len(left) - 1 /\ Len(left) = l - k
        BY <2>4, <2>6, <3>1, <3>2, <3>3
      <4>3. Len(rest) = (l - k) - 1
        BY <4>2, Zenon
      <4> QED
        BY <4>1, <4>3
    <3>5. \A n \in 1..(k + 1) : n \in 1..k \/ n = k + 1
      OBVIOUS
    <3>6. \A n \in 1..(k + 1) : appended[n] = order[n]
      BY <2>1, <2>3, <2>5, <3>1, <3>2, <3>5
    <3>7. ASSUME NEW n \in 1..Len(rest) PROVE rest[n] = order[(k + 1) + n]
      <4>1. n + 1 \in 1..Len(left) /\ n \in 1..Len(Tail(left))
        BY <2>4, <2>6
      <4>2. rest[n] = left[n + 1] /\ left[n + 1] = order[k + (n + 1)]
        BY <2>4, <2>6, <3>1, <3>2, <4>1
      <4>3. k + (n + 1) = (k + 1) + n
        BY <2>4, <2>6
      <4> QED
        BY <4>2, <4>3
    <3> HIDE DEF order
    <3>8. /\ Len(appended) <= Len(order)
          /\ \A n \in 1..Len(appended) : appended[n] = order[n]
          /\ Len(rest) = Len(order) - Len(appended)
          /\ \A n \in 1..Len(rest) : rest[n] = order[Len(appended) + n]
      BY <3>3, <3>4, <3>6, <3>7
    <3>9. /\ import'[i].installed = appended /\ import'[i].left = rest
          /\ import'[i].pc = "swap" /\ PlacesInOrder' = order
      BY <2>7, <2>9, <2>12 DEF order
    <3> QED
      BY <3>8, <3>9 DEF InOrder
  <2>15. MovedOnce(i)'
    <3>1. \A q \in Places : Moved(i, q)' => Installed(i, q)'
      BY <1>1, <1>2, <2>13 DEF Swap, MovedOnce
    <3>2. import'[i].moved = import[i].moved /\ import'[i].pc = "swap"
      BY <2>7, <2>9
    <3> QED
      BY <1>2, <3>1, <3>2 DEF Swap, MovedOnce
  <2>16. Emptied(i)' /\ TakenBack(i)'
    BY <2>7, <2>9 DEF Emptied, TakenBack
  <2>17. ASSUME NEW q \in Places PROVE WhereIs(i, q)'
    <3>1. WhereIs(i, q)
      BY <1>2 DEF Swap
    <3>2. CASE q = p
      <4>1. Moved(i, p) \/ import[i].before[p] = None
        BY <1>1, <1>2 DEF Swap, Emptied
      <4> QED
        BY <2>7, <2>9, <2>11, <2>12, <2>13, <3>1, <3>2, <4>1 DEF WhereIs
    <3>3. CASE q # p
      BY <2>7, <2>9, <2>11, <2>12, <2>13, <3>1, <3>3 DEF WhereIs
    <3> QED
      BY <3>2, <3>3
  <2>18. Swap(i)'
    BY <2>14, <2>15, <2>16, <2>17 DEF Swap
  <2> QED
    BY <1>1, <2>7, <2>8, <2>11, <2>18, TurnKeeps
<1> QED
  BY <1>3, <1>4 DEF InstallTree

LEMMA VerifyStagedKeeps ==
  ASSUME ReceiverInv, NEW i \in Importers, VerifyStaged(i)
  PROVE  ReceiverInv'
<1>1. /\ import[i].pc = "swap" /\ UNCHANGED <<bundle, inputs, lock, trees>>
  BY DEF VerifyStaged, Keep, Kept
<1>2. CASE Rollback(i)
  BY <1>1, <1>2, RollbackKeeps
<1>3. CASE ImportStep(i, [import[i] EXCEPT !.unverified = Tail(@)])
  <2> DEFINE next == [import[i] EXCEPT !.unverified = Tail(@)]
  <2>0. Tail(import[i].unverified) \in Seq(Catalogs)
    BY ImportIs DEF VerifyStaged, Imports
  <2>1. /\ next \in Imports /\ next.pc = "swap" /\ next.left = import[i].left
        /\ next.installed = import[i].installed
        /\ next.moved = import[i].moved /\ next.backup = import[i].backup
        /\ next.before = import[i].before
    BY <1>1, <2>0, ImportIs DEF Imports
  <2> HIDE DEF next
  <2> QED
    BY <1>1, <1>3, <2>1, RestKeeps DEF next
<1> QED
  BY <1>2, <1>3 DEF VerifyStaged

LEMMA VerifyInstalledKeeps ==
  ASSUME ReceiverInv, NEW i \in Importers, VerifyInstalled(i)
  PROVE  ReceiverInv'
<1>1. /\ import[i].pc = "swap" /\ UNCHANGED <<bundle, inputs, lock, trees>>
  BY DEF VerifyInstalled, Keep, Kept
<1>2. CASE Rollback(i)
  BY <1>1, <1>2, RollbackKeeps
<1>3. CASE ImportStep(i, [import[i] EXCEPT !.pc = "cleanup",
                                           !.outcome = "imported"])
  <2> DEFINE next == [import[i] EXCEPT !.pc = "cleanup", !.outcome = "imported"]
  <2>1. /\ next \in Imports /\ next.pc = "cleanup" /\ next.left = import[i].left
        /\ next.installed = import[i].installed
        /\ next.moved = import[i].moved /\ next.backup = import[i].backup
        /\ next.before = import[i].before /\ next.outcome = "imported"
    BY <1>1, ImportIs DEF Imports, ImportLabels
  <2> HIDE DEF next
  <2> QED
    BY <1>1, <1>3, <2>1, RestKeeps DEF next
<1>4. CASE ImportStep(i, [import[i] EXCEPT
                            !.unverified = Tail(import[i].unverified)])
  <2> DEFINE next == [import[i] EXCEPT !.unverified = Tail(import[i].unverified)]
  <2>0. Tail(import[i].unverified) \in Seq(Catalogs)
    BY ImportIs DEF VerifyInstalled, Imports
  <2>1. /\ next \in Imports /\ next.pc = "swap" /\ next.left = import[i].left
        /\ next.installed = import[i].installed
        /\ next.moved = import[i].moved /\ next.backup = import[i].backup
        /\ next.before = import[i].before
    BY <1>1, <2>0, ImportIs DEF Imports
  <2> HIDE DEF next
  <2> QED
    BY <1>1, <1>4, <2>1, RestKeeps DEF next
<1> QED
  BY <1>2, <1>3, <1>4 DEF VerifyInstalled

\* The last tree installed is removed: its place is empty again.
LEMMA RemoveKeeps ==
  ASSUME ReceiverInv, NEW i \in Importers, RemoveInstalled(i)
  PROVE  ReceiverInv'
<1> DEFINE done == import[i].installed
           p == done[Len(done)]
           front == SubSeq(done, 1, Len(done) - 1)
           next == [import[i] EXCEPT !.installed = front]
<1>1. import[i].pc = "remove" /\ UNCHANGED <<bundle, inputs, lock>>
  BY DEF RemoveInstalled, Keep, Kept
<1>2. CASE Recovery(i) /\ UNCHANGED trees
  BY <1>1, <1>2, LabelKeeps DEF Recovery
<1>3. CASE /\ done = <<>> /\ UNCHANGED trees
           /\ ImportStep(i, [import[i] EXCEPT !.pc = "restore"])
  BY <1>1, <1>3, LabelKeeps
<1>4. CASE /\ done # <<>>
           /\ trees' = [trees EXCEPT ![p] = None]
           /\ ImportStep(i, next)
  <2>1. import[i] \in Imports /\ Swap(i) /\ bundle \in Bundles
    BY <1>1, ImportIs, UnderWay
  <2>2. done \in Seq(Places)
    BY <2>1 DEF Imports
  <2>3. /\ Len(done) <= Len(PlacesInOrder) /\ Len(PlacesInOrder) \in Nat
        /\ \A n \in 1..Len(done) : done[n] = PlacesInOrder[n]
    BY <2>1, PlacesDistinct DEF Swap, InOrder
  <2>4. \A m, n \in 1..Len(done) : done[m] = done[n] => m = n
    <3> SUFFICES ASSUME NEW m \in 1..Len(done), NEW n \in 1..Len(done),
                        done[m] = done[n]
                 PROVE  m = n
      OBVIOUS
    <3>1. m \in 1..Len(PlacesInOrder) /\ n \in 1..Len(PlacesInOrder)
      BY <2>2, <2>3
    <3> QED
      BY <2>1, <2>3, <3>1, PlacesDistinct
  <2>5. /\ front \in Seq(Places) /\ Len(front) = Len(done) - 1
        /\ Len(done) \in Nat \ {0}
        /\ \A n \in 1..Len(front) : front[n] = done[n]
        /\ p \in Places /\ Has(done, p)
        /\ \A x : Has(front, x) <=> Has(done, x) /\ x # p
    BY <1>4, <2>2, <2>4, HasFront
  <2> HIDE DEF front
  <2>6. /\ next \in Imports /\ next.pc = "remove" /\ next.installed = front
        /\ next.moved = import[i].moved
        /\ next.before = import[i].before /\ next.backup = import[i].backup
    BY <1>1, <2>1, <2>5 DEF Imports
  <2> HIDE DEF next
  <2>7. import'[i] = next
    BY <1>4, <2>6, StepOf
  <2>8. trees \in [Places -> Trees] /\ None \in Trees
    BY DEF ReceiverInv, ReceiverTypes, Trees, Roots
  <2>9. /\ trees' \in [Places -> Trees] /\ trees'[p] = None
        /\ \A q \in Places : q # p => trees'[q] = trees[q]
    BY <1>4, <2>5, <2>8
  <2>10. /\ PlacesInOrder' = PlacesInOrder
         /\ \A q : Bundled(q)' = Bundled(q)
    BY <1>1 DEF PlacesInOrder, Bundled
  <2>11. \A q : /\ Installed(i, q)' <=> Installed(i, q) /\ q # p
                /\ Moved(i, q)' <=> Moved(i, q)
    BY <2>5, <2>6, <2>7 DEF Installed, Moved
  <2>12. InOrder(i)'
    <3>1. Len(front) <= Len(PlacesInOrder)
      BY <2>3, <2>5
    <3>2. \A n \in 1..Len(front) : n \in 1..Len(done)
      BY <2>5
    <3>3. \A n \in 1..Len(front) : front[n] = PlacesInOrder[n]
      BY <2>3, <2>5, <3>2
    <3> QED
      BY <2>6, <2>7, <2>10, <3>1, <3>3 DEF InOrder
  <2>13. MovedOnce(i)' /\ Emptied(i)' /\ TakenBack(i)'
    BY <2>1, <2>6, <2>7 DEF Swap, MovedOnce, Emptied, TakenBack
  <2>14. Installed(i, p)
    BY <2>5 DEF Installed
  <2>15. ASSUME NEW q \in Places PROVE WhereIs(i, q)'
    <3>1. WhereIs(i, q)
      BY <2>1 DEF Swap
    <3>2. CASE q = p
      BY <2>6, <2>7, <2>9, <2>11, <2>14, <3>1, <3>2 DEF WhereIs
    <3>3. CASE q # p
      BY <2>6, <2>7, <2>9, <2>10, <2>11, <3>1, <3>3 DEF WhereIs
    <3> QED
      BY <3>2, <3>3
  <2>16. Swap(i)'
    BY <2>12, <2>13, <2>15 DEF Swap
  <2> QED
    BY <1>1, <1>4, <2>6, <2>9, <2>16, TurnKeeps
<1> QED
  BY <1>2, <1>3, <1>4 DEF RemoveInstalled

\* A tree of the backup is back in its place.
LEMMA RestoreKeeps ==
  ASSUME ReceiverInv, NEW i \in Importers, RestoreMoved(i)
  PROVE  ReceiverInv'
<1> DEFINE gone == import[i].moved
           p == gone[Len(gone)]
           front == SubSeq(gone, 1, Len(gone) - 1)
           next == [import[i] EXCEPT !.moved = front, !.backup[p] = None]
<1>1. import[i].pc = "restore" /\ UNCHANGED <<bundle, inputs, lock>>
  BY DEF RestoreMoved, Keep, Kept
<1>2. /\ import[i] \in Imports /\ Swap(i) /\ bundle \in Bundles
      /\ import[i].installed = <<>>
  BY <1>1, ImportIs, UnderWay DEF Swap, TakenBack
<1>3. CASE Recovery(i) /\ UNCHANGED trees
  BY <1>1, <1>3, LabelKeeps DEF Recovery
<1>4. CASE /\ gone = <<>> /\ UNCHANGED trees
           /\ ImportStep(i, [import[i] EXCEPT !.pc = "cleanup"])
  BY <1>1, <1>2, <1>4, LabelKeeps
<1>5. CASE /\ gone # <<>>
           /\ trees' = [trees EXCEPT ![p] = import[i].backup[p]]
           /\ ImportStep(i, next)
  <2>1. gone \in Seq(Places) /\ import[i].backup \in [Places -> Trees]
    BY <1>2 DEF Imports
  <2>2. \A m, n \in 1..Len(gone) : gone[m] = gone[n] => m = n
    BY <1>2 DEF Swap, MovedOnce
  <2>3. /\ front \in Seq(Places) /\ Len(front) = Len(gone) - 1
        /\ Len(gone) \in Nat \ {0}
        /\ \A n \in 1..Len(front) : front[n] = gone[n]
        /\ p \in Places /\ Has(gone, p)
        /\ \A x : Has(front, x) <=> Has(gone, x) /\ x # p
    BY <1>5, <2>1, <2>2, HasFront
  <2>4. \A m, n \in 1..Len(front) : front[m] = front[n] => m = n
    <3>1. \A n \in 1..Len(front) : n \in 1..Len(gone)
      BY <2>3
    <3> QED
      BY <2>2, <2>3, <3>1
  <2> HIDE DEF front
  <2>5. trees \in [Places -> Trees] /\ None \in Trees
    BY DEF ReceiverInv, ReceiverTypes, Trees, Roots
  <2>6. [import[i].backup EXCEPT ![p] = None] \in [Places -> Trees]
    BY <2>1, <2>3, <2>5
  <2>7. /\ next \in Imports /\ next.pc = "restore" /\ next.moved = front
        /\ next.installed = import[i].installed
        /\ next.before = import[i].before
        /\ next.backup = [import[i].backup EXCEPT ![p] = None]
    BY <1>1, <1>2, <2>3, <2>6 DEF Imports
  <2>8. /\ \A q \in Places : q # p => next.backup[q] = import[i].backup[q]
    BY <2>1, <2>3, <2>7
  <2> HIDE DEF next
  <2>9. import'[i] = next
    BY <1>5, <2>7, StepOf
  <2>10. /\ trees' \in [Places -> Trees] /\ trees'[p] = import[i].backup[p]
         /\ \A q \in Places : q # p => trees'[q] = trees[q]
    BY <1>5, <2>1, <2>3, <2>5
  <2>11. \A q : /\ ~Installed(i, q)' /\ ~Installed(i, q)
                /\ Moved(i, q)' <=> Moved(i, q) /\ q # p
    <3>1. \A q : ~Has(<<>>, q)
      BY DEF Has
    <3> QED
      BY <1>2, <2>3, <2>7, <2>9, <3>1 DEF Installed, Moved
  <2>12. InOrder(i)'
    <3>1. PlacesInOrder' = PlacesInOrder
      BY <1>1 DEF PlacesInOrder
    <3> QED
      BY <1>2, <2>7, <2>9, <3>1 DEF Swap, InOrder
  <2>13. MovedOnce(i)' /\ Emptied(i)' /\ TakenBack(i)'
    BY <1>2, <2>4, <2>7, <2>9 DEF MovedOnce, Emptied, TakenBack
  <2>14. Moved(i, p)
    BY <2>3 DEF Moved
  <2>15. ASSUME NEW q \in Places PROVE WhereIs(i, q)'
    <3>1. WhereIs(i, q)
      BY <1>2 DEF Swap
    <3>2. CASE q = p
      BY <2>7, <2>9, <2>10, <2>11, <2>14, <3>1, <3>2 DEF WhereIs
    <3>3. CASE q # p
      BY <2>7, <2>8, <2>9, <2>10, <2>11, <3>1, <3>3 DEF WhereIs
    <3> QED
      BY <3>2, <3>3
  <2>16. Swap(i)'
    BY <2>12, <2>13, <2>15 DEF Swap
  <2> QED
    BY <1>1, <1>5, <2>7, <2>10, <2>16, TurnKeeps
<1> QED
  BY <1>3, <1>4, <1>5 DEF RestoreMoved

LEMMA CleanupKeeps ==
  ASSUME ReceiverInv, NEW i \in Importers, Cleanup(i)
  PROVE  ReceiverInv'
<1> DEFINE next == [import[i] EXCEPT !.pc = "idle", !.backup = NoTrees,
                      !.left = <<>>, !.installed = <<>>, !.moved = <<>>,
                      !.unverified = CatalogOrder]
<1>1. /\ import[i].pc = "cleanup" /\ lock' = None /\ ImportStep(i, next)
      /\ UNCHANGED <<bundle, inputs, trees>>
  BY DEF Cleanup, Keep, Kept
<1>2. import[i] \in Imports /\ lock = i
  BY <1>1, ImportIs, UnderWay
<1>3. NoTrees \in [Places -> Trees]
  BY DEF NoTrees, Trees, Roots
<1>4. /\ next \in Imports /\ next.pc = "idle" /\ next.installed = <<>>
      /\ next.moved = <<>> /\ next.backup = NoTrees
  <2>1. \A e : e = <<>> => e \in Seq(Places)
    OBVIOUS
  <2> QED
    BY <1>2, <1>3, <2>1, TransferConstants DEF Imports, ImportLabels
<1> HIDE DEF next
<1>5. /\ import' \in [Importers -> Imports] /\ import'[i] = next
      /\ \A j \in Importers : j # i => import'[j] = import[j]
  BY <1>1, <1>4, StepOf
<1>6. ReceiverTypes'
  BY <1>1, <1>5 DEF ReceiverInv, ReceiverTypes
<1>7. OneImport'
  BY <1>1, <1>2, <1>4, <1>5, TransferConstants DEF ReceiverInv, OneImport
<1> QED
  BY <1>1, <1>6, <1>7, TransferConstants DEF ReceiverInv

LEMMA KillKeeps ==
  ASSUME ReceiverInv, NEW i \in Importers, KillImport(i)
  PROVE  ReceiverInv'
BY LabelKeeps DEF KillImport, Keep, Kept

LEMMA ImportKeeps ==
  ASSUME ReceiverInv, NEW i \in Importers, Import(i)
  PROVE  ReceiverInv'
BY LockKeeps, InspectKeeps, VerifyStagedKeeps, MoveKeeps, InstallKeeps,
   VerifyInstalledKeeps, RemoveKeeps, RestoreKeeps, CleanupKeeps, KillKeeps
   DEF Import

----------------------------------------------------------------------------
(* What has verified since the last tree was installed.                     *)

LEMMA HasTail ==
  ASSUME NEW s \in Seq(Catalogs), s # <<>>
  PROVE  /\ Tail(s) \in Seq(Catalogs)
         /\ Head(s) \in Catalogs
         /\ \A x : Has(s, x) => x = Head(s) \/ Has(Tail(s), x)
<1>1. /\ Tail(s) \in Seq(Catalogs) /\ Head(s) \in Catalogs /\ Head(s) = s[1]
      /\ DOMAIN s = 1..Len(s) /\ Len(s) \in Nat \ {0}
      /\ DOMAIN Tail(s) = 1..(Len(s) - 1)
      /\ \A n \in 1..(Len(s) - 1) : Tail(s)[n] = s[n + 1]
  OBVIOUS
<1>2. ASSUME NEW x, NEW n \in 1..Len(s), s[n] = x
      PROVE  x = Head(s) \/ Has(Tail(s), x)
  <2>1. CASE n = 1
    BY <1>1, <1>2, <2>1
  <2>2. CASE n # 1
    <3>1. n - 1 \in 1..(Len(s) - 1) /\ (n - 1) + 1 = n
      BY <1>1, <2>2
    <3>2. Tail(s)[n - 1] = x
      BY <1>1, <1>2, <3>1
    <3> QED
      BY <1>1, <3>1, <3>2 DEF Has
  <2> QED
    BY <2>1, <2>2
<1>3. \A x : Has(s, x) => x = Head(s) \/ Has(Tail(s), x)
  BY <1>1, <1>2 DEF Has
<1> QED
  BY <1>1, <1>3

\* With nothing left to install everything of the bundle is in place.
LEMMA AllInstalled ==
  ASSUME ReceiverInv, NEW i \in Importers, import[i].pc = "swap",
         import[i].left = <<>>
  PROVE  /\ \A n \in 1..Len(PlacesInOrder) :
              trees[PlacesInOrder[n]] = Bundled(PlacesInOrder[n])
         /\ DOMAIN PlacesInOrder = 1..Len(PlacesInOrder)
         /\ \A c \in Catalogs : trees[<<"authority", c>>] = bundle.sets[c]
<1>1. lock = i /\ Swap(i) /\ bundle \in Bundles /\ import[i] \in Imports
  BY UnderWay, ImportIs
<1> DEFINE order == PlacesInOrder
           done == import[i].installed
<1>2. /\ order \in Seq(Places) /\ Len(order) \in Nat /\ done \in Seq(Places)
      /\ Len(done) \in Nat /\ DOMAIN done = 1..Len(done)
      /\ DOMAIN order = 1..Len(order)
      /\ \A n \in 1..Len(order) : order[n] \in Places
  BY <1>1, PlacesDistinct DEF Imports
<1>3. /\ Len(import[i].left) = Len(order) - Len(done)
      /\ \A n \in 1..Len(done) : done[n] = order[n]
  BY <1>1 DEF Swap, InOrder
<1> HIDE DEF order, done
<1>4. Len(done) = Len(order)
  <2>1. Len(import[i].left) = 0
    OBVIOUS
  <2>2. \A a, b \in Nat : 0 = a - b => b = a
    OBVIOUS
  <2> QED
    BY <1>2, <1>3, <2>1, <2>2
<1>5. ASSUME NEW n \in 1..Len(order) PROVE trees[order[n]] = Bundled(order[n])
  <2>1. Has(done, order[n])
    BY <1>2, <1>3, <1>4 DEF Has
  <2> QED
    BY <1>1, <1>2, <2>1 DEF Swap, WhereIs, Installed, done
<1>6. ASSUME NEW c \in Catalogs PROVE trees[<<"authority", c>>] = bundle.sets[c]
  <2>1. PICK m \in 1..Len(order) : order[m] = <<"authority", c>>
    BY <1>1, AuthorityHasPlace DEF order
  <2>2. Bundled(<<"authority", c>>) = bundle.sets[c]
    BY DEF Bundled, Workspace
  <2> QED
    BY <1>5, <2>1, <2>2
<1> QED
  BY <1>2, <1>5, <1>6 DEF order

\* A step that looks at no package, or lets all of them verify again.
LEMMA NoticeKeeps ==
  ASSUME ReceiverInv, VerifyInv, NEW i \in Importers, NEW next,
         ImportStep(i, next),
         next.unverified \in {import[i].unverified, CatalogOrder},
         next.pc = "idle" => \/ next.unverified = CatalogOrder
                             \/ import[i].pc = "idle",
         lock' \in {lock, i, None}, UNCHANGED <<bundle, inputs, recent>>,
         lock' = i => lock = i \/ import[i].pc = "idle"
  PROVE  VerifyInv'
<1>1. /\ import'[i] = next
      /\ \A j \in Importers : j # i => import'[j] = import[j]
  BY DEF ImportStep, ReceiverInv, ReceiverTypes
<1>2. \A c \in Catalogs : Has(CatalogOrder, c)
  BY TransferConstants DEF Has
<1>3. import[i].pc = "idle" => import[i].unverified = CatalogOrder
  BY DEF VerifyInv
<1>4. ASSUME NEW j \in Importers, lock' = j PROVE Noticed(j)'
  <2>1. CASE j # i
    <3>1. lock = j /\ import'[j] = import[j]
      BY <1>1, <1>4, <2>1, TransferConstants
    <3>2. Noticed(j)
      BY <3>1 DEF VerifyInv
    <3> QED
      BY <3>1, <3>2 DEF Noticed
  <2>2. CASE j = i /\ next.unverified = CatalogOrder
    BY <1>1, <1>2, <2>2 DEF Noticed
  <2>3. CASE j = i /\ next.unverified = import[i].unverified /\ lock = i
    <3>1. Noticed(i)
      BY <2>3 DEF VerifyInv
    <3> QED
      BY <1>1, <2>3, <3>1 DEF Noticed
  <2> QED
    BY <1>3, <1>4, <2>1, <2>2, <2>3
<1>5. \A j \in Importers :
        import'[j].pc = "idle" => import'[j].unverified = CatalogOrder
  BY <1>1, <1>3 DEF VerifyInv
<1> QED
  BY <1>4, <1>5 DEF VerifyInv

\* A package has verified.
LEMMA SeenKeeps ==
  ASSUME ReceiverInv, VerifyInv, NEW i \in Importers, import[i].pc = "swap",
         import[i].unverified # <<>>,
         bundle.sets[Head(import[i].unverified)]
           \in recent[Head(import[i].unverified)],
         ImportStep(i, [import[i] EXCEPT !.unverified = Tail(import[i].unverified)]),
         UNCHANGED <<bundle, inputs, recent, lock>>
  PROVE  VerifyInv'
<1> DEFINE u == import[i].unverified
<1>1. import[i] \in Imports /\ u \in Seq(Catalogs)
  BY ImportIs DEF Imports
<1>2. /\ import'[i].unverified = Tail(u) /\ import'[i].pc = "swap"
      /\ \A j \in Importers : j # i => import'[j] = import[j]
  BY <1>1 DEF ImportStep, ReceiverInv, ReceiverTypes, Imports
<1>3. \A x : Has(u, x) => x = Head(u) \/ Has(Tail(u), x)
  BY <1>1, HasTail
<1> HIDE DEF u
<1>4. ASSUME NEW j \in Importers, lock' = j PROVE Noticed(j)'
  <2>1. Noticed(j)
    BY <1>4 DEF VerifyInv
  <2>2. CASE j # i
    BY <1>2, <2>1, <2>2 DEF Noticed
  <2>3. CASE j = i
    BY <1>2, <1>3, <2>1, <2>3 DEF Noticed, u
  <2> QED
    BY <2>2, <2>3
<1>5. \A j \in Importers :
        import'[j].pc = "idle" => import'[j].unverified = CatalogOrder
  BY <1>2 DEF VerifyInv
<1> QED
  BY <1>4, <1>5 DEF VerifyInv

LEMMA StagedIsSeen ==
  ASSUME ReceiverInv, VerifyInv, NEW i \in Importers, VerifyStaged(i)
  PROVE  VerifyInv'
<1>1. /\ import[i].pc = "swap" /\ import[i].unverified # <<>>
      /\ UNCHANGED <<bundle, inputs, recent, lock>>
  BY DEF VerifyStaged, Keep, Kept
<1>2. CASE Rollback(i)
  BY <1>1, <1>2, NoticeKeeps, ImportIs DEF Rollback, Imports
<1>3. CASE ~Rollback(i)
  <2> DEFINE c == Head(import[i].unverified)
  <2>1. /\ Verified(c, Bundled(<<"authority", c>>))
        /\ ImportStep(i, [import[i] EXCEPT !.unverified = Tail(@)])
    BY <1>3 DEF VerifyStaged
  <2>2. c \in Catalogs
    BY <1>1, ImportIs, HasTail DEF Imports
  <2>3. Bundled(<<"authority", c>>) = bundle.sets[c]
    BY DEF Bundled, Workspace
  <2>4. bundle.sets[c] \in recent[c]
    BY <2>1, <2>2, <2>3 DEF Verified, VerifyInv
  <2> QED
    BY <1>1, <2>1, <2>4, SeenKeeps
<1> QED
  BY <1>2, <1>3

\* The package that verifies in place has the inputs of its set.
LEMMA PlacedIsSeen ==
  ASSUME ReceiverInv, VerifyInv, NEW i \in Importers, import[i].pc = "swap",
         import[i].left = <<>>, NEW c \in Catalogs,
         Verified(c, trees[<<"authority", c>>])
  PROVE  bundle.sets[c] \in recent[c]
<1>1. trees[<<"authority", c>>] = bundle.sets[c]
  BY AllInstalled
<1> QED
  BY <1>1 DEF Verified, VerifyInv

LEMMA InstalledIsSeen ==
  ASSUME ReceiverInv, VerifyInv, NEW i \in Importers, VerifyInstalled(i)
  PROVE  VerifyInv'
<1> DEFINE c == Head(import[i].unverified)  rest == Tail(import[i].unverified)
<1>1. /\ import[i].pc = "swap" /\ import[i].unverified # <<>>
      /\ import[i].left = <<>>
      /\ UNCHANGED <<bundle, inputs, recent, lock>>
  BY DEF VerifyInstalled, Keep, Kept
<1>2. CASE Rollback(i)
  BY <1>1, <1>2, NoticeKeeps, ImportIs DEF Rollback, Imports
<1>3. CASE ImportStep(i, [import[i] EXCEPT !.pc = "cleanup",
                                           !.outcome = "imported"])
  BY <1>1, <1>3, NoticeKeeps, ImportIs DEF Imports
<1>4. CASE /\ Verified(c, trees[<<"authority", c>>])
           /\ ImportStep(i, [import[i] EXCEPT !.unverified = rest])
  <2>1. c \in Catalogs
    BY <1>1, ImportIs, HasTail DEF Imports
  <2>2. bundle.sets[c] \in recent[c]
    BY <1>1, <1>4, <2>1, PlacedIsSeen
  <2> QED
    BY <1>1, <1>4, <2>2, SeenKeeps
<1> QED
  BY <1>2, <1>3, <1>4 DEF VerifyInstalled

LEMMA InstallIsSeen ==
  ASSUME ReceiverInv, VerifyInv, NEW i \in Importers, InstallTree(i)
  PROVE  VerifyInv'
<1>1. import[i].pc = "install" /\ UNCHANGED <<bundle, inputs, lock>> /\ lock = i
  BY UnderWay DEF InstallTree, Kept
<1>2. CASE Rollback(i) /\ UNCHANGED recent
  BY <1>1, <1>2, NoticeKeeps, ImportIs DEF Rollback, Imports
<1>3. CASE ~(Rollback(i) /\ UNCHANGED recent)
  <2>1. PICK l, d :
          ImportStep(i, [import[i] EXCEPT !.pc = "swap", !.left = l,
                           !.installed = d, !.unverified = CatalogOrder])
    BY <1>3 DEF InstallTree
  <2>2. recent' = [c \in Catalogs |-> {inputs[c]}]
    BY <1>3 DEF InstallTree
  <2>3. /\ import'[i].unverified = CatalogOrder /\ import'[i].pc = "swap"
        /\ \A j \in Importers : j # i => import'[j] = import[j]
    BY <2>1, ImportIs DEF ImportStep, ReceiverInv, ReceiverTypes, Imports
  <2>4. \A c \in Catalogs : Has(CatalogOrder, c)
    BY TransferConstants DEF Has
  <2>5. \A c \in Catalogs : inputs[c] \in Versions
    BY DEF ReceiverInv, ReceiverTypes, Manifests, Versions
  <2>6. recent' \in [Catalogs -> SUBSET Versions]
    BY <2>2, <2>5
  <2>7. \A c \in Catalogs : inputs'[c] \in recent'[c]
    BY <1>1, <2>2
  <2>8. Noticed(i)'
    BY <2>3, <2>4 DEF Noticed
  <2>9. \A j \in Importers :
          /\ import'[j].pc = "idle" => import'[j].unverified = CatalogOrder
          /\ lock' = j => j = i
    BY <1>1, <2>3 DEF VerifyInv
  <2> QED
    BY <2>6, <2>7, <2>8, <2>9 DEF VerifyInv
<1> QED
  BY <1>2, <1>3

\* The other steps look at no package.
LEMMA ImportIsSeen ==
  ASSUME ReceiverInv, VerifyInv, NEW i \in Importers, Import(i)
  PROVE  VerifyInv'
<1>1. import[i] \in Imports
  BY ImportIs
<1>2. ASSUME NEW next, ImportStep(i, next), import[i].pc # "idle",
             next.pc # "idle", next.unverified = import[i].unverified,
             UNCHANGED <<bundle, inputs, recent, lock>>
      PROVE  VerifyInv'
  <2>1. lock = i
    BY <1>2, UnderWay
  <2> QED
    BY <1>2, <2>1, NoticeKeeps
<1>3. ASSUME NEW label, ImportStep(i, [import[i] EXCEPT !.pc = label]),
             label # "idle", import[i].pc # "idle",
             UNCHANGED <<bundle, inputs, recent, lock>>
      PROVE  VerifyInv'
  BY <1>1, <1>2, <1>3 DEF Imports
<1>4. CASE LockTransfer(i)
  <2>1. UNCHANGED <<bundle, inputs, recent>> /\ import[i].pc = "idle"
    BY <1>4 DEF LockTransfer, Keep, Kept
  <2>2. PICK next :
          /\ ImportStep(i, next) /\ next.unverified = import[i].unverified
          /\ lock' \in {lock, i}
    BY <1>1, <1>4 DEF LockTransfer, Imports
  <2> QED
    BY <2>1, <2>2, NoticeKeeps
<1>5. CASE Inspect(i)
  <2>1. UNCHANGED <<bundle, inputs, recent, lock>> /\ import[i].pc = "inspect"
    BY <1>5 DEF Inspect, Keep, Kept
  <2>2. CASE ImportStep(i, [import[i] EXCEPT !.pc = "cleanup",
                                            !.outcome = "failed"])
    BY <1>1, <1>2, <2>1, <2>2 DEF Imports
  <2>3. CASE ImportStep(i, [import[i] EXCEPT !.pc = "swap",
                                            !.left = PlacesInOrder])
    BY <1>1, <1>2, <2>1, <2>3 DEF Imports
  <2> QED
    BY <1>5, <2>2, <2>3 DEF Inspect
<1>6. CASE MoveAway(i)
  <2>1. UNCHANGED <<bundle, inputs, recent, lock>> /\ import[i].pc = "swap"
    BY <1>6 DEF MoveAway, Keep, Kept
  <2>2. CASE Rollback(i)
    BY <1>1, <1>2, <2>1, <2>2 DEF Rollback, Imports
  <2>3. CASE ~Rollback(i)
    <3>1. PICK p, t, m :
            ImportStep(i, [import[i] EXCEPT !.pc = "install", !.backup[p] = t,
                             !.moved = m])
      BY <1>6, <2>3 DEF MoveAway
    <3> QED
      BY <1>1, <1>2, <2>1, <3>1 DEF Imports
  <2> QED
    BY <2>2, <2>3
<1>7. CASE RemoveInstalled(i)
  <2>1. UNCHANGED <<bundle, inputs, recent, lock>> /\ import[i].pc = "remove"
    BY <1>7 DEF RemoveInstalled, Keep, Kept
  <2>2. CASE \E d : ImportStep(i, [import[i] EXCEPT !.installed = d])
    BY <1>1, <1>2, <2>1, <2>2 DEF Imports
  <2>3. CASE ~\E d : ImportStep(i, [import[i] EXCEPT !.installed = d])
    BY <1>3, <1>7, <2>1, <2>3 DEF RemoveInstalled, Recovery
  <2> QED
    BY <2>2, <2>3
<1>8. CASE RestoreMoved(i)
  <2>1. UNCHANGED <<bundle, inputs, recent, lock>> /\ import[i].pc = "restore"
    BY <1>8 DEF RestoreMoved, Keep, Kept
  <2>2. CASE \E m, p : ImportStep(i, [import[i] EXCEPT !.moved = m,
                                        !.backup[p] = None])
    BY <1>1, <1>2, <2>1, <2>2 DEF Imports
  <2>3. CASE ~\E m, p : ImportStep(i, [import[i] EXCEPT !.moved = m,
                                         !.backup[p] = None])
    BY <1>3, <1>8, <2>1, <2>3 DEF RestoreMoved, Recovery
  <2> QED
    BY <2>2, <2>3
<1>9. CASE Cleanup(i)
  <2>1. /\ UNCHANGED <<bundle, inputs, recent>> /\ lock' = None
        /\ import[i].pc = "cleanup"
    BY <1>9 DEF Cleanup, Keep, Kept
  <2> DEFINE next == [import[i] EXCEPT !.pc = "idle", !.backup = NoTrees,
                        !.left = <<>>, !.installed = <<>>, !.moved = <<>>,
                        !.unverified = CatalogOrder]
  <2>2. ImportStep(i, next)
    BY <1>9 DEF Cleanup
  <2>3. next.unverified = CatalogOrder
    BY <1>1 DEF Imports
  <2> HIDE DEF next
  <2> QED
    BY <2>1, <2>2, <2>3, NoticeKeeps, TransferConstants
<1>10. CASE KillImport(i)
  BY <1>3, <1>10 DEF KillImport, Keep, Kept
<1> QED
  BY <1>4, <1>5, <1>6, <1>7, <1>8, <1>9, <1>10, StagedIsSeen, InstallIsSeen,
     InstalledIsSeen DEF Import

\* An edit only adds to what was there.
LEMMA EditIsSeen ==
  ASSUME VerifyInv, inputs \in Manifests, EditReceiver
  PROVE  VerifyInv'
<1>1. PICK c \in Catalogs, v \in Versions :
        /\ inputs' = [inputs EXCEPT ![c] = v]
        /\ recent' = [recent EXCEPT ![c] = @ \cup {v}]
  BY DEF EditReceiver
<1>2. UNCHANGED <<bundle, lock, import>>
  BY DEF EditReceiver
<1>3. /\ recent' \in [Catalogs -> SUBSET Versions]
      /\ \A d \in Catalogs : recent[d] \subseteq recent'[d]
      /\ \A d \in Catalogs : inputs'[d] \in recent'[d]
  BY <1>1 DEF VerifyInv, Manifests
<1> QED
  BY <1>2, <1>3 DEF VerifyInv, Noticed

LEMMA SeenWaits ==
  ASSUME VerifyInv, UNCHANGED <<bundle, inputs, recent, lock, import>>
  PROVE  VerifyInv'
BY DEF VerifyInv, Noticed

----------------------------------------------------------------------------
(* The two checkouts together.                                              *)

TransferInv == SupervisionInv /\ ExportInv /\ ReceiverInv /\ VerifyInv

LEMMA ExportBegins == TransferInit => ExportInv
<1> SUFFICES ASSUME TransferInit PROVE ExportInv
  OBVIOUS
<1>1. SupervisionInv
  BY InitInv DEF TransferInit
<1>2. selected \in Manifests /\ seenSets = {selected}
  BY <1>1 DEF SupervisionInv, SupervisionTypes, TransferInit, WorkspaceInit
<1>3. Unread \in Reads /\ None \in Roots
  BY DEF Unread, Reads, Roots
<1>4. export \in Exports
  BY <1>3, TransferConstants DEF TransferInit, Exports, Passes
<1>5. /\ export.pc = "select" /\ export.left = CatalogOrder /\ archive = None
  BY DEF TransferInit
<1>6. \A c \in Catalogs : Left(c)
  BY <1>5, TransferConstants DEF Left
<1> QED
  BY <1>2, <1>4, <1>5, <1>6, TransferConstants DEF ExportInv, ExportTypes,
       ChoosesSelected, OneMoment, Validated, ArchiveOneMoment

LEMMA ReceiverBegins == TransferInit => ReceiverInv
<1> SUFFICES ASSUME TransferInit PROVE ReceiverInv
  OBVIOUS
<1>1. NoTrees \in [Places -> Trees]
  BY DEF NoTrees, Trees, Roots
<1>2. 0 \in Trees /\ 0 \in Versions
  BY WorkspaceConstants DEF Trees, Versions
<1>3. /\ bundle \in Bundles \cup {None} /\ inputs \in Manifests
      /\ trees \in [Places -> Trees]
  <2>1. CASE /\ bundle = None /\ inputs = [c \in Catalogs |-> 0]
             /\ trees = NoTrees
    BY <1>1, <1>2, <2>1 DEF Manifests, Versions
  <2>2. CASE /\ \E sets \in Manifests :
                  bundle \in [sets : {sets}, root : {None, sets}]
             /\ inputs \in Manifests
             /\ \E root \in Manifests \cup {None} : trees \in
                  {NoTrees, [p \in Places |-> IF p = Workspace THEN root ELSE 0]}
    <3>1. bundle \in Bundles
      BY <2>2 DEF Bundles, Roots
    <3>2. trees \in [Places -> Trees]
      <4>1. PICK root \in Roots : trees \in
              {NoTrees, [p \in Places |-> IF p = Workspace THEN root ELSE 0]}
        BY <2>2 DEF Roots
      <4>2. root \in Trees
        BY DEF Trees
      <4>3. [p \in Places |-> IF p = Workspace THEN root ELSE 0]
              \in [Places -> Trees]
        BY <1>2, <4>2
      <4> QED
        BY <1>1, <4>1, <4>3
    <3> QED
      BY <2>2, <3>1, <3>2
  <2> QED
    BY <2>1, <2>2 DEF TransferInit
<1>4. \A e : e = <<>> => e \in Seq(Places)
  OBVIOUS
<1>5. NoImport \in Imports
  BY <1>1, <1>4, TransferConstants DEF NoImport, Imports, ImportLabels
<1>6. lock = None /\ import = [i \in Importers |-> NoImport]
  BY DEF TransferInit
<1>7. \A i \in Importers : /\ import[i].pc = "idle"
                           /\ import[i].installed = <<>>
                           /\ import[i].moved = <<>>
                           /\ import[i].backup = NoTrees
  BY <1>6 DEF NoImport
<1>8. ReceiverTypes
  BY <1>3, <1>5, <1>6 DEF ReceiverTypes
<1> QED
  BY <1>6, <1>7, <1>8, TransferConstants DEF ReceiverInv, OneImport

LEMMA VerifyBegins == TransferInit => VerifyInv
<1> SUFFICES ASSUME TransferInit PROVE VerifyInv
  OBVIOUS
<1>1. ReceiverInv
  BY ReceiverBegins
<1>2. inputs \in Manifests
  BY <1>1 DEF ReceiverInv, ReceiverTypes
<1>3. /\ recent = [c \in Catalogs |-> {inputs[c]}]
      /\ lock = None /\ import = [i \in Importers |-> NoImport]
  BY DEF TransferInit
<1>4. \A c \in Catalogs : inputs[c] \in Versions
  BY <1>2 DEF Manifests, Versions
<1>5. /\ recent \in [Catalogs -> SUBSET Versions]
      /\ \A c \in Catalogs : inputs[c] \in recent[c]
  BY <1>3, <1>4
<1>6. \A i \in Importers :
        import[i].unverified = CatalogOrder /\ lock # i
  BY <1>3, TransferConstants DEF NoImport
<1> QED
  BY <1>5, <1>6 DEF VerifyInv

LEMMA ReceiverWaits ==
  ASSUME ReceiverInv, inputs' \in Manifests,
         UNCHANGED <<bundle, trees, lock, import>>
  PROVE  ReceiverInv'
<1>1. ReceiverTypes' /\ OneImport'
  BY DEF ReceiverInv, ReceiverTypes, OneImport
<1>2. ASSUME NEW i \in Importers, lock = i PROVE Swap(i)'
  <2>1. Swap(i)
    BY <1>2 DEF ReceiverInv
  <2>2. /\ PlacesInOrder' = PlacesInOrder
        /\ \A p : Bundled(p)' = Bundled(p)
    BY DEF PlacesInOrder, Bundled
  <2>3. \A p : /\ Installed(i, p)' <=> Installed(i, p)
               /\ Moved(i, p)' <=> Moved(i, p)
    BY DEF Installed, Moved
  <2>4. InOrder(i)'
    BY <2>1, <2>2 DEF Swap, InOrder
  <2>5. MovedOnce(i)' /\ Emptied(i)' /\ TakenBack(i)'
    BY <2>1, <2>3 DEF Swap, MovedOnce, Emptied, TakenBack
  <2>6. \A p \in Places : WhereIs(i, p)'
    BY <2>1, <2>2, <2>3 DEF Swap, WhereIs
  <2> QED
    BY <2>4, <2>5, <2>6 DEF Swap
<1> QED
  BY <1>1, <1>2 DEF ReceiverInv

transferring == <<sender, receiver>>

\* A step of the transfer is one of the workspace, or leaves it as it is.
LEMMA WorkspaceSteps ==
  [TransferNext]_transferring => [WorkspaceNext]_vars
<1> SUFFICES ASSUME [TransferNext]_transferring PROVE [WorkspaceNext]_vars
  OBVIOUS
<1>1. CASE UNCHANGED transferring
  BY <1>1 DEF transferring, sender, vars
<1>2. CASE Export
  BY <1>2 DEF Export, SelectFiles, SelectRoot, HashFiles, CopyFiles,
       ValidateBundle, VerifyExport, Visit, ExportStep, ExportFails, vars
<1>3. ASSUME NEW i \in Importers, Import(i) PROVE UNCHANGED vars
  BY <1>3 DEF Import, LockTransfer, Inspect, VerifyStaged, MoveAway,
       InstallTree, VerifyInstalled, RemoveInstalled, RestoreMoved, Cleanup,
       KillImport, Keep, Kept, sender, vars
<1>4. CASE EditReceiver
  BY <1>4 DEF EditReceiver, sender, vars
<1> QED
  BY <1>1, <1>2, <1>3, <1>4 DEF TransferNext

LEMMA TransferKeeps ==
  TransferInv /\ [TransferNext]_transferring => TransferInv'
<1> SUFFICES ASSUME TransferInv, [TransferNext]_transferring
             PROVE  TransferInv'
  OBVIOUS
<1>1. SupervisionInv /\ ExportInv /\ ReceiverInv /\ VerifyInv
  BY DEF TransferInv
<1>2. SupervisionInv' /\ [WorkspaceNext]_vars
  BY <1>1, WorkspaceSteps, NextInv
<1>3. inputs \in Manifests
  BY <1>1 DEF ReceiverInv, ReceiverTypes
<1>4. CASE UNCHANGED transferring
  <2>1. UNCHANGED <<export, archive>> /\ UNCHANGED receiver
    BY <1>4 DEF transferring, sender
  <2>2. ReceiverInv' /\ VerifyInv'
    BY <1>1, <1>3, <2>1, ReceiverWaits, SeenWaits DEF receiver
  <2> QED
    BY <1>1, <1>2, <2>1, <2>2, ExportWaits DEF TransferInv
<1>5. CASE /\ WorkspaceNext \/ Export
           /\ Export \/ UNCHANGED <<export, archive>>
           /\ UNCHANGED receiver
  <2>1. ReceiverInv' /\ VerifyInv'
    BY <1>1, <1>3, <1>5, ReceiverWaits, SeenWaits DEF receiver
  <2> QED
    BY <1>1, <1>2, <1>5, <2>1, ExportWaits, ExportKeeps DEF TransferInv
<1>6. ASSUME NEW i \in Importers, Import(i) PROVE TransferInv'
  <2>1. UNCHANGED <<export, archive>>
    BY <1>6 DEF Import, LockTransfer, Inspect, VerifyStaged, MoveAway,
         InstallTree, VerifyInstalled, RemoveInstalled, RestoreMoved, Cleanup,
         KillImport, Keep, Kept, sender
  <2> QED
    BY <1>1, <1>2, <1>6, <2>1, ExportWaits, ImportKeeps, ImportIsSeen
       DEF TransferInv
<1>7. CASE EditReceiver
  <2>1. UNCHANGED <<export, archive, bundle, trees, lock, import>>
    BY <1>7 DEF EditReceiver, sender
  <2>2. inputs' \in Manifests
    BY <1>3, <1>7 DEF EditReceiver, Manifests, Versions
  <2> QED
    BY <1>1, <1>2, <1>3, <1>7, <2>1, <2>2, ExportWaits, ReceiverWaits,
       EditIsSeen DEF TransferInv
<1> QED
  BY <1>4, <1>5, <1>6, <1>7 DEF TransferNext

LEMMA TransferHolds == TransferSpec => []TransferInv
<1>1. TransferInit => TransferInv
  BY ExportBegins, ReceiverBegins, VerifyBegins, InitInv DEF TransferInv,
     TransferInit
<1> QED
  BY <1>1, TransferKeeps, PTL DEF TransferSpec, transferring

----------------------------------------------------------------------------
(* What the runs check of a transfer.                                      *)

\* An export or an import beside the supervisors is, to them, nothing but a
\* pause: whatever holds of the workspace authority holds next to a transfer.
THEOREM TransferKeepsWorkspace == TransferSpec => WorkspaceSpec
<1>1. TransferInit => WorkspaceInit
  BY DEF TransferInit
<1> QED
  BY <1>1, WorkspaceSteps, PTL DEF TransferSpec, WorkspaceSpec, transferring,
       vars

\* The sets of a bundle were all selected at one moment, although three passes
\* read them one after the other while packages are authorized again
\* (authority-bundle.ts:361-420, selectedFiles, validateBundle).
THEOREM ArchiveIsOneMoment == TransferSpec => []ArchiveOneMoment
<1>1. TransferInv => ArchiveOneMoment
  BY DEF TransferInv, ExportInv
<1> QED
  BY <1>1, TransferHolds, PTL

LEMMA OrderByTheInvariant == ReceiverInv => ImportKeepsOrder
<1> SUFFICES ASSUME ReceiverInv, NEW i \in Importers, lock = i
             PROVE  /\ \A p \in Authority :
                         (\E n \in DOMAIN import[i].installed :
                            import[i].installed[n] = p)
                         => \A q \in Generated : trees[q] = Bundled(q)
                    /\ \A p \in Places :
                         import[i].before[p] # None =>
                           import[i].before[p] \in {trees[p], import[i].backup[p]}
  BY DEF ImportKeepsOrder, AuthorityOverNewOutput, NothingLost
<1>1. Swap(i) /\ import[i] \in Imports
  BY ImportIs DEF ReceiverInv
<1>2. import[i].pc # "idle" /\ bundle \in Bundles
  BY DEF ReceiverInv, OneImport
<1> DEFINE done == import[i].installed
<1>3. done \in Seq(Places) /\ DOMAIN done = 1..Len(done) /\ Len(done) \in Nat
  BY <1>1 DEF Imports
<1>4. /\ Len(done) <= Len(PlacesInOrder) /\ Len(PlacesInOrder) \in Nat
      /\ \A n \in 1..Len(done) : done[n] = PlacesInOrder[n]
  BY <1>1, <1>2, PlacesDistinct DEF Swap, InOrder
<1>5. ASSUME NEW n \in DOMAIN done, done[n] \in Authority, NEW q \in Generated
      PROVE  trees[q] = Bundled(q)
  <2>1. n \in 1..Len(done) /\ n \in 1..Len(PlacesInOrder)
    BY <1>3, <1>4
  <2>2. PICK k \in 1..n : PlacesInOrder[k] = q
    BY <1>2, <1>4, <1>5, <2>1, PlacesDistinct
  <2>3. k \in 1..Len(done)
    BY <1>3, <2>1
  <2>4. Installed(i, q)
    BY <1>3, <1>4, <2>2, <2>3 DEF Installed, Has
  <2>5. q \in Places
    BY DEF Places
  <2> QED
    BY <1>1, <2>4, <2>5 DEF Swap, WhereIs
<1>6. \A p \in Places : import[i].before[p] # None =>
        import[i].before[p] \in {trees[p], import[i].backup[p]}
  BY <1>1 DEF Swap, WhereIs
<1> QED
  BY <1>5, <1>6

\* At every step of an import, of its rollback, and after a kill: while a tree
\* of the new authority is in place every generated tree of the bundle is, and
\* what the checkout had is in its place or in the backup
\* (authority-bundle.ts:488-616).
THEOREM ImportIsInOrder == TransferSpec => []ImportKeepsOrder
<1>1. TransferInv => ImportKeepsOrder
  BY OrderByTheInvariant DEF TransferInv
<1> QED
  BY <1>1, TransferHolds, PTL

\* Success is only reported by the last verification.
LEMMA Reports ==
  ASSUME ReceiverInv, VerifyInv, NEW i \in Importers, Import(i)
  PROVE  /\ \A j \in Importers : j # i => import'[j] = import[j]
         /\ import'[i].outcome = "imported" /\ import[i].outcome # "imported"
              => AllInPlace
<1> DEFINE Goal ==
      /\ \A j \in Importers : j # i => import'[j] = import[j]
      /\ import'[i].outcome = "imported" /\ import[i].outcome # "imported"
           => AllInPlace
<1> SUFFICES Goal
  OBVIOUS
<1>1. import[i] \in Imports /\ import \in [Importers -> Imports]
  BY ImportIs DEF ReceiverInv, ReceiverTypes
<1>2. ASSUME NEW next, ImportStep(i, next),
             next.outcome \in {import[i].outcome, "failed"}
      PROVE  Goal
  BY <1>1, <1>2 DEF ImportStep
<1>3. CASE VerifyInstalled(i)
  <2> DEFINE c == Head(import[i].unverified)  rest == Tail(import[i].unverified)
  <2>1. /\ import[i].pc = "swap" /\ import[i].left = <<>>
        /\ import[i].unverified # <<>>
    BY <1>3 DEF VerifyInstalled
  <2>2. lock = i
    BY <2>1, UnderWay
  <2>3. c \in Catalogs /\ \A x : Has(import[i].unverified, x) => x = c \/ Has(rest, x)
    BY <1>1, <2>1, HasTail DEF Imports
  <2>4. CASE Rollback(i)
    BY <1>1, <1>2, <2>4 DEF Rollback, Imports
  <2>5. CASE ImportStep(i, [import[i] EXCEPT !.unverified = rest])
    BY <1>1, <1>2, <2>5 DEF Imports
  <2>6. CASE /\ Verified(c, trees[<<"authority", c>>]) /\ rest = <<>>
             /\ ImportStep(i, [import[i] EXCEPT !.pc = "cleanup",
                                                !.outcome = "imported"])
    <3>1. bundle.sets[c] \in recent[c]
      BY <2>1, <2>3, <2>6, PlacedIsSeen
    <3>2. Noticed(i)
      BY <2>2 DEF VerifyInv
    <3>3. \A x : ~Has(rest, x)
      BY <2>6 DEF Has
    <3>4. \A x \in Catalogs : bundle.sets[x] \in recent[x]
      BY <2>3, <3>1, <3>2, <3>3 DEF Noticed
    <3>5. AllInPlace
      BY <2>1, <3>4, AllInstalled DEF AllInPlace
    <3> QED
      BY <1>1, <2>6, <3>5 DEF ImportStep
  <2> QED
    BY <1>3, <2>4, <2>5, <2>6 DEF VerifyInstalled
<1> HIDE DEF Goal
<1>4. ASSUME NEW label, ImportStep(i, [import[i] EXCEPT !.pc = label]) PROVE Goal
  BY <1>1, <1>2, <1>4 DEF Imports
<1>5. CASE Rollback(i)
  BY <1>1, <1>2, <1>5 DEF Rollback, Imports
<1>6. CASE LockTransfer(i)
  BY <1>1, <1>2, <1>6 DEF LockTransfer, Imports
<1>7. CASE Inspect(i)
  BY <1>1, <1>2, <1>7 DEF Inspect, Imports
<1>8. CASE VerifyStaged(i)
  BY <1>1, <1>2, <1>5, <1>8 DEF VerifyStaged, Imports
<1>9. CASE MoveAway(i)
  <2>1. SUFFICES ASSUME ~Rollback(i) PROVE Goal
    BY <1>5
  <2>2. PICK p, t, m :
          ImportStep(i, [import[i] EXCEPT !.pc = "install", !.backup[p] = t,
                           !.moved = m])
    BY <1>9, <2>1 DEF MoveAway
  <2> QED
    BY <1>1, <1>2, <2>2 DEF Imports
<1>10. CASE InstallTree(i)
  <2>1. SUFFICES ASSUME ~Rollback(i) PROVE Goal
    BY <1>5
  <2>2. PICK l, d :
          ImportStep(i, [import[i] EXCEPT !.pc = "swap", !.left = l,
                           !.installed = d, !.unverified = CatalogOrder])
    BY <1>10, <2>1 DEF InstallTree
  <2> QED
    BY <1>1, <1>2, <2>2 DEF Imports
<1>11. CASE RemoveInstalled(i)
  <2>1. SUFFICES ASSUME NEW d, ImportStep(i, [import[i] EXCEPT !.installed = d])
                 PROVE  Goal
    BY <1>4, <1>11 DEF RemoveInstalled, Recovery
  <2> QED
    BY <1>1, <1>2, <2>1 DEF Imports
<1>12. CASE RestoreMoved(i)
  <2>1. SUFFICES ASSUME NEW m, NEW p,
                        ImportStep(i, [import[i] EXCEPT !.moved = m,
                                         !.backup[p] = None])
                 PROVE  Goal
    BY <1>4, <1>12 DEF RestoreMoved, Recovery
  <2> QED
    BY <1>1, <1>2, <2>1 DEF Imports
<1>13. CASE Cleanup(i)
  BY <1>1, <1>2, <1>13 DEF Cleanup, Imports
<1>14. CASE KillImport(i)
  BY <1>4, <1>14 DEF KillImport
<1> QED
  BY <1>3, <1>6, <1>7, <1>8, <1>9, <1>10, <1>11, <1>12, <1>13, <1>14 DEF Import

\* The lock is let go only by a cleanup: of an import that succeeded, or of
\* one that has taken everything back.
LEMMA LetsGo ==
  ASSUME ReceiverInv, NEW j \in Importers, Import(j), NEW i \in Importers,
         lock = i, lock' # i, import'[i].outcome # "imported"
  PROVE  trees' = import[i].before
<1>1. Cleanup(j)
  BY TransferConstants DEF Import, LockTransfer, Inspect, VerifyStaged,
       MoveAway, InstallTree, VerifyInstalled, RemoveInstalled, RestoreMoved,
       KillImport
<1>2. import[j].pc = "cleanup" /\ UNCHANGED trees
  BY <1>1 DEF Cleanup
<1>3. j = i /\ Swap(i) /\ import[i] \in Imports
  BY <1>2, UnderWay, ImportIs
<1>4. import'[i].outcome = import[i].outcome
  BY <1>1, <1>3 DEF Cleanup, ImportStep, Imports, ReceiverInv, ReceiverTypes
<1>5. import[i].installed = <<>> /\ import[i].moved = <<>>
  BY <1>2, <1>3, <1>4 DEF Swap, TakenBack
<1>6. \A p \in Places : trees[p] = import[i].before[p]
  BY <1>3, <1>5 DEF Swap, WhereIs, Installed, Moved, Has
<1>7. trees \in [Places -> Trees] /\ import[i].before \in [Places -> Trees]
  BY <1>3 DEF ReceiverInv, ReceiverTypes, Imports
<1>8. trees = import[i].before
  BY <1>6, <1>7
<1> QED
  BY <1>2, <1>8

\* An import that reports success has all of the bundle in place, and each
\* package has had the inputs of its set since the last tree was installed,
\* whatever was edited between two verifications; one that lets go of the lock
\* without success has left the checkout as it found it, whichever step failed
\* (authority-bundle.ts:592-616 and 667-681).
THEOREM ImportIsWholeOrNothing == TransferSpec => ImportWholeOrNothing
<1> DEFINE Whole ==
      \A i \in Importers :
        /\ import'[i].outcome = "imported" /\ import[i].outcome # "imported"
             => AllInPlace
        /\ lock = i /\ lock' # i /\ import'[i].outcome # "imported"
             => trees' = import[i].before
<1>1. TransferInv /\ [TransferNext]_transferring => [Whole]_<<import, lock>>
  <2> SUFFICES ASSUME TransferInv, [TransferNext]_transferring,
                      ~UNCHANGED <<import, lock>>
               PROVE  Whole
    OBVIOUS
  <2>1. ReceiverInv /\ VerifyInv
    BY DEF TransferInv
  <2>2. PICK j \in Importers : Import(j)
    BY DEF TransferNext, EditReceiver, transferring, receiver
  <2>3. ASSUME NEW i \in Importers
        PROVE  /\ import'[i].outcome = "imported"
                    /\ import[i].outcome # "imported"
                    => AllInPlace
               /\ lock = i /\ lock' # i /\ import'[i].outcome # "imported"
                    => trees' = import[i].before
    BY <2>1, <2>2, Reports, LetsGo
  <2> QED
    BY <2>3
<1>2. TransferSpec => [][Whole]_<<import, lock>>
  BY <1>1, TransferHolds, PTL DEF TransferSpec, transferring
<1> QED
  BY <1>2, Zenon DEF ImportWholeOrNothing
=============================================================================
