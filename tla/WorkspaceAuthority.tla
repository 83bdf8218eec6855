------------------------- MODULE WorkspaceAuthority -------------------------
(***************************************************************************)
(* The workspace authority: supervisors commit a root pointer to a         *)
(* manifest of the authority sets the packages select                      *)
(* (packages/compiler/src/workspace-authority-supervisor.ts).              *)
(*                                                                         *)
(* A supervisor owns a lease while it publishes (the caller's: assumed     *)
(* exclusive, and recovered from a killed owner).  It writes the manifest  *)
(* under the name of its content, stages the pointer, asks its caller to   *)
(* revalidate the packages, and renames the pointer.  The observers of its *)
(* boundaries, the directory sync after the rename and the release of the  *)
(* lease may all fail.                                                     *)
(*                                                                         *)
(* Abstractions: the inputs of a package are a version, and its authority  *)
(* set is the version it was authorized for; a manifest is the sets it     *)
(* lists; the cutoff is a flag that time raises.                           *)
(***************************************************************************)
EXTENDS Naturals, FiniteSets, Sequences

CONSTANTS
  Catalogs,       \* the packages with a catalog
  Supervisors,
  None,
  MaxSets         \* bound on the edits of a package

ASSUME WorkspaceConstants ==
  /\ None \notin Supervisors
  /\ MaxSets \in Nat

Manifests == [Catalogs -> 0..MaxSets]

VARIABLES
  live,        \* live[c]: the version of the inputs of package c
  selected,    \* selected[c]: the set package c selects
  manifests,   \* manifests[m]: "absent", "torn" or "whole"
  pointer,     \* the manifest the root pointer names, or None
  lease,       \* the supervisor that owns the lease, or None
  sup,         \* the supervisors
  seenSets     \* history: every state of selected

packages == <<live, selected, seenSets>>
supervision == <<manifests, pointer, lease, sup>>

AtRest == [pc |-> "idle", manifest |-> None, staged |-> FALSE,
           expired |-> FALSE, committed |-> FALSE, outcome |-> "none"]

WorkspaceInit ==
  /\ live = [c \in Catalogs |-> 0]
  /\ selected = live
  /\ manifests = [m \in Manifests |-> "absent"]
  /\ pointer = None
  /\ lease = None
  /\ sup = [s \in Supervisors |-> AtRest]
  /\ seenSets = {selected}

Pass(s, label) == sup' = [sup EXCEPT ![s].pc = label]

\* The rest of the run is its finally blocks: the staged pointer is removed,
\* the lease released.
Throw(s) == sup' = [sup EXCEPT ![s].pc = "release", ![s].outcome = "error",
                               ![s].staged = FALSE]

EditPackage(c) ==
  /\ live[c] < MaxSets
  /\ live' = [live EXCEPT ![c] = @ + 1]
  /\ UNCHANGED <<selected, seenSets, supervision>>

\* A package is authorized again (PackageAuthority).
Authorize(c) ==
  /\ selected[c] # live[c]
  /\ selected' = [selected EXCEPT ![c] = live[c]]
  /\ seenSets' = seenSets \cup {selected'}
  /\ UNCHANGED <<live, supervision>>

\* The caller builds the descriptor from the packages of the moment.
Describe(s) ==
  /\ sup[s].pc = "idle" /\ sup[s].outcome = "none"
  /\ sup' = [sup EXCEPT ![s].pc = "lease", ![s].manifest = selected]
  /\ UNCHANGED <<packages, manifests, pointer, lease>>

\* The lease is taken; a cutoff that has passed already is refused.
Lease(s) ==
  /\ sup[s].pc = "lease"
  /\ \/ /\ lease = None /\ ~sup[s].expired
        /\ lease' = s
        /\ Pass(s, "install")
     \/ /\ sup[s].expired
        /\ sup' = [sup EXCEPT ![s].pc = "idle", ![s].outcome = "error"]
        /\ UNCHANGED lease
  /\ UNCHANGED <<packages, manifests, pointer>>

\* Mutant: a manifest that exists is taken for whole.
InstallTrusted(s) ==
  LET m == sup[s].manifest IN
  /\ sup[s].pc = "install"
  /\ IF manifests[m] = "absent"
     THEN manifests' = [manifests EXCEPT ![m] = "torn"] /\ Pass(s, "write")
     ELSE Pass(s, "stage") /\ UNCHANGED manifests
  /\ UNCHANGED <<packages, pointer, lease>>

\* The manifest is created under its final name, or compared with the one
\* there.
Install(s) ==
  LET m == sup[s].manifest IN
  /\ sup[s].pc = "install"
  /\ CASE manifests[m] = "absent" ->
            manifests' = [manifests EXCEPT ![m] = "torn"] /\ Pass(s, "write")
       [] manifests[m] = "whole" -> Pass(s, "stage") /\ UNCHANGED manifests
       [] manifests[m] = "torn" -> Throw(s) /\ UNCHANGED manifests
  /\ UNCHANGED <<packages, pointer, lease>>

\* Its bytes are written and synced.
Write(s) ==
  /\ sup[s].pc = "write"
  /\ manifests' = [manifests EXCEPT ![sup[s].manifest] = "whole"]
  /\ Pass(s, "stage")
  /\ UNCHANGED <<packages, pointer, lease>>

\* The pointer is staged; the observers of both boundaries may throw, and
\* the cutoff may have passed.
Stage(s) ==
  /\ sup[s].pc = "stage"
  /\ \/ Throw(s)
     \/ /\ ~sup[s].expired
        /\ sup' = [sup EXCEPT ![s].pc = "revalidate", ![s].staged = TRUE]
  /\ UNCHANGED <<packages, manifests, pointer, lease>>

\* Mutant: the packages are not looked at again.
RevalidateNothing(s) ==
  /\ sup[s].pc = "revalidate"
  /\ Pass(s, "commit")
  /\ UNCHANGED <<packages, manifests, pointer, lease>>

\* The caller verifies that the packages still select what the manifest says.
Revalidate(s) ==
  /\ sup[s].pc = "revalidate"
  /\ IF selected = sup[s].manifest THEN Pass(s, "commit") ELSE Throw(s)
  /\ UNCHANGED <<packages, manifests, pointer, lease>>

\* The commit: the cutoff, the staged bytes, and a pointer with the same
\* bytes, which makes it a no-op, are looked at in the same synchronous
\* section as the rename.
Commit(s) ==
  LET m == sup[s].manifest IN
  /\ sup[s].pc = "commit"
  /\ IF sup[s].expired
     THEN Throw(s) /\ UNCHANGED pointer
     ELSE /\ pointer' = m
          /\ \E sync \in {"committed", "recovered"} :
               sup' = [sup EXCEPT ![s].pc = "release", ![s].staged = FALSE,
                 ![s].committed = pointer # m,
                 ![s].outcome = IF pointer = m THEN "unchanged" ELSE sync]
  /\ UNCHANGED <<packages, manifests, lease>>

\* The observer of the committed pointer and the release of the lease may
\* fail: after a commit that is a warning, before it an error.
Release(s) ==
  /\ sup[s].pc = "release"
  /\ lease' = None
  /\ \E failed \in BOOLEAN :
       sup' = [sup EXCEPT ![s].pc = "idle", ![s].outcome =
                 IF ~failed THEN @ ELSE IF sup[s].committed THEN "recovered"
                 ELSE "error"]
  /\ UNCHANGED <<packages, manifests, pointer>>

\* Time passes the cutoff.
Expire(s) ==
  /\ sup[s].pc \notin {"idle", "release"} /\ ~sup[s].expired
  /\ sup' = [sup EXCEPT ![s].expired = TRUE]
  /\ UNCHANGED <<packages, manifests, pointer, lease>>

\* The supervisor is killed, and its lease recovered.
KillSupervisor(s) ==
  /\ sup[s].pc # "idle"
  /\ sup' = [sup EXCEPT ![s].pc = "idle", ![s].outcome = "killed"]
  /\ lease' = IF lease = s THEN None ELSE lease
  /\ UNCHANGED <<packages, manifests, pointer>>

Supervise(s) ==
  \/ Describe(s) \/ Lease(s) \/ Install(s) \/ Write(s) \/ Stage(s) \/ Revalidate(s)
  \/ Commit(s) \/ Release(s) \/ Expire(s) \/ KillSupervisor(s)

WorkspaceNext ==
  \/ \E c \in Catalogs : EditPackage(c) \/ Authorize(c)
  \/ \E s \in Supervisors : Supervise(s)

WorkspaceSpec ==
  WorkspaceInit /\ [][WorkspaceNext]_<<packages, supervision>>

----------------------------------------------------------------------------
\* The pointer names a manifest that can be read, whatever was killed while
\* it wrote one.
PointerReadable == pointer # None => manifests[pointer] = "whole"

\* A publication that renamed the pointer never reports a failure: what may
\* still fail then is reported as recovered.
CommitIsReported ==
  \A s \in Supervisors : sup[s].committed => sup[s].outcome # "error"

\* A commit lasts: what was renamed can be read, and is reported.
CommitLasts == PointerReadable /\ CommitIsReported

\* The pointer never moves back: a supervisor whose packages were authorized
\* again while it waited, wrote or was delayed does not replace the pointer of
\* one that came after it.
PointerMovesForward ==
  [][\A c \in Catalogs : pointer # None => pointer'[c] >= pointer[c]]_pointer

=============================================================================
