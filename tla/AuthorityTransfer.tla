------------------------- MODULE AuthorityTransfer -------------------------
(***************************************************************************)
(* Moving the authority of a workspace to another checkout: the export and *)
(* the import of a bundle (packages/compiler/src/authority-bundle.ts),     *)
(* beside the supervisors, authorizations and edits of WorkspaceAuthority. *)
(*                                                                         *)
(* An export reads selectors that others move: it chooses the files from   *)
(* what is selected, hashes them, copies them, and believes the copy only  *)
(* after it has derived the same files from the copy.  An import swaps     *)
(* trees of the receiving checkout one rename at a time: all generated     *)
(* trees, then, once every package verifies, all authority trees, then the *)
(* workspace's; when a step fails it takes the steps back, and when that   *)
(* fails too it leaves what it moved away, with the lock, to a human.      *)
(*                                                                         *)
(* Abstractions: a tree is the version it belongs to, so a package         *)
(* verifies when its generated tree, its authority tree and its inputs are *)
(* of one version; what one package has is read in one step, and the       *)
(* packages one after the other.  The checkouts share nothing but the      *)
(* bundle, so a behaviour follows one of them: the sending one, or one     *)
(* that received any bundle of the form ArchiveOneMoment shows an export   *)
(* to have.                                                                *)
(***************************************************************************)
EXTENDS WorkspaceAuthority

CONSTANTS
  CatalogOrder,    \* the catalogs in the order of the manifest
  Importers,
  MaxReceiverEdits \* bound on the edits in the receiving checkout

ASSUME TransferConstants ==
  /\ CatalogOrder \in Seq(Catalogs) /\ CatalogOrder # <<>>
  /\ \A c \in Catalogs : \E n \in DOMAIN CatalogOrder : CatalogOrder[n] = c
  /\ \A m, n \in DOMAIN CatalogOrder :
       CatalogOrder[m] = CatalogOrder[n] => m = n
  /\ None \notin Importers
  /\ MaxReceiverEdits \in Nat

Versions == 0..MaxSets
Generated == {"generated"} \X Catalogs
Authority == {"authority"} \X Catalogs
Workspace == <<"workspace", None>>
Places == Generated \cup Authority \cup {Workspace}

VARIABLES
  export,      \* the export: its label, the catalogs left, what it read
  archive,     \* the exported bundle, or None
  bundle,      \* the bundle a receiving checkout has got, or None
  inputs,      \* the inputs of the receiving checkout
  recent,      \* history: recent[c]: those that package c has had since the
               \* last tree was installed
  edits,       \* how often they were edited
  trees,       \* trees[p]: what the receiving checkout has at place p
  lock,        \* the owner of the transfer lock, or None
  import       \* the importers

sender == <<packages, supervision, export, archive>>
receiver == <<bundle, inputs, recent, edits, trees, lock, import>>

Unread == [c \in Catalogs |-> None]
NoTrees == [p \in Places |-> None]
NoImport == [pc |-> "idle", unverified |-> CatalogOrder, left |-> <<>>,
             installed |-> <<>>, moved |-> <<>>, backup |-> NoTrees,
             before |-> NoTrees, outcome |-> "none"]

TransferInit ==
  /\ WorkspaceInit
  /\ export = [pc |-> "select", left |-> CatalogOrder, chosen |-> Unread,
               hashed |-> Unread, staged |-> Unread,
               root |-> None, stagedRoot |-> None]
  /\ archive = None
  /\ \/ /\ bundle = None
        /\ inputs = [c \in Catalogs |-> 0] /\ trees = NoTrees
     \/ /\ \E sets \in Manifests : bundle \in [sets : {sets}, root : {None, sets}]
        /\ inputs \in Manifests
        /\ \E root \in Manifests \cup {None} : trees \in
             {NoTrees, [p \in Places |-> IF p = Workspace THEN root ELSE 0]}
  /\ recent = [c \in Catalogs |-> {inputs[c]}]
  /\ edits = 0
  /\ lock = None
  /\ import = [i \in Importers |-> NoImport]

----------------------------------------------------------------------------
(* The export.                                                             *)

ExportStep(next) == export' = next /\ UNCHANGED <<packages, supervision, archive>>
ExportFails == ExportStep([export EXCEPT !.pc = "failed"])

\* The next catalog of a pass over them; the last one ends the pass.
Current == Head(export.left)
Visit(pass, read, then) ==
  LET rest == Tail(export.left) IN
  /\ export.pc = pass
  /\ ExportStep([read EXCEPT !.left = IF rest = <<>> THEN CatalogOrder ELSE rest,
                             !.pc = IF rest = <<>> THEN then ELSE pass])

\* selectedFiles: the objects a package's selector names are chosen.
SelectFiles ==
  Visit("select", [export EXCEPT !.chosen[Current] = selected[Current]], "root")

\* selectedFiles: a root pointer must name a manifest that lists what was
\* chosen.
SelectRoot ==
  /\ export.pc = "root"
  /\ IF pointer = None \/ (manifests[pointer] = "whole" /\ pointer = export.chosen)
     THEN ExportStep([export EXCEPT !.pc = "hash", !.root = pointer])
     ELSE ExportFails

\* describeFiles: the selector and the files it named are hashed.
HashFiles ==
  Visit("hash", [export EXCEPT !.hashed[Current] = selected[Current]], "copy")

\* The files are copied to the stage, the root pointer last.
CopyFiles ==
  \/ Visit("copy", [export EXCEPT !.staged[Current] = selected[Current]],
           "copyRoot")
  \/ /\ export.pc = "copyRoot"
     /\ ExportStep([export EXCEPT !.pc = "validate",
          !.stagedRoot = IF export.root = None THEN None ELSE pointer])

\* Mutant: the copy is compared with the hashes only.
ValidateHashes ==
  /\ export.pc = "validate"
  /\ IF export.staged = export.hashed /\ export.stagedRoot = export.root
     THEN ExportStep([export EXCEPT !.pc = "verify"])
     ELSE ExportFails

\* validateBundle: the files that the staged selectors name are the files
\* chosen, and their bytes the ones hashed.
ValidateBundle ==
  /\ export.pc = "validate"
  /\ IF /\ export.staged = export.chosen
        /\ export.staged = export.hashed
        /\ export.stagedRoot = export.root
     THEN ExportStep([export EXCEPT !.pc = "verify"])
     ELSE ExportFails

\* Each staged set is verified against the live inputs; the archive appears
\* under its name by a link, whole.
VerifyExport ==
  LET c == Head(export.left)  rest == Tail(export.left) IN
  /\ export.pc = "verify"
  /\ IF export.staged[c] # live[c]
     THEN ExportFails
     ELSE IF rest # <<>>
     THEN ExportStep([export EXCEPT !.left = rest])
     ELSE /\ archive' = [sets |-> export.staged, root |-> export.stagedRoot]
          /\ export' = [export EXCEPT !.pc = "done"]
          /\ UNCHANGED <<packages, supervision>>

Export ==
  \/ SelectFiles \/ SelectRoot \/ HashFiles \/ CopyFiles \/ ValidateBundle
  \/ VerifyExport

----------------------------------------------------------------------------
(* The import.                                                             *)

\* The trees in the order they are swapped.
PlacesInOrder ==
  LET n == Len(CatalogOrder)
      all == [k \in 1..2 * n |-> IF k <= n THEN <<"generated", CatalogOrder[k]>>
                ELSE <<"authority", CatalogOrder[k - n]>>]
  IN IF bundle.root = None THEN all ELSE Append(all, Workspace)

\* What the bundle has for a place.
Bundled(p) == IF p = Workspace THEN bundle.root ELSE bundle.sets[p[2]]

ImportStep(i, next) == import' = [import EXCEPT ![i] = next]
Kept == UNCHANGED <<bundle, inputs, edits, sender>>
Keep == Kept /\ UNCHANGED recent

Rollback(i) == ImportStep(i, [import[i] EXCEPT !.pc = "remove", !.outcome = "failed"])
Recovery(i) == ImportStep(i, [import[i] EXCEPT !.pc = "recovery"])

\* The lock file is created exclusively; an importer that finds it fails.
LockTransfer(i) ==
  /\ import[i].pc = "idle" /\ import[i].outcome = "none" /\ bundle # None
  /\ IF lock # None
     THEN ImportStep(i, [import[i] EXCEPT !.outcome = "failed"]) /\ UNCHANGED lock
     ELSE /\ lock' = i
          /\ ImportStep(i, [import[i] EXCEPT !.pc = "inspect", !.before = trees])
  /\ UNCHANGED trees /\ Keep

\* The archive is unpacked, validated and compared with the checkout.  A
\* checkout with a workspace authority the bundle has none for is refused.
Inspect(i) ==
  /\ import[i].pc = "inspect"
  /\ \/ ImportStep(i, [import[i] EXCEPT !.pc = "cleanup", !.outcome = "failed"])
     \/ /\ trees[Workspace] = None \/ bundle.root # None
        /\ ImportStep(i, [import[i] EXCEPT !.pc = "swap", !.left = PlacesInOrder])
  /\ UNCHANGED <<trees, lock>> /\ Keep

\* One package has the output and the authority of its inputs.
Verified(c, authority) ==
  trees[<<"generated", c>>] = inputs[c] /\ authority = inputs[c]

\* Before the first authority tree, one package after the other is verified:
\* its new generated tree with the staged authority and the inputs of the
\* checkout.
VerifyStaged(i) ==
  LET c == Head(import[i].unverified) IN
  /\ import[i].pc = "swap" /\ import[i].unverified # <<>>
  /\ import[i].left # <<>>
  /\ Head(import[i].left) = <<"authority", CatalogOrder[1]>>
  /\ IF Verified(c, Bundled(<<"authority", c>>))
     THEN ImportStep(i, [import[i] EXCEPT !.unverified = Tail(@)])
     ELSE Rollback(i)
  /\ UNCHANGED <<trees, lock>> /\ Keep

\* The tree there is moved to the backup, where there is one.
MoveAway(i) ==
  LET p == Head(import[i].left) IN
  /\ import[i].pc = "swap" /\ import[i].left # <<>>
  /\ p = <<"authority", CatalogOrder[1]>> => import[i].unverified = <<>>
  /\ \/ /\ trees[p] # None
        /\ Rollback(i) /\ UNCHANGED trees
     \/ /\ trees' = [trees EXCEPT ![p] = None]
        /\ ImportStep(i, [import[i] EXCEPT !.pc = "install", !.backup[p] = trees[p],
             !.moved = IF trees[p] = None THEN @ ELSE Append(@, p)])
  /\ UNCHANGED lock /\ Keep

\* The staged tree takes its place.  A verification after it begins with the
\* first package.
InstallTree(i) ==
  LET p == Head(import[i].left) IN
  /\ import[i].pc = "install"
  /\ \/ Rollback(i) /\ UNCHANGED <<trees, recent>>
     \/ /\ trees' = [trees EXCEPT ![p] = Bundled(p)]
        /\ ImportStep(i, [import[i] EXCEPT !.pc = "swap", !.left = Tail(@),
             !.installed = Append(@, p), !.unverified = CatalogOrder])
        /\ recent' = [c \in Catalogs |-> {inputs[c]}]
  /\ UNCHANGED lock /\ Kept

\* Mutant: the checkout is not looked at again.
AcceptInstalled(i) ==
  /\ import[i].pc = "swap" /\ import[i].left = <<>>
  /\ ImportStep(i, [import[i] EXCEPT !.pc = "cleanup", !.outcome = "imported"])
  /\ UNCHANGED <<trees, lock>> /\ Keep

\* Every package of the checkout is verified once more, one after the other;
\* the last one is the success.
VerifyInstalled(i) ==
  LET c == Head(import[i].unverified)  rest == Tail(import[i].unverified) IN
  /\ import[i].pc = "swap" /\ import[i].left = <<>>
  /\ import[i].unverified # <<>>
  /\ IF ~Verified(c, trees[<<"authority", c>>])
     THEN Rollback(i)
     ELSE IF rest # <<>>
     THEN ImportStep(i, [import[i] EXCEPT !.unverified = rest])
     ELSE ImportStep(i, [import[i] EXCEPT !.pc = "cleanup", !.outcome = "imported"])
  /\ UNCHANGED <<trees, lock>> /\ Keep

\* Mutant: the installed trees are removed in the order they came.
RemoveInOrder(i) ==
  LET done == import[i].installed IN
  /\ import[i].pc = "remove"
  /\ \/ /\ done # <<>>
        /\ trees' = [trees EXCEPT ![Head(done)] = None]
        /\ ImportStep(i, [import[i] EXCEPT !.installed = Tail(@)])
     \/ done # <<>> /\ Recovery(i) /\ UNCHANGED trees
     \/ /\ done = <<>> /\ UNCHANGED trees
        /\ ImportStep(i, [import[i] EXCEPT !.pc = "restore"])
  /\ UNCHANGED lock /\ Keep

\* The rollback removes the installed trees, the last one first; a removal
\* may fail.
RemoveInstalled(i) ==
  LET done == import[i].installed  n == Len(done) IN
  /\ import[i].pc = "remove"
  /\ \/ /\ done # <<>>
        /\ trees' = [trees EXCEPT ![done[n]] = None]
        /\ ImportStep(i, [import[i] EXCEPT !.installed = SubSeq(@, 1, n - 1)])
     \/ done # <<>> /\ Recovery(i) /\ UNCHANGED trees
     \/ /\ done = <<>> /\ UNCHANGED trees
        /\ ImportStep(i, [import[i] EXCEPT !.pc = "restore"])
  /\ UNCHANGED lock /\ Keep

\* It moves the trees of the backup back, the last one first; this too may
\* fail.
RestoreMoved(i) ==
  LET gone == import[i].moved  n == Len(gone) IN
  /\ import[i].pc = "restore"
  /\ \/ /\ gone # <<>>
        /\ trees' = [trees EXCEPT ![gone[n]] = import[i].backup[gone[n]]]
        /\ ImportStep(i, [import[i] EXCEPT !.moved = SubSeq(@, 1, n - 1),
             !.backup[gone[n]] = None])
     \/ gone # <<>> /\ Recovery(i) /\ UNCHANGED trees
     \/ /\ gone = <<>> /\ UNCHANGED trees
        /\ ImportStep(i, [import[i] EXCEPT !.pc = "cleanup"])
  /\ UNCHANGED lock /\ Keep

\* The stage, the backup and the lock are removed, unless the rollback failed.
Cleanup(i) ==
  /\ import[i].pc = "cleanup"
  /\ lock' = None
  /\ ImportStep(i, [import[i] EXCEPT !.pc = "idle", !.backup = NoTrees,
       !.left = <<>>, !.installed = <<>>, !.moved = <<>>,
       !.unverified = CatalogOrder])
  /\ UNCHANGED trees /\ Keep

\* A killed import leaves everything where it is, the lock included.
KillImport(i) ==
  /\ import[i].pc \notin {"idle", "killed", "recovery"}
  /\ ImportStep(i, [import[i] EXCEPT !.pc = "killed"])
  /\ UNCHANGED <<trees, lock>> /\ Keep

Import(i) ==
  \/ LockTransfer(i) \/ Inspect(i) \/ VerifyStaged(i) \/ MoveAway(i)
  \/ InstallTree(i) \/ VerifyInstalled(i) \/ RemoveInstalled(i)
  \/ RestoreMoved(i) \/ Cleanup(i) \/ KillImport(i)

\* Somebody edits the receiving checkout meanwhile.
EditReceiver ==
  /\ bundle # None /\ edits < MaxReceiverEdits
  /\ edits' = edits + 1
  /\ \E c \in Catalogs, v \in Versions :
       /\ inputs' = [inputs EXCEPT ![c] = v]
       /\ recent' = [recent EXCEPT ![c] = @ \cup {v}]
  /\ UNCHANGED <<bundle, trees, lock, import, sender>>

TransferNext ==
  \/ /\ bundle = None
     /\ \/ WorkspaceNext /\ UNCHANGED <<export, archive>>
        \/ Export
     /\ UNCHANGED receiver
  \/ \E i \in Importers : Import(i)
  \/ EditReceiver

TransferSpec == TransferInit /\ [][TransferNext]_<<sender, receiver>>

----------------------------------------------------------------------------
\* The sets of a bundle were all selected at one moment, though they are read
\* one after the other while packages are authorized again, and its workspace
\* manifest lists exactly them.
ArchiveOneMoment ==
  archive # None => /\ archive.sets \in seenSets
                    /\ archive.root \in {None, archive.sets}

\* While a tree of the new authority is in place every generated tree of the
\* bundle is, also while an import is taken back: no build can select the new
\* authority of one package next to the old output of another.
AuthorityOverNewOutput ==
  \A i \in Importers, p \in Authority :
    lock = i /\ (\E n \in DOMAIN import[i].installed : import[i].installed[n] = p)
      => \A q \in Generated : trees[q] = Bundled(q)

\* What an import moved away is in its place or in the backup until the import
\* succeeds, whichever step fails or kills it.
NothingLost ==
  \A i \in Importers, p \in Places :
    lock = i /\ import[i].outcome # "imported" /\ import[i].before[p] # None
      => import[i].before[p] \in {trees[p], import[i].backup[p]}

\* The two relations of an import under way (authority-bundle.ts:488-616):
\* new authority over new output only, and nothing of the checkout lost.
ImportKeepsOrder == AuthorityOverNewOutput /\ NothingLost

\* All of the bundle is in place, and each package had the inputs of its set at
\* some moment since.
AllInPlace ==
  /\ \A n \in DOMAIN PlacesInOrder :
       trees[PlacesInOrder[n]] = Bundled(PlacesInOrder[n])
  /\ \A c \in Catalogs : bundle.sets[c] \in recent[c]

\* An import that reports success has all of the bundle in place, whatever was
\* edited meanwhile, and each package has verified with it after the last tree
\* was installed; the packages verify one after the other, so that an edit
\* behind the verification is not noticed.  An import that lets go of the lock
\* without success has left the checkout as it found it
\* (authority-bundle.ts:592-616 and 667-681).
ImportWholeOrNothing ==
  [][\A i \in Importers :
       /\ import'[i].outcome = "imported" /\ import[i].outcome # "imported"
            => AllInPlace
       /\ lock = i /\ lock' # i /\ import'[i].outcome # "imported"
            => trees' = import[i].before]_<<import, lock>>

=============================================================================
