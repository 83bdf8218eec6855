-------------------------- MODULE PublicationLock --------------------------
(***************************************************************************)
(* The publication lock of a generated catalog root, as implemented by     *)
(* packages/compiler/src/writer.ts.                                        *)
(*                                                                         *)
(* A publisher writes a candidate file and hard-links it to .publish.lock. *)
(* The lock names its owner process; a lock whose owner process is gone is *)
(* recovered: the recoverer hard-links the stale lock to                   *)
(* .publish.lock.recovering (the recovery claim), re-reads both names and  *)
(* unlinks the lock.  A claim whose inode changed last five seconds ago is *)
(* taken for abandoned and unlinked by whoever meets it.                   *)
(*                                                                         *)
(* Every action is one file-system call of the code or a run of calls with *)
(* nothing observable in between; the calls of different processes         *)
(* interleave freely, and a process may be killed between any two of them. *)
(*                                                                         *)
(* Abstractions:                                                           *)
(*  - a process takes part once, as a publisher or as the repairer a       *)
(*    reader runs (recoverAbandonedPublicationLock); a later publication,  *)
(*    with its fresh owner token, is another member of Procs.  Turns       *)
(*    inside one process (publicationTurns) never overlap and need no      *)
(*    members of their own;                                                *)
(*  - file contents are the owner token, i.e. the process itself; the      *)
(*    candidate is linked only after its content is on disk, so a torn     *)
(*    lock does not arise;                                                 *)
(*  - inode numbers are reused as soon as no name refers to them;          *)
(*  - the two snapshots taken in parallel before the stale lock is         *)
(*    unlinked are one step: what could change between them can equally    *)
(*    change between them and the unlink;                                  *)
(*  - change times are compared for equality only, and age is one bit.     *)
(***************************************************************************)
EXTENDS Naturals, FiniteSets

CONSTANTS Procs,       \* processes that publish or repair, each once
          Publishers,  \* those that may publish
          Repairers,   \* those that may repair for a reader
          Crashable,   \* those that may be killed
          Inodes,      \* inode numbers the file system can hand out
          None,        \* no inode / no process
          Expiry,      \* when a recovery claim can become five seconds old:
                       \*   "never"      the run is shorter than that
                       \*   "abandoned"  a live process recovers faster
                       \*   "any"        a live process may be paused
          MayGiveUp    \* the attempt budget can run out

ASSUME LockConstants ==
  /\ Publishers \cup Repairers \cup Crashable \subseteq Procs
  /\ None \notin Procs \cup Inodes
  /\ Expiry \in {"never", "abandoned", "any"}
  /\ MayGiveUp \in BOOLEAN

VARIABLES
  lock,     \* inode named .publish.lock, or None
  claim,    \* inode named .publish.lock.recovering, or None
  cand,     \* cand[p]: inode of p's candidate file, or None
  owner,    \* owner[i]: the owner token stored in inode i
  aged,     \* inodes whose last change is five seconds ago
  alive,    \* processes that have not been killed
  pc,       \* the step each process is at
  role,     \* "publish" or "repair"
  token,    \* token[p]: owner token read by p's first recovery snapshot
  ino,      \* ino[p]: inode of the snapshot p decides by
  stale,    \* processes whose snapshot's change time is out of date
  then,     \* then[p]: the step p goes on to after its clean-up
  names     \* names[p]: owners of the candidates a repairer listed

files == <<lock, claim, cand, owner, aged>>
local == <<pc, role, token, ino, then, names>>
vars  == <<files, local, stale, alive>>

----------------------------------------------------------------------------
(* The file system. *)

Linked == {lock, claim} \cup {cand[p] : p \in Procs}
Free   == Inodes \ Linked

\* A link or an unlink of inode i sets its change time: it is young again,
\* and whoever holds a snapshot of it holds an outdated change time.
Touch(i) ==
  /\ aged' = aged \ {i}
  /\ stale' = stale \cup {p \in Procs : i # None /\ ino[p] = i}

\* `process.kill(pid, 0)` on the owner named by an inode's content.
Alive(q) == q \in alive

At(p, l) == p \in alive /\ pc[p] = l
Goto(p, l) == pc' = [pc EXCEPT ![p] = l]

\* What a step that only reads the directory leaves alone.
ReadOnly == UNCHANGED <<files, alive>>

----------------------------------------------------------------------------
(* withPublicationFileLock and recoverAbandonedPublicationLock: entry. *)

Init ==
  /\ lock = None
  /\ claim = None
  /\ cand = [p \in Procs |-> None]
  /\ owner \in [Inodes -> {None}]
  /\ aged = {}
  /\ alive = Procs
  /\ pc = [p \in Procs |-> "idle"]
  /\ role = [p \in Procs |-> "publish"]
  /\ token = [p \in Procs |-> None]
  /\ ino = [p \in Procs |-> None]
  /\ stale = {}
  /\ then = [p \in Procs |-> "idle"]
  /\ names = [p \in Procs |-> {}]

StartPublish(p) ==
  /\ p \in Publishers
  /\ At(p, "idle")
  /\ Goto(p, "clear")
  /\ ReadOnly
  /\ UNCHANGED <<role, token, ino, stale, then, names>>

\* A reader lists the root; with no lock entry in it there is nothing to do.
StartRepair(p) ==
  /\ p \in Repairers
  /\ At(p, "idle")
  /\ Linked # {None}
  /\ role' = [role EXCEPT ![p] = "repair"]
  /\ names' = [names EXCEPT ![p] = {q \in Procs : cand[q] # None}]
  /\ Goto(p, "clear")
  /\ ReadOnly
  /\ UNCHANGED <<token, ino, stale, then>>

\* Where a step that could not go on leads: a publisher waits and tries
\* again; a repairer returns when it meets a young claim and otherwise goes
\* on to the dead owners' candidates.
Blocked(p)  == IF role[p] = "publish" THEN "wait" ELSE "done"
AfterRec(p, recovered) ==
  IF role[p] = "repair" THEN "sweep" ELSE IF recovered THEN "clear" ELSE "wait"

Retry(p) ==
  /\ At(p, "wait")
  /\ Goto(p, "clear")
  /\ ReadOnly
  /\ UNCHANGED <<role, token, ino, stale, then, names>>

\* The last of the attempts throws instead of waiting.
GiveUp(p) ==
  /\ MayGiveUp
  /\ At(p, "wait")
  /\ Goto(p, "failed")
  /\ ReadOnly
  /\ UNCHANGED <<role, token, ino, stale, then, names>>

----------------------------------------------------------------------------
(* recoverAbandonedRecoveryClaim *)

\* Mutant: whoever made the claim is expected to remove it.
ClearReadWaits(p) ==
  /\ At(p, "clear")
  /\ Goto(p, IF claim # None THEN Blocked(p)
             ELSE IF role[p] = "publish" THEN "look" ELSE "recContent")
  /\ ReadOnly
  /\ UNCHANGED <<role, token, ino, stale, then, names>>

\* Snapshot the claim and judge its age.
ClearRead(p) ==
  /\ At(p, "clear")
  /\ \/ /\ claim = None
        /\ Goto(p, IF role[p] = "publish" THEN "look" ELSE "recContent")
        /\ UNCHANGED <<ino, stale>>
     \/ /\ claim # None /\ claim \notin aged
        /\ Goto(p, Blocked(p))
        /\ UNCHANGED <<ino, stale>>
     \/ /\ claim # None /\ claim \in aged
        /\ ino' = [ino EXCEPT ![p] = claim]
        /\ stale' = stale \ {p}
        /\ Goto(p, "clearStat")
  /\ ReadOnly
  /\ UNCHANGED <<role, token, then, names>>

\* removePublicationLockIfOwned: only the inode number is compared.
ClearStat(p) ==
  /\ At(p, "clearStat")
  /\ Goto(p, IF claim = ino[p] THEN "clearRm" ELSE "clearCheck")
  /\ ReadOnly
  /\ UNCHANGED <<role, token, ino, stale, then, names>>

ClearRm(p) ==
  /\ At(p, "clearRm")
  /\ Goto(p, "clearCheck")
  /\ claim' = None
  /\ Touch(claim)
  /\ UNCHANGED <<lock, cand, owner, alive, role, token, ino, then, names>>

ClearCheck(p) ==
  /\ At(p, "clearCheck")
  /\ Goto(p, IF claim # None THEN Blocked(p)
             ELSE IF role[p] = "publish" THEN "look" ELSE "recContent")
  /\ ReadOnly
  /\ UNCHANGED <<role, token, ino, stale, then, names>>

----------------------------------------------------------------------------
(* The attempt proper, and installPublicationLock *)

\* A live owner's lock is waited for by reading it only.
Look(p) ==
  /\ At(p, "look")
  /\ Goto(p, IF lock # None /\ Alive(owner[lock]) THEN "wait" ELSE "create")
  /\ ReadOnly
  /\ UNCHANGED <<role, token, ino, stale, then, names>>

Create(p) ==
  /\ At(p, "create")
  /\ \E i \in Free :
       /\ cand' = [cand EXCEPT ![p] = i]
       /\ owner' = [owner EXCEPT ![i] = p]
       /\ Touch(i)
  /\ Goto(p, "link")
  /\ UNCHANGED <<lock, claim, alive, role, token, ino, then, names>>

Link(p) ==
  /\ At(p, "link")
  /\ \/ /\ lock = None
        /\ lock' = cand[p]
        /\ Touch(cand[p])
        /\ Goto(p, "check")
        /\ UNCHANGED then
     \/ /\ lock # None
        /\ then' = [then EXCEPT ![p] = "recContent"]
        /\ Goto(p, "undo")
        /\ UNCHANGED <<lock, aged, stale>>
  /\ UNCHANGED <<claim, cand, owner, alive, role, token, ino, names>>

\* A recovery under way has priority: give the lock back.
Check(p) ==
  /\ At(p, "check")
  /\ \/ /\ claim # None
        /\ then' = [then EXCEPT ![p] = "recContent"]
        /\ Goto(p, "undo")
     \/ /\ claim = None
        /\ Goto(p, "verify")
        /\ UNCHANGED then
  /\ ReadOnly
  /\ UNCHANGED <<role, token, ino, stale, names>>

\* The lock must still be the candidate, or the acquisition throws.
Verify(p) ==
  /\ At(p, "verify")
  /\ \/ /\ lock = cand[p]
        /\ then' = [then EXCEPT ![p] = "hold"]
        /\ Goto(p, "drop")
     \/ /\ lock # cand[p]
        /\ then' = [then EXCEPT ![p] = "failed"]
        /\ Goto(p, "undo")
  /\ ReadOnly
  /\ UNCHANGED <<role, token, ino, stale, names>>

\* Mutant: backing out removes the candidate and leaves the linked lock.
UndoCandidateOnly(p) ==
  /\ At(p, "undo")
  /\ Goto(p, "drop")
  /\ ReadOnly
  /\ UNCHANGED <<role, token, ino, stale, then, names>>

\* removePublicationLockIfOwned on the own candidate, lstat then rm.
Undo(p) ==
  /\ At(p, "undo")
  /\ Goto(p, IF lock = cand[p] THEN "undoRm" ELSE "drop")
  /\ ReadOnly
  /\ UNCHANGED <<role, token, ino, stale, then, names>>

UndoRm(p) ==
  /\ At(p, "undoRm")
  /\ lock' = None
  /\ Touch(lock)
  /\ Goto(p, "drop")
  /\ UNCHANGED <<claim, cand, owner, alive, role, token, ino, then, names>>

\* The finally block removes the candidate's own name.
Drop(p) ==
  /\ At(p, "drop")
  /\ cand' = [cand EXCEPT ![p] = None]
  /\ Touch(cand[p])
  /\ Goto(p, then[p])
  /\ UNCHANGED <<lock, claim, owner, alive, role, token, ino, then, names>>

----------------------------------------------------------------------------
(* recoverStalePublicationLock *)

\* A snapshot reads the content first and the inode after it.
RecContent(p) ==
  /\ At(p, "recContent")
  /\ \/ /\ lock = None
        /\ Goto(p, AfterRec(p, TRUE))
        /\ UNCHANGED token
     \/ /\ lock # None
        /\ token' = [token EXCEPT ![p] = owner[lock]]
        /\ Goto(p, "recStat")
  /\ ReadOnly
  /\ UNCHANGED <<role, ino, stale, then, names>>

RecStat(p) ==
  /\ At(p, "recStat")
  /\ \/ /\ lock = None
        /\ Goto(p, AfterRec(p, TRUE))
        /\ UNCHANGED <<ino, stale>>
     \/ /\ lock # None /\ Alive(token[p])
        /\ Goto(p, AfterRec(p, FALSE))
        /\ UNCHANGED <<ino, stale>>
     \/ /\ lock # None /\ ~Alive(token[p])
        /\ ino' = [ino EXCEPT ![p] = lock]
        /\ stale' = stale \ {p}
        /\ Goto(p, "recLink")
  /\ ReadOnly
  /\ UNCHANGED <<role, token, then, names>>

RecLink(p) ==
  /\ At(p, "recLink")
  /\ \/ /\ lock = None
        /\ Goto(p, AfterRec(p, TRUE))
        /\ UNCHANGED <<claim, aged, stale>>
     \/ /\ lock # None /\ claim # None
        /\ Goto(p, AfterRec(p, FALSE))
        /\ UNCHANGED <<claim, aged, stale>>
     \/ /\ lock # None /\ claim = None
        /\ claim' = lock
        /\ Touch(lock)
        /\ Goto(p, "recClaim")
  /\ UNCHANGED <<lock, cand, owner, alive, role, token, ino, then, names>>

\* Mutant: the content is not read again, although inodes are reused.
SameInode(p, i) == i # None /\ i = ino[p]

\* The claim is the lock the recoverer judged: same inode, same content.
IsBefore(p, i) == i # None /\ i = ino[p] /\ owner[i] = token[p]

RecClaim(p) ==
  /\ At(p, "recClaim")
  /\ \/ /\ IsBefore(p, claim)
        /\ stale' = stale \ {p}
        /\ Goto(p, "recConfirm")
        /\ UNCHANGED then
     \/ /\ ~IsBefore(p, claim)
        /\ then' = [then EXCEPT ![p] = AfterRec(p, FALSE)]
        /\ Goto(p, "recFinal")
        /\ UNCHANGED stale
  /\ ReadOnly
  /\ UNCHANGED <<role, token, ino, names>>

\* Both names again.  A changed change time is noticed unless the clock has
\* not ticked in between.
RecConfirm(p) ==
  /\ At(p, "recConfirm")
  /\ \/ /\ lock = None
        /\ then' = [then EXCEPT ![p] = AfterRec(p, TRUE)]
        /\ Goto(p, "recFinal")
     \/ /\ lock # None
        /\ ~(IsBefore(p, claim) /\ lock = claim /\ p \notin stale)
        /\ then' = [then EXCEPT ![p] = AfterRec(p, FALSE)]
        /\ Goto(p, "recFinal")
     \/ /\ lock # None /\ IsBefore(p, claim) /\ lock = claim
        /\ Goto(p, "recRm")
        /\ UNCHANGED then
  /\ ReadOnly
  /\ UNCHANGED <<role, token, ino, stale, names>>

\* rm without force: a lock that is gone throws out of the recovery.
RecRm(p) ==
  /\ At(p, "recRm")
  /\ \/ /\ lock # None
        /\ lock' = None
        /\ Touch(lock)
        /\ then' = [then EXCEPT ![p] = AfterRec(p, TRUE)]
     \/ /\ lock = None
        /\ then' = [then EXCEPT ![p] = "failed"]
        /\ UNCHANGED <<lock, aged, stale>>
  /\ Goto(p, "recFinal")
  /\ UNCHANGED <<claim, cand, owner, alive, role, token, ino, names>>

\* The finally block: the claim is removed if it is still the judged lock.
RecFinal(p) ==
  /\ At(p, "recFinal")
  /\ Goto(p, IF IsBefore(p, claim) THEN "recUnclaim" ELSE then[p])
  /\ ReadOnly
  /\ UNCHANGED <<role, token, ino, stale, then, names>>

RecUnclaim(p) ==
  /\ At(p, "recUnclaim")
  /\ claim' = None
  /\ Touch(claim)
  /\ Goto(p, then[p])
  /\ UNCHANGED <<lock, cand, owner, alive, role, token, ino, then, names>>

\* A repairer ends with the listed candidates of dead owners.
Sweep(p) ==
  /\ At(p, "sweep")
  /\ \/ /\ names[p] = {}
        /\ Goto(p, "done")
        /\ UNCHANGED <<cand, aged, stale, names>>
     \/ \E q \in names[p] :
          /\ names' = [names EXCEPT ![p] = @ \ {q}]
          /\ IF cand[q] # None /\ ~Alive(q)
             THEN cand' = [cand EXCEPT ![q] = None] /\ Touch(cand[q])
             ELSE UNCHANGED <<cand, aged, stale>>
          /\ UNCHANGED pc
  /\ UNCHANGED <<lock, claim, owner, alive, role, token, ino, then>>

----------------------------------------------------------------------------
(* The publication under the lock, and releasePublicationLock *)

\* The operation ends and the first release snapshot is taken: the lock must
\* be there and carry the own owner token.
RelRead(p) ==
  /\ At(p, "hold")
  /\ IF lock # None /\ owner[lock] = p
     THEN /\ ino' = [ino EXCEPT ![p] = lock]
          /\ stale' = stale \ {p}
          /\ Goto(p, "relAgain")
     ELSE /\ Goto(p, "failed")
          /\ UNCHANGED <<ino, stale>>
  /\ ReadOnly
  /\ UNCHANGED <<role, token, then, names>>

RelAgain(p) ==
  /\ At(p, "relAgain")
  /\ \/ lock = ino[p] /\ Goto(p, "relRm")
     \/ (lock # ino[p] \/ p \in stale) /\ Goto(p, "failed")
  /\ ReadOnly
  /\ UNCHANGED <<role, token, ino, stale, then, names>>

RelRm(p) ==
  /\ At(p, "relRm")
  /\ \/ /\ lock # None
        /\ lock' = None
        /\ Touch(lock)
        /\ Goto(p, "done")
     \/ /\ lock = None
        /\ Goto(p, "failed")
        /\ UNCHANGED <<lock, aged, stale>>
  /\ UNCHANGED <<claim, cand, owner, alive, role, token, ino, then, names>>

----------------------------------------------------------------------------
(* The environment *)

\* A process is killed; its files stay.
Crash(p) ==
  /\ p \in alive \cap Crashable
  /\ pc[p] \notin {"idle", "done", "failed"}
  /\ alive' = alive \ {p}
  /\ UNCHANGED <<files, local, stale>>

\* The steps of a recovery that has made a claim.
Recovering(p) ==
  pc[p] \in {"recClaim", "recConfirm", "recRm", "recFinal", "recUnclaim"}

\* Five seconds pass since the claimed inode last changed.
Age ==
  /\ Expiry # "never"
  /\ claim # None /\ claim \notin aged
  /\ Expiry = "abandoned" =>
       \A p \in alive : Recovering(p) => ino[p] # claim
  /\ aged' = aged \cup {claim}
  /\ UNCHANGED <<lock, claim, cand, owner, local, stale, alive>>

Work(p) ==
  \/ Retry(p)
  \/ ClearRead(p) \/ ClearStat(p) \/ ClearRm(p) \/ ClearCheck(p)
  \/ Look(p) \/ Create(p) \/ Link(p) \/ Check(p) \/ Verify(p)
  \/ Undo(p) \/ UndoRm(p) \/ Drop(p)
  \/ RecContent(p) \/ RecStat(p) \/ RecLink(p) \/ RecClaim(p)
  \/ RecConfirm(p) \/ RecRm(p) \/ RecFinal(p) \/ RecUnclaim(p) \/ Sweep(p)
  \/ RelRead(p) \/ RelAgain(p) \/ RelRm(p)

Next ==
  \/ \E p \in Procs :
       StartPublish(p) \/ StartRepair(p) \/ Work(p) \/ GiveUp(p) \/ Crash(p)
  \/ Age

Spec == Init /\ [][Next]_vars

\* A live process finishes the calls it has begun and polls again after a
\* wait, and time passes; nothing obliges a process to start.
Fairness == (\A p \in Procs : WF_vars(Work(p))) /\ WF_vars(Age)

----------------------------------------------------------------------------
Labels == {"idle", "clear", "clearStat", "clearRm", "clearCheck", "look",
           "create", "link", "check", "verify", "undo", "undoRm", "drop",
           "recContent", "recStat", "recLink", "recClaim", "recConfirm",
           "recRm", "recFinal", "recUnclaim", "sweep", "hold", "relAgain",
           "relRm", "wait", "done", "failed"}

\* Every variable keeps its type, and only linked inodes can be aged.
LockTypeOK ==
  /\ lock \in Inodes \cup {None}
  /\ claim \in Inodes \cup {None}
  /\ cand \in [Procs -> Inodes \cup {None}]
  /\ owner \in [Inodes -> Procs \cup {None}]
  /\ aged \subseteq Linked \ {None}
  /\ alive \subseteq Procs
  /\ pc \in [Procs -> Labels]
  /\ role \in [Procs -> {"publish", "repair"}]
  /\ token \in [Procs -> Procs \cup {None}]
  /\ ino \in [Procs -> Inodes \cup {None}]
  /\ stale \subseteq Procs
  /\ then \in [Procs -> Labels]
  /\ names \in [Procs -> SUBSET Procs]

----------------------------------------------------------------------------
(* Correctness *)

\* p owns the generated root: its acquisition was accepted and its release
\* has not unlinked the lock yet.
Holds(p) ==
  /\ p \in alive
  /\ \/ pc[p] \in {"hold", "relAgain", "relRm"}
     \/ pc[p] = "drop" /\ then[p] = "hold"

\* "The file lock still decides between processes": no two live processes
\* publish into one generated root (withPublicationFileLock).
MutualExclusion ==
  \A p, q \in Procs : Holds(p) /\ Holds(q) => p = q

\* While a process publishes, .publish.lock exists and is its own; a
\* publication therefore never works under a lock others cannot see.
HolderOwnsLock ==
  \A p \in Procs : Holds(p) => lock # None /\ owner[lock] = p

\* No step of another process takes the lock away from a live publisher.
LiveLockKept ==
  [][\A p \in Procs :
       Holds(p) /\ lock' # lock => pc[p] = "relRm" /\ pc'[p] = "done"]_vars

\* A live process that waits, is done or starts over has left neither a lock
\* nor a candidate behind: a lock without a holder always names a process
\* that backs out of it, that is gone, or whose publication failed.
NothingLeftBehind ==
  \A p \in alive :
    pc[p] \in {"idle", "wait", "clear", "done"} =>
      cand[p] = None /\ (lock # None => owner[lock] # p)

\* Neither a dead owner's lock nor an abandoned claim stops publication for
\* good: a live publisher that started acquires the lock, unless a live
\* process's publication failed while it owned the lock.
PublisherServed ==
  \A p \in Publishers :
    pc[p] = "clear" ~> \/ p \notin alive
                        \/ pc[p] \in {"hold", "done", "failed"}
                        \/ \E q \in alive : pc[q] = "failed"

=============================================================================
