----------------------- MODULE PublicationLock_proofs -----------------------
(***************************************************************************)
(* Proofs about the publication lock, for any number of processes and      *)
(* inodes, any interleaving and any kills.                                 *)
(***************************************************************************)
EXTENDS PublicationLock, TLAPS

----------------------------------------------------------------------------
(* Types, and which processes have a candidate file. *)

CandSteps == {"link", "check", "verify", "undo", "undoRm", "drop"}

\* A candidate file exists only for a process inside installPublicationLock;
\* as long as that process lives, it does exist, and it names its process.
CandidatesNamed ==
  \A p \in Procs :
    /\ cand[p] # None => pc[p] \in CandSteps /\ owner[cand[p]] = p
    /\ p \in alive /\ pc[p] \in CandSteps => cand[p] # None
    /\ then[p] \notin CandSteps

TypeInv == LockTypeOK /\ CandidatesNamed

LEMMA InitTypes == Init => TypeInv
BY LockConstants DEF Init, TypeInv, LockTypeOK, CandidatesNamed, Labels,
   Linked, CandSteps

LEMMA NextTypes == TypeInv /\ [Next]_vars => TypeInv'
<1> SUFFICES ASSUME TypeInv, [Next]_vars PROVE TypeInv'
  OBVIOUS
<1> USE LockConstants DEF TypeInv, LockTypeOK, CandidatesNamed, CandSteps,
      Labels, Linked, At, Goto, ReadOnly, files, Alive, Blocked, AfterRec
<1>1. ASSUME NEW p \in Procs, StartPublish(p) PROVE TypeInv'
  BY <1>1 DEF StartPublish
<1>2. ASSUME NEW p \in Procs, StartRepair(p) PROVE TypeInv'
  BY <1>2 DEF StartRepair
<1>3. ASSUME NEW p \in Procs, Retry(p) \/ GiveUp(p) PROVE TypeInv'
  BY <1>3 DEF Retry, GiveUp
<1>4. ASSUME NEW p \in Procs, ClearRead(p) PROVE TypeInv'
  BY <1>4 DEF ClearRead
<1>5. ASSUME NEW p \in Procs, ClearStat(p) PROVE TypeInv'
  BY <1>5 DEF ClearStat
<1>6. ASSUME NEW p \in Procs, ClearRm(p) PROVE TypeInv'
  BY <1>6 DEF ClearRm, Touch
<1>7. ASSUME NEW p \in Procs, ClearCheck(p) PROVE TypeInv'
  BY <1>7 DEF ClearCheck
<1>8. ASSUME NEW p \in Procs, Look(p) PROVE TypeInv'
  BY <1>8 DEF Look
<1>9. ASSUME NEW p \in Procs, Create(p) PROVE TypeInv'
  BY <1>9 DEF Create, Touch, Free
<1>10. ASSUME NEW p \in Procs, Link(p) PROVE TypeInv'
  BY <1>10 DEF Link, Touch
<1>11. ASSUME NEW p \in Procs, Check(p) PROVE TypeInv'
  BY <1>11 DEF Check
<1>12. ASSUME NEW p \in Procs, Verify(p) PROVE TypeInv'
  BY <1>12 DEF Verify
<1>13. ASSUME NEW p \in Procs, Undo(p) PROVE TypeInv'
  BY <1>13 DEF Undo
<1>14. ASSUME NEW p \in Procs, UndoRm(p) PROVE TypeInv'
  BY <1>14 DEF UndoRm, Touch
<1>15. ASSUME NEW p \in Procs, Drop(p) PROVE TypeInv'
  BY <1>15 DEF Drop, Touch
<1>16. ASSUME NEW p \in Procs, RecContent(p) PROVE TypeInv'
  BY <1>16 DEF RecContent
<1>17. ASSUME NEW p \in Procs, RecStat(p) PROVE TypeInv'
  BY <1>17 DEF RecStat
<1>18. ASSUME NEW p \in Procs, RecLink(p) PROVE TypeInv'
  BY <1>18 DEF RecLink, Touch
<1>19. ASSUME NEW p \in Procs, RecClaim(p) PROVE TypeInv'
  BY <1>19 DEF RecClaim
<1>20. ASSUME NEW p \in Procs, RecConfirm(p) PROVE TypeInv'
  BY <1>20 DEF RecConfirm
<1>21. ASSUME NEW p \in Procs, RecRm(p) PROVE TypeInv'
  BY <1>21 DEF RecRm, Touch
<1>22. ASSUME NEW p \in Procs, RecFinal(p) PROVE TypeInv'
  BY <1>22 DEF RecFinal
<1>23. ASSUME NEW p \in Procs, RecUnclaim(p) PROVE TypeInv'
  BY <1>23 DEF RecUnclaim, Touch
<1>24. ASSUME NEW p \in Procs, Sweep(p) PROVE TypeInv'
  BY <1>24 DEF Sweep, Touch
<1>25. ASSUME NEW p \in Procs, RelRead(p) PROVE TypeInv'
  BY <1>25 DEF RelRead
<1>26. ASSUME NEW p \in Procs, RelAgain(p) PROVE TypeInv'
  BY <1>26 DEF RelAgain
<1>27. ASSUME NEW p \in Procs, RelRm(p) PROVE TypeInv'
  BY <1>27 DEF RelRm, Touch
<1>28. ASSUME NEW p \in Procs, Crash(p) PROVE TypeInv'
  BY <1>28 DEF Crash, local
<1>29. CASE Age
  BY <1>29 DEF Age, local
<1>30. CASE UNCHANGED vars
  BY <1>30 DEF vars, local
<1> QED
  BY <1>1, <1>2, <1>3, <1>4, <1>5, <1>6, <1>7, <1>8, <1>9, <1>10, <1>11,
     <1>12, <1>13, <1>14, <1>15, <1>16, <1>17, <1>18, <1>19, <1>20, <1>21,
     <1>22, <1>23, <1>24, <1>25, <1>26, <1>27, <1>28, <1>29, <1>30
  DEF Next, Work

\* Every variable of the lock protocol keeps its type.
THEOREM TypeCorrect == Spec => []LockTypeOK
<1>1. TypeInv => LockTypeOK
  BY DEF TypeInv
<1> QED
  BY <1>1, InitTypes, NextTypes, PTL DEF Spec

----------------------------------------------------------------------------
(* What a process leaves behind.                                           *)

\* Where a clean-up leads.
ThenTargets ==
  \A p \in Procs :
    /\ pc[p] \in {"undo", "undoRm"} => then[p] \in {"recContent", "failed"}
    /\ pc[p] = "drop" => then[p] \in {"recContent", "failed", "hold"}
    /\ pc[p] \in {"recFinal", "recUnclaim"} =>
         then[p] \in {"sweep", "clear", "wait", "failed"}

\* While a lock names a live process, that process backs out of it, publishes
\* under it, or has failed.
LockAccounted ==
  \A p \in alive : lock # None /\ owner[lock] = p =>
    \/ pc[p] \in {"check", "verify", "undo", "undoRm"} /\ lock = cand[p]
    \/ pc[p] = "drop" /\ then[p] = "hold"
    \/ pc[p] \in {"hold", "relAgain", "relRm", "failed"}

LeftInv == TypeInv /\ ThenTargets /\ LockAccounted

LEMMA InitLeft == Init => LeftInv
BY InitTypes, LockConstants DEF Init, LeftInv, ThenTargets, LockAccounted

LEMMA NextLeft == LeftInv /\ [Next]_vars => LeftInv'
<1> SUFFICES ASSUME LeftInv, [Next]_vars PROVE LeftInv'
  OBVIOUS
<1>1. TypeInv'
  BY NextTypes DEF LeftInv
<1> USE LockConstants, <1>1
    DEF LeftInv, TypeInv, LockTypeOK, CandidatesNamed, CandSteps, Labels,
        ThenTargets, LockAccounted, Linked, At, Goto, ReadOnly, files, Alive,
        Blocked, AfterRec
<1>2. ASSUME NEW p \in Procs, StartPublish(p) \/ StartRepair(p)
      PROVE  LeftInv'
  BY <1>2 DEF StartPublish, StartRepair
<1>3. ASSUME NEW p \in Procs, Retry(p) \/ GiveUp(p) PROVE LeftInv'
  BY <1>3 DEF Retry, GiveUp
<1>4. ASSUME NEW p \in Procs, ClearRead(p) PROVE LeftInv'
  BY <1>4 DEF ClearRead
<1>5. ASSUME NEW p \in Procs, ClearStat(p) \/ ClearCheck(p) PROVE LeftInv'
  BY <1>5 DEF ClearStat, ClearCheck
<1>6. ASSUME NEW p \in Procs, ClearRm(p) PROVE LeftInv'
  BY <1>6 DEF ClearRm, Touch
<1>7. ASSUME NEW p \in Procs, Look(p) PROVE LeftInv'
  BY <1>7 DEF Look
<1>8. ASSUME NEW p \in Procs, Create(p) PROVE LeftInv'
  BY <1>8 DEF Create, Touch, Free
<1>9. ASSUME NEW p \in Procs, Link(p) PROVE LeftInv'
  BY <1>9 DEF Link, Touch
<1>10. ASSUME NEW p \in Procs, Check(p) PROVE LeftInv'
  BY <1>10 DEF Check
<1>11. ASSUME NEW p \in Procs, Verify(p) PROVE LeftInv'
  BY <1>11 DEF Verify
<1>12. ASSUME NEW p \in Procs, Undo(p) PROVE LeftInv'
  BY <1>12 DEF Undo
<1>13. ASSUME NEW p \in Procs, UndoRm(p) PROVE LeftInv'
  BY <1>13 DEF UndoRm, Touch
<1>14. ASSUME NEW p \in Procs, Drop(p) PROVE LeftInv'
  BY <1>14 DEF Drop, Touch
<1>15. ASSUME NEW p \in Procs, RecContent(p) PROVE LeftInv'
  BY <1>15 DEF RecContent
<1>16. ASSUME NEW p \in Procs, RecStat(p) PROVE LeftInv'
  BY <1>16 DEF RecStat
<1>17. ASSUME NEW p \in Procs, RecLink(p) PROVE LeftInv'
  BY <1>17 DEF RecLink, Touch
<1>18. ASSUME NEW p \in Procs, RecClaim(p) PROVE LeftInv'
  BY <1>18 DEF RecClaim
<1>19. ASSUME NEW p \in Procs, RecConfirm(p) PROVE LeftInv'
  BY <1>19 DEF RecConfirm
<1>20. ASSUME NEW p \in Procs, RecRm(p) PROVE LeftInv'
  BY <1>20 DEF RecRm, Touch
<1>21. ASSUME NEW p \in Procs, RecFinal(p) PROVE LeftInv'
  BY <1>21 DEF RecFinal
<1>22. ASSUME NEW p \in Procs, RecUnclaim(p) PROVE LeftInv'
  BY <1>22 DEF RecUnclaim, Touch
<1>23. ASSUME NEW p \in Procs, Sweep(p) PROVE LeftInv'
  BY <1>23 DEF Sweep, Touch
<1>24. ASSUME NEW p \in Procs, RelRead(p) PROVE LeftInv'
  BY <1>24 DEF RelRead
<1>25. ASSUME NEW p \in Procs, RelAgain(p) PROVE LeftInv'
  BY <1>25 DEF RelAgain
<1>26. ASSUME NEW p \in Procs, RelRm(p) PROVE LeftInv'
  BY <1>26 DEF RelRm, Touch
<1>27. ASSUME NEW p \in Procs, Crash(p) PROVE LeftInv'
  BY <1>27 DEF Crash, local
<1>28. CASE Age
  BY <1>28 DEF Age, local
<1>29. CASE UNCHANGED vars
  BY <1>29 DEF vars, local
<1> QED
  BY <1>2, <1>3, <1>4, <1>5, <1>6, <1>7, <1>8, <1>9, <1>10, <1>11, <1>12,
     <1>13, <1>14, <1>15, <1>16, <1>17, <1>18, <1>19, <1>20, <1>21, <1>22,
     <1>23, <1>24, <1>25, <1>26, <1>27, <1>28, <1>29
  DEF Next, Work

\* A live process that waits, is done or starts over has left neither a lock
\* nor a candidate behind, however old a recovery claim grows.
THEOREM LeavesNothing == Spec => []NothingLeftBehind
<1>1. LeftInv => NothingLeftBehind
  BY DEF LeftInv, TypeInv, LockTypeOK, CandidatesNamed, CandSteps,
     LockAccounted, NothingLeftBehind
<1> QED
  BY <1>1, InitLeft, NextLeft, PTL DEF Spec

----------------------------------------------------------------------------
(* Mutual exclusion.  While a recovery claim cannot grow old, or one       *)
(* process at most is killed, the lock leaves the hands of a live owner    *)
(* only through that owner: a recovery unlinks only a lock whose owner it  *)
(* has found dead, and recoveries of a dead owner's lock exclude each      *)
(* other.                                                                  *)

\* One process at most is killed, and a live one is never paused for so long
\* that its claim expires.
OneKill == Expiry = "abandoned" /\ \A p, q \in Crashable : p = q

ClaimsHold == Expiry = "never" \/ OneKill

\* Between its link and its acceptance a process's candidate is the lock.
OwnLock ==
  \A p \in alive :
    \/ pc[p] \in {"check", "verify", "undoRm"}
    \/ pc[p] = "drop" /\ then[p] = "hold"
    => lock = cand[p]

\* The owner a recoverer has judged is dead, and stays so.
JudgedDead ==
  \A p \in Procs : pc[p] = "recLink" \/ Recovering(p) => token[p] \notin alive

OneRecovery ==
  /\ \A p \in Procs : Recovering(p) => claim # None
  /\ \A p, q \in Procs : Recovering(p) /\ Recovering(q) => p = q

RemovesDead ==
  \A p \in Procs : pc[p] = "recRm" => lock # None /\ owner[lock] \notin alive

NothingAged ==
  /\ aged = {}
  /\ \A p \in Procs : pc[p] \notin {"clearStat", "clearRm", "clearCheck"}

\* The lock of a dead owner, which a recovery can unlink.
DeadLock == lock # None /\ owner[lock] \notin alive

\* As long as nobody has been killed, or the dead owner's lock is there, a
\* claim is the work of a live recoverer.  Once that lock is gone nothing is
\* left to unlink, whatever claims are still made and expire.
Trusted == Expiry = "never" \/ alive = Procs \/ DeadLock

Judges(p) == pc[p] = "recLink" \/ Recovering(p)

LiveRecoverers ==
  Expiry = "abandoned" =>
    /\ Procs \ alive \subseteq Crashable
    /\ lock # None => owner[lock] \in Procs
    /\ \A p \in Procs :
         /\ pc[p] = "recStat" => token[p] \in Procs
         /\ Judges(p) => p \in alive /\ token[p] \in Procs
         /\ Judges(p) /\ DeadLock => ino[p] = lock /\ token[p] = owner[lock]
    /\ Trusted /\ claim # None =>
         \E p \in Procs : Recovering(p) /\ ino[p] = claim

LockInv ==
  /\ TypeInv /\ ThenTargets /\ OwnLock /\ HolderOwnsLock
  /\ JudgedDead /\ RemovesDead /\ LiveRecoverers
  /\ Trusted => OneRecovery /\ NothingAged

LEMMA InitLockInv == Init => LockInv
BY InitTypes, LockConstants
DEF Init, LockInv, ThenTargets, OwnLock, HolderOwnsLock, Holds, JudgedDead,
    OneRecovery, RemovesDead, NothingAged, Recovering, LiveRecoverers, Judges,
    DeadLock, Trusted

LEMMA NobodyKilled ==
  ASSUME alive \subseteq Procs, \A p \in Procs : p \in alive
  PROVE  alive = Procs
<1>1. \A p : p \in alive <=> p \in Procs
  OBVIOUS
<1> QED
  BY <1>1

LEMMA NextLockInv ==
  ASSUME ClaimsHold, LockInv, [Next]_vars PROVE LockInv'
<1>1. TypeInv'
  BY NextTypes DEF LockInv
<1> USE LockConstants, <1>1
    DEF LockInv, TypeInv, LockTypeOK, CandidatesNamed, CandSteps, Labels,
        ThenTargets, OwnLock, HolderOwnsLock, Holds, JudgedDead, OneRecovery,
        RemovesDead, NothingAged, Recovering, ClaimsHold, OneKill,
        LiveRecoverers, Judges, DeadLock, Trusted,
        Linked, At, Goto, ReadOnly, files, Alive, Blocked, AfterRec, IsBefore
<1>2. ASSUME NEW p \in Procs, StartPublish(p) PROVE LockInv'
  BY <1>2 DEF StartPublish
<1>3. ASSUME NEW p \in Procs, StartRepair(p) PROVE LockInv'
  BY <1>3 DEF StartRepair
<1>4. ASSUME NEW p \in Procs, Retry(p) PROVE LockInv'
  BY <1>4 DEF Retry
<1>5. ASSUME NEW p \in Procs, GiveUp(p) PROVE LockInv'
  BY <1>5 DEF GiveUp
<1>6. ASSUME NEW p \in Procs, ClearRead(p) PROVE LockInv'
  BY <1>6 DEF ClearRead
<1>7. ASSUME NEW p \in Procs, Look(p) PROVE LockInv'
  BY <1>7 DEF Look
<1>8. ASSUME NEW p \in Procs, Create(p) PROVE LockInv'
  BY <1>8 DEF Create, Touch, Free
<1>9. ASSUME NEW p \in Procs, Link(p) PROVE LockInv'
  BY <1>9 DEF Link, Touch
<1>10. ASSUME NEW p \in Procs, Check(p) PROVE LockInv'
  BY <1>10 DEF Check
<1>11. ASSUME NEW p \in Procs, Verify(p) PROVE LockInv'
  BY <1>11 DEF Verify
<1>12. ASSUME NEW p \in Procs, Undo(p) PROVE LockInv'
  BY <1>12 DEF Undo
<1>13. ASSUME NEW p \in Procs, UndoRm(p) PROVE LockInv'
  BY <1>13 DEF UndoRm, Touch
<1>14. ASSUME NEW p \in Procs, Drop(p) PROVE LockInv'
  BY <1>14 DEF Drop, Touch
<1>15. ASSUME NEW p \in Procs, RecContent(p) PROVE LockInv'
  BY <1>15 DEF RecContent
<1>16. ASSUME NEW p \in Procs, RecStat(p) PROVE LockInv'
  BY <1>16 DEF RecStat
<1>17. ASSUME NEW p \in Procs, RecLink(p) PROVE LockInv'
  BY <1>17 DEF RecLink, Touch
<1>18. ASSUME NEW p \in Procs, RecClaim(p) PROVE LockInv'
  BY <1>18 DEF RecClaim
<1>19. ASSUME NEW p \in Procs, RecConfirm(p) PROVE LockInv'
  BY <1>19 DEF RecConfirm
<1>20. ASSUME NEW p \in Procs, RecRm(p) PROVE LockInv'
  BY <1>20 DEF RecRm, Touch
<1>21. ASSUME NEW p \in Procs, RecFinal(p) PROVE LockInv'
  BY <1>21 DEF RecFinal
<1>22. ASSUME NEW p \in Procs, RecUnclaim(p) PROVE LockInv'
  BY <1>22 DEF RecUnclaim, Touch
<1>23. ASSUME NEW p \in Procs, Sweep(p) PROVE LockInv'
  BY <1>23 DEF Sweep, Touch
<1>24. ASSUME NEW p \in Procs, RelRead(p) PROVE LockInv'
  BY <1>24 DEF RelRead
<1>25. ASSUME NEW p \in Procs, RelAgain(p) PROVE LockInv'
  BY <1>25 DEF RelAgain
<1>26. ASSUME NEW p \in Procs, RelRm(p) PROVE LockInv'
  BY <1>26 DEF RelRm, Touch
<1>27. ASSUME NEW p \in Procs, Crash(p) PROVE LockInv'
  <2>1. /\ p \in alive \cap Crashable /\ alive' = alive \ {p}
        /\ UNCHANGED <<lock, claim, cand, owner, aged, pc, role, token, ino,
                       then, names, stale>>
    BY <1>27 DEF Crash, local
  <2>2. OneKill => alive = Procs
    <3>1. OneKill => \A q \in Procs : q \in alive
      BY <2>1
    <3> QED
      BY <3>1, NobodyKilled
  <2>3. OneKill => \A q \in Procs : ~Judges(q)
    BY <2>2
  <2>4. Trusted
    BY <2>2
  <2>5. OwnLock' /\ HolderOwnsLock' /\ JudgedDead' /\ RemovesDead'
    BY <2>1
  <2>6. LiveRecoverers'
    BY <2>1, <2>2, <2>3, <2>4
  <2>7. ThenTargets' /\ OneRecovery' /\ NothingAged'
    BY <2>1, <2>4
  <2> QED
    BY <2>5, <2>6, <2>7
<1>28. ASSUME NEW p \in Procs, ClearStat(p) \/ ClearRm(p) \/ ClearCheck(p)
     PROVE LockInv'
  BY <1>28 DEF ClearStat, ClearRm, ClearCheck
<1>29. CASE Age
  <2>1. /\ Expiry = "abandoned" /\ claim # None
        /\ \A p \in alive : Recovering(p) => ino[p] # claim
        /\ UNCHANGED <<lock, claim, cand, owner, pc, role, token, ino, then,
                       names, stale, alive>>
    BY <1>29 DEF Age, local
  <2>2. ~Trusted
    BY <2>1
  <2>3. ~Trusted'
    BY <2>1, <2>2
  <2> QED
    BY <2>1, <2>2, <2>3
<1>30. CASE UNCHANGED vars
  BY <1>30 DEF vars, local
<1> QED
  BY <1>2, <1>3, <1>4, <1>5, <1>6, <1>7, <1>8, <1>9, <1>10, <1>11, <1>12,
     <1>13, <1>14, <1>15, <1>16, <1>17, <1>18, <1>19, <1>20, <1>21,
     <1>22, <1>23, <1>24, <1>25, <1>26, <1>27, <1>28, <1>29, <1>30
  DEF Next, Work

LEMMA LockInvAlways == ASSUME ClaimsHold PROVE Spec => []LockInv
<1>1. LockInv /\ [Next]_vars => LockInv'
  BY NextLockInv
<1> QED
  BY <1>1, InitLockInv, PTL DEF Spec

\* Two holders would both own the one lock.
LEMMA OwnersExclude == ASSUME LockInv PROVE MutualExclusion
BY DEF LockInv, HolderOwnsLock, MutualExclusion

\* While a process publishes, .publish.lock exists and names it, if one
\* process at most is killed or no recovery claim grows old.
THEOREM HoldersOwn == ASSUME ClaimsHold PROVE Spec => []HolderOwnsLock
<1>1. LockInv => HolderOwnsLock
  BY DEF LockInv
<1> QED
  BY <1>1, LockInvAlways, PTL

\* No two live processes publish into one generated root, if one
\* process at most is killed or no recovery claim grows old.
THEOREM LockExcludes == ASSUME ClaimsHold PROVE Spec => []MutualExclusion
<1>1. LockInv => MutualExclusion
  BY OwnersExclude
<1> QED
  BY <1>1, LockInvAlways, PTL

\* A step that changes the lock while p holds it is p's own release.
LEMMA OnlyOwnerReleases ==
  ASSUME LockInv, Next, NEW p \in Procs, Holds(p), lock' # lock
  PROVE  pc[p] = "relRm" /\ pc'[p] = "done"
<1> USE DEF LockInv, TypeInv, LockTypeOK, CandidatesNamed, CandSteps, OwnLock,
        HolderOwnsLock, RemovesDead, Holds, At, Goto
<1>1. lock # None /\ owner[lock] = p /\ p \in alive
  OBVIOUS
<1>2. PICK q \in Procs : UndoRm(q) \/ RecRm(q) \/ RelRm(q)
  BY <1>1 DEF Next, Work, StartPublish, StartRepair, Retry, GiveUp, ClearRead,
     ClearStat, ClearRm, ClearCheck, Look, Create, Link, Check, Verify, Undo,
     Drop, RecContent, RecStat, RecLink, RecClaim, RecConfirm, RecFinal,
     RecUnclaim, Sweep, RelRead, RelAgain, Crash, Age, ReadOnly, files
<1>3. ~UndoRm(q)
  BY <1>1 DEF UndoRm
<1>4. ~RecRm(q)
  BY <1>1 DEF RecRm
<1>5. RelRm(q)
  BY <1>2, <1>3, <1>4
<1>6. q = p
  BY <1>1, <1>5 DEF RelRm
<1> QED
  BY <1>1, <1>5, <1>6 DEF RelRm

\* No step of another process takes the lock away from a live publisher, if
\* one process at most is killed or no recovery claim grows old.
THEOREM LockKept == ASSUME ClaimsHold PROVE Spec => LiveLockKept
<1>1. LockInv /\ [Next]_vars =>
        [\A p \in Procs :
           Holds(p) /\ lock' # lock => pc[p] = "relRm" /\ pc'[p] = "done"]_vars
  BY OnlyOwnerReleases
<1> QED
  BY <1>1, LockInvAlways, PTL DEF Spec, LiveLockKept

=============================================================================
