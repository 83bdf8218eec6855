------------------------- MODULE MCPublicationLock -------------------------
(***************************************************************************)
(* Small instances of PublicationLock.  Where every process may take every *)
(* part, processes are interchangeable; inode numbers always are.          *)
(***************************************************************************)
EXTENDS PublicationLock, TLC

CONSTANTS killedPublisher, killedRecoverer

InodeSymmetry == Permutations(Inodes)
Symmetry      == Permutations(Procs) \cup Permutations(Inodes)

\* The root a publisher killed in its publication and a recoverer killed in
\* its recovery leave behind: a stale lock with a claim on the same inode.
\* Starting here spares the steps that lead here.
AfterTwoCrashes ==
  /\ lock \in Inodes
  /\ claim = lock
  /\ cand = [p \in Procs |-> None]
  /\ owner = [i \in Inodes |-> IF i = lock THEN killedPublisher ELSE None]
  /\ aged = {}
  /\ alive = Procs \ {killedPublisher, killedRecoverer}
  /\ pc = [p \in Procs |-> IF p = killedPublisher THEN "hold"
                           ELSE IF p = killedRecoverer THEN "recConfirm"
                           ELSE "idle"]
  /\ role = [p \in Procs |-> "publish"]
  /\ token = [p \in Procs |->
                IF p = killedRecoverer THEN killedPublisher ELSE None]
  /\ ino = [p \in Procs |-> IF p = killedRecoverer THEN lock ELSE None]
  /\ stale = {}
  /\ then = [p \in Procs |-> IF p = killedPublisher THEN "hold" ELSE "idle"]
  /\ names = [p \in Procs |-> {}]

SpecAfterTwoCrashes == AfterTwoCrashes /\ [][Next]_vars

LiveSpecAfterTwoCrashes == SpecAfterTwoCrashes /\ Fairness

=============================================================================
