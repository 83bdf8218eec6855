---------------------- MODULE EnsureLifecycle_proofs ----------------------
(***************************************************************************)
(* Proofs about the generation lifecycle, for any inputs, any number of    *)
(* runs and of attempts, any edits and any conduct of the other process.   *)
(***************************************************************************)
EXTENDS EnsureLifecycle, SequenceTheorems, TLAPS

----------------------------------------------------------------------------
(* Types.  What a step takes for a generation was put there by the steps   *)
(* before it, and the lock under which a run publishes is its own.         *)

Statuses == {"queued", "behind", "running", "reused", "published", "failed"}

\* The part of the types that the promise maps and the queue make up.
CallsOK ==
  /\ runs \in Seq(Statuses)
  /\ Len(runs) <= MaxRuns
  /\ active \in 0..Len(runs)
  /\ once \in 0..Len(runs)

\* The part that the disk and the caches make up.
DataOK ==
  /\ inputs \in Gens
  /\ selected \in Gens \cup {None}
  /\ lock \in {"free", "own", "live", "dead"}
  /\ journal \in [gen : Gens, prior : Gens \cup {None}] \cup {None}
  /\ other \in Gens \cup {None}
  /\ cache \in Gens \cup {None}
  /\ published \in Gens \cup {None}
  /\ matching \subseteq {"cache", "published", "listed", "quiet"}

\* The part that the run under way makes up.
LocalOK ==
  /\ at \in [step : Steps, mode : Modes]
  /\ again \in BOOLEAN
  /\ attempt \in 0..(Attempts - 1)
  /\ receipt \in Gens \cup {None}
  /\ got \in Gens \cup {None}
  /\ plan \in Gens \cup {None}

Grounded ==
  /\ at.step \in {"stamp", "loaded", "lock"} => got \in Gens
  /\ at.step = "lock" \/ at.mode \in {"install", "commit"} => plan \in Gens
  /\ at.mode \in {"install", "commit"} =>
       lock = "own" /\ journal \in [gen : Gens, prior : Gens \cup {None}]
  /\ "cache" \in matching => cache \in Gens
  /\ lock = "live" => other \in Gens

TypeInv == CallsOK /\ DataOK /\ LocalOK /\ Grounded

LEMMA IdleTypes == Idle \in [step : Steps, mode : Modes]
BY DEF Idle, Steps, Modes

LEMMA NoAttempt == 0 \in 0..(Attempts - 1)
BY LifecycleConstants

LEMMA NextAttempt ==
  ASSUME NEW n \in 0..(Attempts - 1), n # Attempts - 1
  PROVE  n + 1 \in 0..(Attempts - 1)
BY LifecycleConstants

LEMMA TypesOfInv == TypeInv <=> LifecycleTypeOK /\ Grounded
BY DEF TypeInv, LifecycleTypeOK, CallsOK, DataOK, LocalOK, Statuses

LEMMA InitTypes == Init => TypeInv
<1> SUFFICES ASSUME Init PROVE TypeInv
  OBVIOUS
<1>1. CallsOK
  <2>1. runs = <<>> /\ active = 0 /\ once = 0
    BY DEF Init
  <2> QED
    BY <2>1, EmptySeq, LifecycleConstants DEF CallsOK
<1>2. DataOK
  BY DEF Init, DataOK
<1>3. LocalOK
  BY IdleTypes, NoAttempt DEF Init, LocalOK
<1>4. Grounded
  BY DEF Init, Grounded, Idle
<1> QED
  BY <1>1, <1>2, <1>3, <1>4 DEF TypeInv

\* A run that settles keeps the queue and the maps well formed, and leaves
\* no run under way.
LEMMA SettleTypes ==
  ASSUME CallsOK, NEW r \in DOMAIN runs, NEW s \in Statuses, Settle(r, s)
  PROVE  CallsOK' /\ LocalOK' /\ at' = Idle /\ DOMAIN runs' = DOMAIN runs
<1>1. runs \in Seq(Statuses) /\ r \in 1..Len(runs)
  BY DEF CallsOK
<1>2. runs' = [runs EXCEPT ![r] = s]
  BY DEF Settle
<1>3. runs' \in Seq(Statuses) /\ Len(runs') = Len(runs)
  BY <1>1, <1>2, ExceptSeq
<1>4. active' \in 0..Len(runs') /\ once' \in 0..Len(runs')
  BY <1>3 DEF Settle, CallsOK
<1>5. CallsOK'
  BY <1>3, <1>4 DEF CallsOK
<1>6. LocalOK' /\ at' = Idle
  BY IdleTypes, NoAttempt DEF Settle, LocalOK
<1> QED
  BY <1>1, <1>2, <1>5, <1>6

\* A run that is queued keeps the queue well formed and moves no other.
LEMMA EnqueueTypes ==
  ASSUME CallsOK, Enqueue
  PROVE  /\ runs' \in Seq(Statuses) /\ Len(runs') <= MaxRuns
         /\ Len(runs') = Len(runs) + 1
         /\ \A r \in DOMAIN runs : runs'[r] = runs[r]
<1> DEFINE s == IF Len(runs) > 0 /\ ~Settled(Len(runs))
                THEN "behind" ELSE "queued"
<1>1. runs' = Append(runs, s) /\ Len(runs) < MaxRuns
  BY DEF Enqueue
<1>2. runs \in Seq(Statuses) /\ s \in Statuses
  BY DEF CallsOK, Statuses
<1> HIDE DEF s
<1> QED
  BY <1>1, <1>2, AppendProperties, LifecycleConstants

LEMMA NextTypes == TypeInv /\ [Next]_vars => TypeInv'
<1> SUFFICES ASSUME TypeInv, [Next]_vars PROVE TypeInv'
  OBVIOUS
<1> USE LifecycleConstants
<1>0. CallsOK /\ DataOK /\ LocalOK /\ Grounded
  BY DEF TypeInv
<1>1. CASE Ensure
  <2>1. CallsOK'
    BY <1>0, <1>1, EnqueueTypes DEF Ensure, CallsOK
  <2> QED
    BY <1>0, <1>1, <2>1 DEF Ensure, TypeInv, DataOK, LocalOK, Grounded,
                            root, known, local
<1>2. CASE EnsureOnce
  <2>1. CallsOK'
    BY <1>0, <1>2, EnqueueTypes DEF EnsureOnce, CallsOK
  <2> QED
    BY <1>0, <1>2, <2>1 DEF EnsureOnce, TypeInv, DataOK, LocalOK, Grounded,
                            root, known, local
<1>3. CASE Regenerate
  <2>1. CallsOK'
    BY <1>0, <1>3, EnqueueTypes DEF Regenerate, CallsOK
  <2> QED
    BY <1>0, <1>3, <2>1 DEF Regenerate, TypeInv, DataOK, LocalOK, Grounded,
                            root, known, local
<1>4. ASSUME NEW r \in DOMAIN runs, Judge(r) PROVE TypeInv'
  BY <1>0, <1>4 DEF Judge, TypeInv, CallsOK, DataOK, LocalOK, Grounded,
     In, Goto, Onward, Turn, Steps, Modes, root, known, calls
<1>5. ASSUME NEW r \in DOMAIN runs, List(r) PROVE TypeInv'
  BY <1>0, <1>5 DEF List, TypeInv, CallsOK, DataOK, LocalOK, Grounded,
     In, Goto, Onward, Turn, Steps, Modes, root, known, calls
<1>6. ASSUME NEW r \in DOMAIN runs, Read(r) PROVE TypeInv'
  BY <1>0, <1>6 DEF Read, TypeInv, CallsOK, DataOK, LocalOK, Grounded,
     In, Goto, Onward, Turn, Steps, Modes, root, known, calls
<1>7. ASSUME NEW r \in DOMAIN runs, Stamp(r) PROVE TypeInv'
  BY <1>0, <1>7 DEF Stamp, TypeInv, CallsOK, DataOK, LocalOK, Grounded,
     In, Goto, Onward, Turn, Steps, Modes, root, known, calls
<1>8. ASSUME NEW r \in DOMAIN runs, Plan(r) PROVE TypeInv'
  BY <1>0, <1>8 DEF Plan, TypeInv, CallsOK, DataOK, LocalOK, Grounded,
     In, Goto, Onward, Turn, Steps, Modes, root, known, calls
<1>9. ASSUME NEW r \in DOMAIN runs, Start(r) PROVE TypeInv'
  <2>1. CASE runs[r] = "behind" /\ runs[r - 1] = "failed"
    <3>1. /\ Settle(r, "failed")
          /\ UNCHANGED <<matching, inputs, root, other, known>>
      BY <1>9, <2>1 DEF Start
    <3>2. CallsOK' /\ LocalOK' /\ at' = Idle
      BY <1>0, <3>1, SettleTypes DEF Statuses
    <3> QED
      BY <1>0, <3>1, <3>2 DEF TypeInv, DataOK, Grounded, Idle, root, known
  <2>2. CASE ~(runs[r] = "behind" /\ runs[r - 1] = "failed")
    <3>1. /\ runs' = [runs EXCEPT ![r] = "running"]
          /\ matching' = matching \cup {"quiet"}
          /\ at' = [step |-> "judge", mode |-> "judge"]
          /\ UNCHANGED <<active, once, again, attempt, receipt, got, plan>>
          /\ UNCHANGED <<inputs, root, other, known>>
      BY <1>9, <2>2 DEF Start, Goto
    <3>2. /\ runs \in Seq(Statuses) /\ r \in 1..Len(runs)
          /\ "running" \in Statuses
      BY <1>0 DEF CallsOK, Statuses
    <3>3. runs' \in Seq(Statuses) /\ Len(runs') = Len(runs)
      BY <3>1, <3>2, ExceptSeq
    <3>4. CallsOK'
      BY <1>0, <3>1, <3>3 DEF CallsOK
    <3> QED
      BY <1>0, <3>1, <3>4 DEF TypeInv, DataOK, LocalOK, Grounded, Steps, Modes,
                              root, known
  <2> QED
    BY <2>1, <2>2
<1>10. ASSUME NEW r \in DOMAIN runs, Wait(r) PROVE TypeInv'
  <2>1. ASSUME Settle(r, "failed") PROVE TypeInv'
    <3>1. CallsOK' /\ LocalOK' /\ at' = Idle
      BY <1>0, <2>1, SettleTypes DEF Statuses
    <3> QED
      BY <1>0, <1>10, <3>1 DEF Wait, TypeInv, DataOK, Grounded, In, Turn,
                              RootChanges, Idle, root, known
  <2>2. ASSUME ~Settle(r, "failed") PROVE TypeInv'
    <3>1. attempt' \in 0..(Attempts - 1)
      BY <1>0, <1>10, <2>2, NextAttempt DEF Wait, LocalOK
    <3> QED
      BY <1>0, <1>10, <2>2, <3>1 DEF Wait, TypeInv, CallsOK, DataOK, LocalOK,
         Grounded, root, known, calls
  <2> QED
    BY <2>1, <2>2
<1>11. ASSUME NEW r \in DOMAIN runs, Fast(r) PROVE TypeInv'
  <2>1. ASSUME Settle(r, "reused") PROVE TypeInv'
    <3>1. CallsOK' /\ LocalOK' /\ at' = Idle
      BY <1>0, <2>1, SettleTypes DEF Statuses
    <3> QED
      BY <1>0, <1>11, <3>1 DEF Fast, TypeInv, DataOK, Grounded, In, Turn,
                              RootChanges, Idle, root, known
  <2>2. ASSUME ~Settle(r, "reused") PROVE TypeInv'
    BY <1>0, <1>11, <2>2 DEF Fast, TypeInv, CallsOK, DataOK, LocalOK,
       Grounded, In, Goto, Onward, Turn, RootChanges, Steps, Modes, root,
       known, calls
  <2> QED
    BY <2>1, <2>2
<1>12. ASSUME NEW r \in DOMAIN runs, Verify(r) PROVE TypeInv'
  <2>1. ASSUME Settle(r, "reused") PROVE TypeInv'
    <3>1. CallsOK' /\ LocalOK' /\ at' = Idle
      BY <1>0, <2>1, SettleTypes DEF Statuses
    <3> QED
      BY <1>0, <1>12, <3>1 DEF Verify, TypeInv, DataOK, Grounded, In, Turn,
                              RootChanges, Idle, root, known
  <2>2. ASSUME Settle(r, "failed") PROVE TypeInv'
    <3>1. CallsOK' /\ LocalOK' /\ at' = Idle
      BY <1>0, <2>2, SettleTypes DEF Statuses
    <3> QED
      BY <1>0, <1>12, <3>1 DEF Verify, TypeInv, DataOK, Grounded, In, Turn,
                              RootChanges, Idle, root, known
  <2>3. ASSUME ~Settle(r, "reused"), ~Settle(r, "failed") PROVE TypeInv'
    <3> DEFINE Going  == Goto("read", "generate") /\ Onward
               Anew   == /\ Goto("judge", "judge")
                         /\ again' = (lock # "live")
                         /\ attempt' = IF lock = "live" THEN attempt + 1
                                                         ELSE attempt
                         /\ UNCHANGED <<calls, receipt, got, plan>>
    <3>1. /\ UNCHANGED <<inputs, root, other, cache>>
          /\ UNCHANGED <<published, matching>>
          /\ \/ Going
             \/ Anew /\ (lock = "live" => attempt # Attempts - 1)
      <4>1. CASE lock = "live" /\ attempt = Attempts - 1
        BY <1>12, <2>3, <4>1, Zenon DEF Verify
      <4>2. CASE lock # "live" /\ again
        BY <1>12, <2>3, <4>2, Zenon DEF Verify
      <4>3. CASE ~ \/ lock = "live" /\ attempt = Attempts - 1
                   \/ lock # "live" /\ again
        BY <1>12, <2>3, <4>3, Zenon DEF Verify
      <4> QED
        BY <4>1, <4>2, <4>3
    <3>2. CASE Going
      BY <1>0, <3>1, <3>2 DEF TypeInv, CallsOK, DataOK, LocalOK, Grounded,
         Goto, Onward, Steps, Modes, root, known, calls
    <3>3. CASE Anew /\ (lock = "live" => attempt # Attempts - 1)
      <4>1. attempt' \in 0..(Attempts - 1)
        BY <1>0, <3>3, NextAttempt DEF LocalOK
      <4>2. again' \in BOOLEAN
        BY <3>3
      <4>3. at' = [step |-> "judge", mode |-> "judge"]
            /\ UNCHANGED <<calls, receipt, got, plan>>
        BY <3>3 DEF Goto
      <4> HIDE DEF Anew
      <4> QED
        BY <1>0, <3>1, <4>1, <4>2, <4>3 DEF TypeInv, CallsOK, DataOK,
           LocalOK, Grounded, Steps, Modes, root, known, calls
    <3> QED
      BY <3>1, <3>2, <3>3
  <2> QED
    BY <2>1, <2>2, <2>3
<1>13. ASSUME NEW r \in DOMAIN runs, Lock(r) PROVE TypeInv'
  <2>1. ASSUME Settle(r, "failed") PROVE TypeInv'
    <3>1. CallsOK' /\ LocalOK' /\ at' = Idle
      BY <1>0, <2>1, SettleTypes DEF Statuses
    <3> QED
      BY <1>0, <1>13, <3>1 DEF Lock, TypeInv, DataOK, Grounded, In, Turn,
                              RootChanges, Idle, root, known
  <2>2. ASSUME Settle(r, "published") PROVE TypeInv'
    <3>1. CallsOK' /\ LocalOK' /\ at' = Idle
      BY <1>0, <2>2, SettleTypes DEF Statuses
    <3> QED
      BY <1>0, <1>13, <3>1 DEF Lock, TypeInv, DataOK, Grounded, In, Turn,
                              RootChanges, Idle, root, known
  <2>3. ASSUME ~Settle(r, "failed"), ~Settle(r, "published") PROVE TypeInv'
    <3>1. /\ at.step = "lock"
          /\ lock' = "own"
          /\ journal' = IF journal = None
                        THEN [gen |-> plan, prior |-> selected] ELSE journal
          /\ \/ at' = [step |-> "read", mode |-> "commit"]
             \/ at' = [step |-> "read", mode |-> "install"]
          /\ matching' = matching \ {"published", "listed"}
          /\ UNCHANGED <<calls, again, attempt, receipt, got, plan>>
          /\ UNCHANGED <<inputs, selected, other, known>>
      BY <1>13, <2>3 DEF Lock, Goto, Onward, RootChanges
    <3>2. journal' \in [gen : Gens, prior : Gens \cup {None}]
      BY <1>0, <3>1 DEF DataOK, Grounded
    <3> QED
      BY <1>0, <3>1, <3>2 DEF TypeInv, CallsOK, DataOK, LocalOK, Grounded,
         Steps, Modes, root, known, calls
  <2> QED
    BY <2>1, <2>2, <2>3
<1>14. ASSUME NEW r \in DOMAIN runs, Install(r) PROVE TypeInv'
  <2>1. ASSUME Settle(r, "failed") PROVE TypeInv'
    <3>1. CallsOK' /\ LocalOK' /\ at' = Idle
      BY <1>0, <2>1, SettleTypes DEF Statuses
    <3> QED
      BY <1>0, <1>14, <3>1 DEF Install, TypeInv, DataOK, Grounded, In, Turn,
                              RootChanges, Idle, root, known
  <2>2. ASSUME ~Settle(r, "failed") PROVE TypeInv'
    BY <1>0, <1>14, <2>2 DEF Install, TypeInv, CallsOK, DataOK, LocalOK,
       Grounded, In, Goto, Onward, Turn, RootChanges, Steps, Modes, root,
       known, calls
  <2> QED
    BY <2>1, <2>2
<1>15. ASSUME NEW r \in DOMAIN runs, Commit(r) PROVE TypeInv'
  <2>1. ASSUME Settle(r, "published") PROVE TypeInv'
    <3>1. CallsOK' /\ LocalOK' /\ at' = Idle
      BY <1>0, <2>1, SettleTypes DEF Statuses
    <3> QED
      BY <1>0, <1>15, <3>1 DEF Commit, TypeInv, DataOK, Grounded, In, Turn,
                              RootChanges, Idle, root, known
  <2>2. ASSUME Settle(r, "failed") PROVE TypeInv'
    <3>1. CallsOK' /\ LocalOK' /\ at' = Idle
      BY <1>0, <2>2, SettleTypes DEF Statuses
    <3> QED
      BY <1>0, <1>15, <3>1 DEF Commit, TypeInv, DataOK, Grounded, In, Turn,
                              RootChanges, Idle, root, known
  <2>3. Settle(r, "published") \/ Settle(r, "failed")
    BY <1>15 DEF Commit
  <2> QED
    BY <2>1, <2>2, <2>3
<1>16. CASE OtherLock
  BY <1>0, <1>16 DEF OtherLock, Outside, TypeInv, CallsOK, DataOK, LocalOK,
     Grounded, RootChanges, root, known, calls, local
<1>17. CASE OtherCommit
  BY <1>0, <1>17 DEF OtherCommit, Outside, TypeInv, CallsOK, DataOK, LocalOK,
     Grounded, RootChanges, root, known, calls, local
<1>18. CASE OtherRelease
  BY <1>0, <1>18 DEF OtherRelease, Outside, TypeInv, CallsOK, DataOK, LocalOK,
     Grounded, RootChanges, root, known, calls, local
<1>19. CASE OtherDie
  BY <1>0, <1>19 DEF OtherDie, Outside, TypeInv, CallsOK, DataOK, LocalOK,
     Grounded, RootChanges, root, known, calls, local
<1>20. CASE Edit
  BY <1>0, <1>20 DEF Edit, TypeInv, CallsOK, DataOK, LocalOK, Grounded,
     root, known, calls, local
<1>21. CASE UNCHANGED vars
  BY <1>0, <1>21 DEF vars, TypeInv, CallsOK, DataOK, LocalOK, Grounded,
     root, known, calls, local
<1> QED
  BY <1>1, <1>2, <1>3, <1>4, <1>5, <1>6, <1>7, <1>8, <1>9, <1>10, <1>11,
     <1>12, <1>13, <1>14, <1>15, <1>16, <1>17, <1>18, <1>19, <1>20, <1>21
     DEF Next, Run

\* Every variable keeps its type: the promise maps name runs that exist, and
\* a run never plans, publishes or remembers an input it has not loaded.
THEOREM TypeCorrect == Spec => []LifecycleTypeOK
<1>1. TypeInv => LifecycleTypeOK
  BY TypesOfInv
<1> QED
  BY <1>1, InitTypes, NextTypes, PTL DEF Spec

----------------------------------------------------------------------------
(* What a run may end with.  Only the run whose turn it is settles.        *)

\* A run that succeeds does so in a step of its own that settles it.
LEMMA SuccessSettles ==
  ASSUME TypeInv, [Next]_vars, NEW q \in DOMAIN runs, Succeeds(q)
  PROVE  \/ Fast(q) /\ Settle(q, "reused")
         \/ Verify(q) /\ Settle(q, "reused")
         \/ Lock(q) /\ Settle(q, "published")
         \/ Commit(q) /\ Settle(q, "published")
<1>0. CallsOK /\ runs \in Seq(Statuses) /\ runs[q] # runs'[q]
      /\ runs'[q] # "failed" /\ runs'[q] # "running"
  BY DEF TypeInv, CallsOK, Succeeds, Settled
<1>1. ASSUME Enqueue PROVE FALSE
  BY <1>0, <1>1, EnqueueTypes
<1>2. ASSUME NEW r \in DOMAIN runs, NEW s, Settle(r, s)
      PROVE  q = r /\ s # "failed"
  BY <1>0, <1>2 DEF Settle
<1>3. ASSUME UNCHANGED runs PROVE FALSE
  BY <1>0, <1>3
<1>4. ASSUME Ensure \/ EnsureOnce \/ Regenerate PROVE FALSE
  BY <1>1, <1>3, <1>4 DEF Ensure, EnsureOnce, Regenerate
<1>5. ASSUME \/ OtherLock \/ OtherCommit \/ OtherRelease \/ OtherDie
             \/ Edit \/ UNCHANGED vars
      PROVE  FALSE
  BY <1>3, <1>5 DEF OtherLock, OtherCommit, OtherRelease, OtherDie, Edit,
                    Outside, calls, vars
<1>6. ASSUME NEW r \in DOMAIN runs,
             Judge(r) \/ List(r) \/ Read(r) \/ Stamp(r) \/ Plan(r)
      PROVE  FALSE
  BY <1>3, <1>6 DEF Judge, List, Read, Stamp, Plan, Onward, calls
<1>7. ASSUME NEW r \in DOMAIN runs, Start(r) PROVE FALSE
  <2>1. ~Settle(r, "failed")
    BY <1>2
  <2>2. runs' = [runs EXCEPT ![r] = "running"]
    BY <1>7, <2>1 DEF Start
  <2> QED
    BY <1>0, <2>2
<1>8. ASSUME NEW r \in DOMAIN runs, Wait(r) \/ Install(r) PROVE FALSE
  <2>1. ~Settle(r, "failed")
    BY <1>2
  <2> QED
    BY <1>3, <1>8, <2>1 DEF Wait, Install, Onward, calls
<1>9. ASSUME NEW r \in DOMAIN runs, Fast(r)
      PROVE  Fast(q) /\ Settle(q, "reused")
  BY <1>2, <1>3, <1>9 DEF Fast, Onward, calls
<1>10. ASSUME NEW r \in DOMAIN runs, Verify(r)
       PROVE  Verify(q) /\ Settle(q, "reused")
  <2>1. ~Settle(r, "failed")
    BY <1>2
  <2>2. Settle(r, "reused")
    BY <1>3, <1>10, <2>1 DEF Verify, Onward, calls
  <2> QED
    BY <1>2, <1>10, <2>2
<1>11. ASSUME NEW r \in DOMAIN runs, Lock(r)
       PROVE  Lock(q) /\ Settle(q, "published")
  <2>1. ~Settle(r, "failed")
    BY <1>2
  <2>2. Settle(r, "published")
    BY <1>3, <1>11, <2>1 DEF Lock, Onward, calls
  <2> QED
    BY <1>2, <1>11, <2>2
<1>12. ASSUME NEW r \in DOMAIN runs, Commit(r)
       PROVE  Commit(q) /\ Settle(q, "published")
  <2>1. ~Settle(r, "failed")
    BY <1>2
  <2>2. Settle(r, "published")
    BY <1>12, <2>1 DEF Commit
  <2> QED
    BY <1>2, <1>12, <2>2
<1> QED
  BY <1>4, <1>5, <1>6, <1>7, <1>8, <1>9, <1>10, <1>11, <1>12 DEF Next, Run

----------------------------------------------------------------------------
(* What a run remembers of the root.                                       *)

\* A fingerprint that still matches vouches for what was taken with it; from
\* the pointer's commit to the release the root selects the run's plan.
SelectInv ==
  /\ "published" \in matching => published = selected
  /\ at.mode \in {"fast", "verify"} /\ "listed" \in matching =>
       receipt = selected
  /\ at.mode = "fast" /\ "listed" \in matching => published = selected
  /\ at.mode = "commit" => selected = plan
  /\ at.step = "lock" => got = plan

LEMMA NextSelect == TypeInv /\ SelectInv /\ [Next]_vars => SelectInv'
<1> SUFFICES ASSUME TypeInv, SelectInv, [Next]_vars PROVE SelectInv'
  OBVIOUS
<1>0. Grounded /\ SelectInv
  BY DEF TypeInv
<1>1. CASE Ensure \/ EnsureOnce \/ Regenerate \/ Edit \/ UNCHANGED vars
  BY <1>0, <1>1 DEF SelectInv, Ensure, EnsureOnce, Regenerate, Edit, vars,
                    root, known, local
<1>2. CASE OtherLock \/ OtherCommit \/ OtherRelease \/ OtherDie
  BY <1>0, <1>2 DEF SelectInv, Grounded, OtherLock, OtherCommit, OtherRelease,
                    OtherDie, Outside, RootChanges, known, local
<1>3. ASSUME NEW r \in DOMAIN runs, Start(r) PROVE SelectInv'
  BY <1>0, <1>3 DEF SelectInv, Start, In, Goto, Onward, RootChanges,
     Settle, Idle, root, known
<1>4. ASSUME NEW r \in DOMAIN runs, Wait(r) PROVE SelectInv'
  BY <1>0, <1>4 DEF SelectInv, Wait, In, Goto, Onward, RootChanges,
     Settle, Idle, root, known
<1>5. ASSUME NEW r \in DOMAIN runs, Judge(r) PROVE SelectInv'
  BY <1>0, <1>5 DEF SelectInv, Judge, In, Goto, Onward, RootChanges,
     Settle, Idle, root, known
<1>6. ASSUME NEW r \in DOMAIN runs, List(r) PROVE SelectInv'
  BY <1>0, <1>6 DEF SelectInv, List, In, Goto, Onward, RootChanges,
     Settle, Idle, root, known
<1>7. ASSUME NEW r \in DOMAIN runs, Read(r) PROVE SelectInv'
  BY <1>0, <1>7 DEF SelectInv, Read, In, Goto, Onward, RootChanges,
     Settle, Idle, root, known
<1>8. ASSUME NEW r \in DOMAIN runs, Stamp(r) PROVE SelectInv'
  BY <1>0, <1>8 DEF SelectInv, Stamp, In, Goto, Onward, RootChanges,
     Settle, Idle, root, known
<1>9. ASSUME NEW r \in DOMAIN runs, Fast(r) PROVE SelectInv'
  BY <1>0, <1>9 DEF SelectInv, Fast, In, Goto, Onward, RootChanges,
     Settle, Idle, root, known
<1>10. ASSUME NEW r \in DOMAIN runs, Verify(r) PROVE SelectInv'
  BY <1>0, <1>10 DEF SelectInv, Verify, In, Goto, Onward, RootChanges,
     Settle, Idle, root, known
<1>11. ASSUME NEW r \in DOMAIN runs, Plan(r) PROVE SelectInv'
  BY <1>0, <1>11 DEF SelectInv, Plan, In, Goto, Onward, RootChanges,
     Settle, Idle, root, known
<1>12. ASSUME NEW r \in DOMAIN runs, Lock(r) PROVE SelectInv'
  BY <1>0, <1>12 DEF SelectInv, Lock, In, Goto, Onward, RootChanges,
     Settle, Idle, root, known
<1>13. ASSUME NEW r \in DOMAIN runs, Install(r) PROVE SelectInv'
  BY <1>0, <1>13 DEF SelectInv, Install, In, Goto, Onward, RootChanges,
     Settle, Idle, root, known
<1>14. ASSUME NEW r \in DOMAIN runs, Commit(r) PROVE SelectInv'
  BY <1>0, <1>14 DEF SelectInv, Commit, In, Goto, Onward, RootChanges,
     Settle, Idle, root, known
<1> QED
  BY <1>1, <1>2, <1>3, <1>4, <1>5, <1>6, <1>7, <1>8, <1>9, <1>10, <1>11,
     <1>12, <1>13, <1>14 DEF Next, Run

\* The root selects the catalog a run returns when the run last looks at it.
THEOREM ReturnedSelected == Spec => ReturnedIsSelected
<1>1. Init => SelectInv
  BY DEF Init, SelectInv, Idle
<1>2. ASSUME TypeInv, SelectInv, [Next]_vars
      PROVE  \A r \in DOMAIN runs : Succeeds(r) => selected' = got
  <2> SUFFICES ASSUME NEW r \in DOMAIN runs, Succeeds(r)
               PROVE  selected' = got
    OBVIOUS
  <2>0. runs'[r] # runs[r] /\ runs'[r] # "failed"
    BY <1>2 DEF Succeeds, Settled
  <2>1. CASE Fast(r) /\ Settle(r, "reused")
    <3>1. "listed" \in matching /\ got = published
      BY <2>0, <2>1 DEF Fast, Onward, calls
    <3> QED
      BY <1>2, <2>1, <3>1 DEF Fast, In, SelectInv, root
  <2>2. CASE Verify(r) /\ Settle(r, "reused")
    <3>1. ~Settle(r, "failed")
      BY <2>0 DEF Settle
    <3>2. "listed" \in matching /\ got = receipt
      BY <2>0, <2>2, <3>1 DEF Verify, Onward, calls
    <3> QED
      BY <1>2, <2>2, <3>2 DEF Verify, In, SelectInv, root
  <2>3. CASE Lock(r) /\ Settle(r, "published")
    <3>1. ~Settle(r, "failed")
      BY <2>0 DEF Settle
    <3>2. selected = plan
      BY <2>0, <2>3, <3>1 DEF Lock, Onward, calls
    <3> QED
      BY <1>2, <2>3, <3>2 DEF Lock, SelectInv
  <2>4. CASE Commit(r) /\ Settle(r, "published")
    <3>1. ~Settle(r, "failed")
      BY <2>0 DEF Settle
    <3>2. got = plan /\ UNCHANGED selected
      BY <2>4, <3>1 DEF Commit
    <3> QED
      BY <1>2, <2>4, <3>2 DEF Commit, In, SelectInv
  <2> QED
    BY <1>2, <2>1, <2>2, <2>3, <2>4, SuccessSettles
<1> QED
  BY <1>1, <1>2, InitTypes, NextTypes, NextSelect, PTL
  DEF Spec, ReturnedIsSelected

----------------------------------------------------------------------------
(* What a run remembers of the inputs, when they are read at one moment    *)
(* with the change times they are remembered by.                           *)

QuietInv ==
  /\ "cache" \in matching => cache = inputs
  /\ at.step = "stamp" => got = inputs
  /\ at.step \in {"loaded", "lock"} /\ "quiet" \in matching => got = inputs

LEMMA NextQuiet ==
  ASSUME MidLoad = FALSE
  PROVE  QuietInv /\ [Next]_vars => QuietInv'
<1> SUFFICES ASSUME QuietInv, [Next]_vars PROVE QuietInv'
  OBVIOUS
<1>1. CASE Ensure \/ EnsureOnce \/ Regenerate \/ Edit \/ UNCHANGED vars
  BY <1>1 DEF QuietInv, Ensure, EnsureOnce, Regenerate, Edit, vars,
              root, known, local
<1>2. CASE OtherLock \/ OtherCommit \/ OtherRelease \/ OtherDie
  BY <1>2 DEF QuietInv, OtherLock, OtherCommit, OtherRelease,
              OtherDie, Outside, RootChanges, known, local
<1>3. ASSUME NEW r \in DOMAIN runs, Start(r) PROVE QuietInv'
  BY <1>3 DEF QuietInv, Start, In, Goto, Onward, RootChanges, Settle,
     Idle, root, known
<1>4. ASSUME NEW r \in DOMAIN runs, Wait(r) PROVE QuietInv'
  BY <1>4 DEF QuietInv, Wait, In, Goto, Onward, RootChanges, Settle,
     Idle, root, known
<1>5. ASSUME NEW r \in DOMAIN runs, Judge(r) PROVE QuietInv'
  BY <1>5 DEF QuietInv, Judge, In, Goto, Onward, RootChanges, Settle,
     Idle, root, known
<1>6. ASSUME NEW r \in DOMAIN runs, List(r) PROVE QuietInv'
  BY <1>6 DEF QuietInv, List, In, Goto, Onward, RootChanges, Settle,
     Idle, root, known
<1>7. ASSUME NEW r \in DOMAIN runs, Read(r) PROVE QuietInv'
  BY <1>7 DEF QuietInv, Read, In, Goto, Onward, RootChanges, Settle,
     Idle, root, known
<1>8. ASSUME NEW r \in DOMAIN runs, Stamp(r) PROVE QuietInv'
  BY <1>8 DEF QuietInv, Stamp, In, Goto, Onward, RootChanges, Settle,
     Idle, root, known
<1>9. ASSUME NEW r \in DOMAIN runs, Fast(r) PROVE QuietInv'
  BY <1>9 DEF QuietInv, Fast, In, Goto, Onward, RootChanges, Settle,
     Idle, root, known
<1>10. ASSUME NEW r \in DOMAIN runs, Verify(r) PROVE QuietInv'
  BY <1>10 DEF QuietInv, Verify, In, Goto, Onward, RootChanges, Settle,
     Idle, root, known
<1>11. ASSUME NEW r \in DOMAIN runs, Plan(r) PROVE QuietInv'
  BY <1>11 DEF QuietInv, Plan, In, Goto, Onward, RootChanges, Settle,
     Idle, root, known
<1>12. ASSUME NEW r \in DOMAIN runs, Lock(r) PROVE QuietInv'
  BY <1>12 DEF QuietInv, Lock, In, Goto, Onward, RootChanges, Settle,
     Idle, root, known
<1>13. ASSUME NEW r \in DOMAIN runs, Install(r) PROVE QuietInv'
  BY <1>13 DEF QuietInv, Install, In, Goto, Onward, RootChanges, Settle,
     Idle, root, known
<1>14. ASSUME NEW r \in DOMAIN runs, Commit(r) PROVE QuietInv'
  BY <1>14 DEF QuietInv, Commit, In, Goto, Onward, RootChanges, Settle,
     Idle, root, known
<1> QED
  BY <1>1, <1>2, <1>3, <1>4, <1>5, <1>6, <1>7, <1>8, <1>9, <1>10, <1>11,
     <1>12, <1>13, <1>14 DEF Next, Run

\* A run during which nobody edited ends with the catalog of the inputs it
\* found, whatever the caches hold, if no edit falls within their reading.
THEOREM QuietCurrent ==
  ASSUME MidLoad = FALSE
  PROVE  Spec => QuietRunIsCurrent
<1>1. Init => QuietInv
  BY DEF Init, QuietInv, Idle
<1>2. ASSUME TypeInv, QuietInv, [Next]_vars
      PROVE  \A r \in DOMAIN runs :
               Succeeds(r) /\ "quiet" \in matching => got = inputs
  <2> SUFFICES ASSUME NEW r \in DOMAIN runs, Succeeds(r), "quiet" \in matching
               PROVE  got = inputs
    OBVIOUS
  <2>1. at.step \in {"loaded", "lock"}
    BY <1>2, SuccessSettles DEF Fast, Verify, Lock, Commit, In
  <2> QED
    BY <1>2, <2>1 DEF QuietInv
<1> QED
  BY <1>1, <1>2, InitTypes, NextTypes, NextQuiet, PTL
  DEF Spec, QuietRunIsCurrent

\* The run that later calls of ensureMiraiIntlCatalogOnce share is the last
\* one asked for, until it fails.
THEOREM OnceKept == Spec => OnceKeepsLatest
<1> DEFINE Kept == once' # once =>
                     \/ once' = Len(runs')
                     \/ once = 0 /\ once' = active
                     \/ once' = 0 /\ runs'[once] = "failed"
<1>1. ASSUME TypeInv, [Next]_vars PROVE Kept
  <2>0. CallsOK
    BY <1>1 DEF TypeInv
  <2>1. CASE Ensure \/ UNCHANGED vars
    BY <2>1 DEF Ensure, calls, vars
  <2>2. CASE EnsureOnce \/ Regenerate
    BY <2>0, <2>2, EnqueueTypes DEF EnsureOnce, Regenerate
  <2>3. ASSUME NEW r \in DOMAIN runs, NEW s, Settle(r, s) PROVE Kept
    BY <2>0, <2>3 DEF Settle, CallsOK
  <2>4. ASSUME NEW r \in DOMAIN runs, Run(r) PROVE Kept
    <3>1. once' = once \/ \E s \in Statuses : Settle(r, s)
      BY <2>4, Zenon DEF Run, Start, Wait, Judge, List, Read, Stamp, Fast,
         Verify, Plan, Lock, Install, Commit, Onward, calls, Statuses
    <3> QED
      BY <2>3, <3>1
  <2>5. CASE OtherLock \/ OtherCommit \/ OtherRelease \/ OtherDie \/ Edit
    BY <2>5 DEF OtherLock, OtherCommit, OtherRelease, OtherDie, Edit,
                Outside, calls
  <2> QED
    BY <1>1, <2>1, <2>2, <2>4, <2>5 DEF Next
<1> QED
  BY <1>1, InitTypes, NextTypes, PTL DEF Spec, OnceKeepsLatest

=============================================================================
