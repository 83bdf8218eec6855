------------------------ MODULE SourceAnalysis_proofs ------------------------
(***************************************************************************)
(* Proofs about the analysis of sources: the transaction that commits the  *)
(* classifications (ClassifierTransaction), the receipt in which they are  *)
(* written and read (SourceClassifier, CheckReceipt), and the lowering of  *)
(* one source (SourceLowering).                                            *)
(*                                                                         *)
(* HandedOutThenCommitted speaks of the end.  The invariant adds how one   *)
(* gets there: nobody is being authorized any more once the finalization   *)
(* has begun, what is finalized is what was handed out, and a validation   *)
(* has looked at each authority that is not left, at moments since it      *)
(* began.                                                                  *)
(*                                                                         *)
(* What the reader says of a receipt is a long conjunction; each conjunct  *)
(* is decided for the receipt as assembled.  Most follow from how it is    *)
(* assembled, three are the known causes, and two need what the classifier *)
(* did before: a boundary has rows of one kind, and none of a boundary     *)
(* that is no candidate is at the facade.                                  *)
(*                                                                         *)
(* Where syntax shows a source to be of no concern, each pass of the whole *)
(* analysis over it binds no name, so that no use is ever replaced.        *)
(*                                                                         *)
(* Where a source is lowered, a name is bound to the namespace of what it  *)
(* was declared with, at the time; bindings only ever grow, so that it has *)
(* that namespace at the end.  The values of the variables, declaration by *)
(* declaration, agree with the bindings if none changes its value; and the *)
(* pass that finds nothing more has left out no name that a value takes.   *)
(* A replacement then shows what is meant, since registries hold texts of  *)
(* their own namespace only, and all that was registered.                  *)
(***************************************************************************)
EXTENDS ClassifierTransaction, CheckReceipt, SourceLowering, FiniteSetTheorems,
        WellFoundedInduction, NaturalsInduction, SequenceTheorems, TLAPS

----------------------------------------------------------------------------
(* The transaction                                                         *)

\* A call that holds an authority that is still to be looked at, or was handed
\* out.
Holding == {"recheck", "done", "used"}

Shapes ==
  /\ calls = [c \in Calls |-> calls[c]]
  /\ \A c \in Calls :
       calls[c].at = "sealed" =>
         calls[c] = [at |-> "sealed", owner |-> calls[c].owner,
                     source |-> calls[c].source, control |-> calls[c].control]
  /\ validation = [of |-> validation.of, left |-> validation.left,
                   now |-> validation.now]

\* What was handed out is on the record of it.
Recorded ==
  \A c \in Calls :
    calls[c].at \in {"done", "used"} => calls[c].authority \in completed

\* Under a barrier no identity holds a facade but that of the committer.
FacadeIsTheCommitters ==
  barrier =>
    /\ \A b \in built \cup completed : b.id.facade = 0
    /\ \A c \in Calls :
         calls[c].at \in Holding => calls[c].authority.id.facade = 0

\* From the beginning of the finalization nobody is being authorized.
Closed ==
  /\ validation.of = "none" => validation = NoValidation
  /\ validation # NoValidation \/ final # {} => phase # "open" /\ Active = {}
  /\ phase = "finalized" => final # {}
  /\ validation.of \in {"fingerprint", "commit", "committed"} => final # {}
  /\ final \subseteq {completed}
  /\ validation.of = "finalize" \/ final # {} => OwnersOnce(completed)

\* At a moment since the committer began the bytes of a's owner, the facade
\* and a's frontier were those classified.
InputSeen(a) ==
  /\ \E f \in seen : /\ f.source[a.id.owner] = a.id.source
                     /\ f.control[a.id.owner] = a.id.control
  /\ \E f \in seen : f.facade = a.id.facade

FrontierSeen(a) == \E f \in seen : f.frontier[a.id.owner] = a.frontier

Looked ==
  /\ validation.of \in {"fingerprint", "commit"} => files \in seen
  /\ validation.of = "commit" =>
       \A a \in completed :
         /\ barrier \/ a \notin validation.left \/ a \in validation.now
              => InputSeen(a)
         /\ a \notin validation.left => FrontierSeen(a)
  /\ validation.of = "committed" =>
       \A a \in completed : InputSeen(a) /\ FrontierSeen(a)

TransactionInv ==
  Shapes /\ Recorded /\ FacadeIsTheCommitters /\ Closed /\ Looked

LEMMA TransactionBegins == TransactionInit => TransactionInv
<1> SUFFICES ASSUME TransactionInit PROVE TransactionInv
  OBVIOUS
<1>1. /\ \A c \in Calls : calls[c].at = "new"
      /\ validation = NoValidation /\ phase = "open"
      /\ built = {} /\ completed = {} /\ final = {}
  BY DEF TransactionInit, Unsealed
<1>2. calls = [c \in Calls |-> calls[c]]
  BY DEF TransactionInit
<1> QED
  BY <1>1, <1>2 DEF TransactionInv, Shapes, Recorded, FacadeIsTheCommitters,
       Closed, Looked, Holding, NoValidation

----------------------------------------------------------------------------
(* The files change by themselves, and the committer sees every version.    *)

LEMMA EditKeeps ==
  ASSUME TransactionInv, EditFile
  PROVE  TransactionInv'
<1>1. UNCHANGED <<barrier, calls, transaction, validation>>
  BY DEF EditFile
<1>2. /\ seen \subseteq seen'
      /\ validation.of \in {"fingerprint", "commit"} => files' \in seen'
  BY DEF EditFile
<1>3. UNCHANGED <<barrier, calls, scopes, built, completed, phase, failure,
                  final, validation>>
  BY <1>1 DEF transaction
<1>4. ASSUME NEW a PROVE /\ InputSeen(a) => InputSeen(a)'
                         /\ FrontierSeen(a) => FrontierSeen(a)'
  BY <1>2 DEF InputSeen, FrontierSeen
<1>5. Looked'
  BY <1>2, <1>3, <1>4, Zenon DEF TransactionInv, Looked
<1>6. Shapes' /\ Recorded' /\ FacadeIsTheCommitters' /\ Closed'
  BY <1>3 DEF TransactionInv, Shapes, Recorded, FacadeIsTheCommitters, Closed,
       Active
<1> QED
  BY <1>5, <1>6 DEF TransactionInv

----------------------------------------------------------------------------
(* The calls.  One step of a call leaves the others where they are.         *)

LEMMA OthersRest ==
  ASSUME Shapes, NEW c \in Calls, NEW next, Step(c, next)
  PROVE  /\ calls' = [d \in Calls |-> calls'[d]]
         /\ calls'[c] = next
         /\ \A d \in Calls : d # c => calls'[d] = calls[d]
BY DEF Shapes, Step

\* While a call is on its way nothing was validated or finalized.
LEMMA OnItsWay ==
  ASSUME TransactionInv, NEW c \in Calls,
         calls[c].at \in {"identify", "await", "recheck"}
  PROVE  validation = NoValidation /\ final = {}
BY DEF TransactionInv, Closed, Active

\* The validation does not see a step before the finalization.
LEMMA NothingValidated ==
  ASSUME validation = NoValidation, final = {}, UNCHANGED <<validation, final>>,
         phase' # "finalized"
  PROVE  Closed' /\ Looked'
BY DEF Closed, Looked, NoValidation

LEMMA FailKeeps ==
  ASSUME TransactionInv, NEW c \in Calls, Fail(c),
         calls[c].at \in {"identify", "await", "recheck"},
         UNCHANGED <<barrier, files, validation, seen>>
  PROVE  TransactionInv'
<1>1. Step(c, [at |-> "failed"])
  BY DEF Fail
<1>2. /\ calls' = [d \in Calls |-> calls'[d]]
      /\ calls'[c] = [at |-> "failed"]
      /\ \A d \in Calls : d # c => calls'[d] = calls[d]
  BY <1>1, OthersRest DEF TransactionInv
<1>3. /\ UNCHANGED <<barrier, files, validation, seen, built, completed, final>>
      /\ phase' = "poisoned"
  BY DEF Fail, Poison
<1>4. Closed' /\ Looked'
  BY <1>3, OnItsWay, NothingValidated
<1>5. calls'[c].at = "failed"
  BY <1>2
<1>6. Shapes' /\ Recorded' /\ FacadeIsTheCommitters'
  BY <1>2, <1>3, <1>5 DEF TransactionInv, Shapes, Recorded,
       FacadeIsTheCommitters, Holding
<1> QED
  BY <1>4, <1>6 DEF TransactionInv

LEMMA SealKeeps ==
  ASSUME TransactionInv, NEW c \in Calls, NEW o \in Owners,
         SealAuthorityInput(c, o)
  PROVE  TransactionInv'
<1> DEFINE sealed == [at |-> "sealed", owner |-> o, source |-> files.source[o],
                      control |-> files.control[o]]
<1>1. Step(c, sealed) /\ calls[c].at = "new"
  BY DEF SealAuthorityInput
<1>2. /\ calls' = [d \in Calls |-> calls'[d]]
      /\ calls'[c] = sealed
      /\ \A d \in Calls : d # c => calls'[d] = calls[d]
  BY <1>1, OthersRest DEF TransactionInv
<1>3. UNCHANGED <<barrier, files, validation, seen, scopes, built, completed,
                  phase, failure, final>>
  BY DEF SealAuthorityInput, transaction
<1>4. calls'[c].at = "sealed"
  BY <1>2
<1>5. Active' = Active
  BY <1>1, <1>2, <1>4 DEF Active
<1>6. calls'[c] = [at |-> "sealed", owner |-> calls'[c].owner,
                   source |-> calls'[c].source, control |-> calls'[c].control]
  BY <1>2
<1> HIDE DEF sealed
<1>7. Shapes' /\ Recorded' /\ FacadeIsTheCommitters'
  BY <1>2, <1>3, <1>4, <1>6 DEF TransactionInv, Shapes, Recorded,
       FacadeIsTheCommitters, Holding
<1>8. Closed'
  BY <1>3, <1>5 DEF TransactionInv, Closed, OwnersOnce
<1>9. Looked'
  BY <1>3 DEF TransactionInv, Looked, InputSeen, FrontierSeen
<1> QED
  BY <1>7, <1>8, <1>9 DEF TransactionInv

LEMMA AuthorizeOwnerKeeps ==
  ASSUME TransactionInv, NEW c \in Calls, AuthorizeOwner(c)
  PROVE  TransactionInv'
<1> DEFINE at == IF phase = "open" THEN "identify" ELSE "failed"
           asked == [calls[c] EXCEPT !.at = at]
<1>1. Step(c, asked) /\ calls[c].at = "sealed"
  BY DEF AuthorizeOwner
<1>2. /\ calls' = [d \in Calls |-> calls'[d]]
      /\ calls'[c] = asked
      /\ \A d \in Calls : d # c => calls'[d] = calls[d]
  BY <1>1, OthersRest DEF TransactionInv
<1>3. UNCHANGED <<barrier, files, validation, seen, scopes, built, completed,
                  phase, failure, final>>
  BY DEF AuthorizeOwner, transaction
<1>4. calls'[c].at = at
  BY <1>1, <1>2 DEF TransactionInv, Shapes
<1>5. phase # "open" => Active' = Active
  BY <1>1, <1>2, <1>4 DEF Active
<1>6. at \in {"identify", "failed"}
  OBVIOUS
<1> HIDE DEF at, asked
<1>7. Shapes' /\ Recorded' /\ FacadeIsTheCommitters'
  BY <1>2, <1>3, <1>4, <1>6 DEF TransactionInv, Shapes, Recorded,
       FacadeIsTheCommitters, Holding
<1>8. Closed'
  BY <1>3, <1>5 DEF TransactionInv, Closed, OwnersOnce
<1>9. Looked'
  BY <1>3 DEF TransactionInv, Looked, InputSeen, FrontierSeen
<1> QED
  BY <1>7, <1>8, <1>9 DEF TransactionInv

LEMMA IdentifyKeeps ==
  ASSUME TransactionInv, NEW c \in Calls, Identify(c)
  PROVE  TransactionInv'
<1> DEFINE x == calls[c]
           id == Identity(x, IF barrier THEN 0 ELSE files.facade)
<1>1. /\ calls[c].at = "identify"
      /\ UNCHANGED <<barrier, files, validation, seen>>
  BY DEF Identify
<1>2. CASE Fail(c)
  BY <1>1, <1>2, FailKeeps
<1>3. CASE /\ Step(c, [at |-> "await", id |-> id])
           /\ built' = IF \E b \in built : b.id = id THEN built
                       ELSE built \cup {Started(id)}
           /\ UNCHANGED <<completed, phase, failure, final>>
  <2>1. /\ calls' = [d \in Calls |-> calls'[d]]
        /\ calls'[c] = [at |-> "await", id |-> id]
        /\ \A d \in Calls : d # c => calls'[d] = calls[d]
    BY <1>3, OthersRest DEF TransactionInv
  <2>2. calls'[c].at = "await"
    BY <2>1
  <2>3. barrier => id.facade = 0
    BY DEF Identity
  <2>4. ASSUME NEW b \in built', b \notin built
        PROVE  b.id = id
    BY <1>3, <2>4 DEF Started
  <2> HIDE DEF id
  <2>5. phase # "finalized"
    BY <1>1, OnItsWay DEF TransactionInv, Closed
  <2>6. Closed' /\ Looked'
    BY <1>1, <1>3, <2>5, OnItsWay, NothingValidated
  <2>7. Shapes' /\ Recorded' /\ FacadeIsTheCommitters'
    BY <1>1, <1>3, <2>1, <2>2, <2>3, <2>4 DEF TransactionInv, Shapes,
         Recorded, FacadeIsTheCommitters, Holding
  <2> QED
    BY <2>6, <2>7 DEF TransactionInv
<1> QED
  BY <1>2, <1>3 DEF Identify

LEMMA BuildKeeps ==
  ASSUME TransactionInv, NEW b \in built, BuildAuthority(b)
  PROVE  TransactionInv'
<1>1. PICK outcome \in {"built", "refused"} :
        built' = (built \ {b}) \cup
          {[id |-> b.id, state |-> outcome,
            frontier |-> files.frontier[b.id.owner]]}
  BY DEF BuildAuthority
<1>2. UNCHANGED <<barrier, files, calls, completed, phase, final, validation,
                  seen>>
  BY DEF BuildAuthority
<1>3. \A d \in built' : \E e \in built : d.id = e.id
  BY <1>1
<1>4. Shapes' /\ Recorded' /\ FacadeIsTheCommitters'
  BY <1>2, <1>3 DEF TransactionInv, Shapes, Recorded, FacadeIsTheCommitters
<1>5. Closed'
  BY <1>2 DEF TransactionInv, Closed, Active, OwnersOnce
<1>6. Looked'
  BY <1>2 DEF TransactionInv, Looked, InputSeen, FrontierSeen
<1> QED
  BY <1>4, <1>5, <1>6 DEF TransactionInv

LEMMA VerifyKeeps ==
  ASSUME TransactionInv, NEW c \in Calls, Verify(c)
  PROVE  TransactionInv'
<1>1. /\ calls[c].at = "await"
      /\ UNCHANGED <<barrier, files, validation, seen>>
  BY DEF Verify
<1>2. CASE Fail(c)
  BY <1>1, <1>2, FailKeeps
<1>3. CASE \E b \in built : Step(c, [at |-> "recheck", authority |-> b])
                            /\ UNCHANGED transaction
  <2>1. PICK b \in built : Step(c, [at |-> "recheck", authority |-> b])
                           /\ UNCHANGED transaction
    BY <1>3
  <2>2. /\ calls' = [d \in Calls |-> calls'[d]]
        /\ calls'[c] = [at |-> "recheck", authority |-> b]
        /\ \A d \in Calls : d # c => calls'[d] = calls[d]
    BY <2>1, OthersRest DEF TransactionInv
  <2>3. calls'[c].at = "recheck" /\ calls'[c].authority = b
    BY <2>2
  <2>4. UNCHANGED <<scopes, built, completed, phase, failure, final>>
    BY <2>1 DEF transaction
  <2>5. phase # "finalized"
    BY <1>1, OnItsWay DEF TransactionInv, Closed
  <2>6. Closed' /\ Looked'
    BY <1>1, <2>4, <2>5, OnItsWay, NothingValidated
  <2>7. Shapes' /\ Recorded' /\ FacadeIsTheCommitters'
    BY <1>1, <2>2, <2>3, <2>4 DEF TransactionInv, Shapes, Recorded,
         FacadeIsTheCommitters, Holding
  <2> QED
    BY <2>6, <2>7 DEF TransactionInv
<1> QED
  BY <1>2, <1>3 DEF Verify

LEMMA CompleteKeeps ==
  ASSUME TransactionInv, NEW c \in Calls, Complete(c)
  PROVE  TransactionInv'
<1> DEFINE b == calls[c].authority
<1>1. /\ calls[c].at = "recheck"
      /\ UNCHANGED <<barrier, files, validation, seen>>
  BY DEF Complete
<1>2. CASE Fail(c)
  BY <1>1, <1>2, FailKeeps
<1>3. CASE /\ Step(c, [at |-> "done", authority |-> b])
           /\ completed' = completed \cup {b}
           /\ UNCHANGED <<scopes, built, phase, failure, final>>
  <2>1. /\ calls' = [d \in Calls |-> calls'[d]]
        /\ calls'[c] = [at |-> "done", authority |-> b]
        /\ \A d \in Calls : d # c => calls'[d] = calls[d]
    BY <1>3, OthersRest DEF TransactionInv
  <2>2. calls'[c].at = "done" /\ calls'[c].authority = b
    BY <2>1
  <2>3. barrier => b.id.facade = 0
    BY <1>1 DEF TransactionInv, FacadeIsTheCommitters, Holding
  <2> HIDE DEF b
  <2>4. phase # "finalized"
    BY <1>1, OnItsWay DEF TransactionInv, Closed
  <2>5. Closed' /\ Looked'
    BY <1>1, <1>3, <2>4, OnItsWay, NothingValidated
  <2>6. Shapes' /\ Recorded' /\ FacadeIsTheCommitters'
    BY <1>1, <1>3, <2>1, <2>2, <2>3 DEF TransactionInv, Shapes, Recorded,
         FacadeIsTheCommitters, Holding
  <2> QED
    BY <2>5, <2>6 DEF TransactionInv
<1> QED
  BY <1>2, <1>3 DEF Complete

LEMMA UseKeeps ==
  ASSUME TransactionInv, NEW c \in Calls, UseAuthority(c)
  PROVE  TransactionInv'
<1> DEFINE b == calls[c].authority
<1>1. /\ calls[c].at = "done"
      /\ Step(c, [at |-> "used", authority |-> b])
      /\ UNCHANGED <<barrier, files, scopes, built, completed, final,
                     validation, seen>>
      /\ phase' = "poisoned"
  BY DEF UseAuthority, Poison
<1>2. /\ calls' = [d \in Calls |-> calls'[d]]
      /\ calls'[c] = [at |-> "used", authority |-> b]
      /\ \A d \in Calls : d # c => calls'[d] = calls[d]
  BY <1>1, OthersRest DEF TransactionInv
<1>3. calls'[c].at = "used" /\ calls'[c].authority = b
  BY <1>2
<1>4. Active' = Active
  BY <1>1, <1>2, <1>3 DEF Active
<1>5. Shapes' /\ Recorded' /\ FacadeIsTheCommitters'
  BY <1>1, <1>2, <1>3 DEF TransactionInv, Shapes, Recorded,
       FacadeIsTheCommitters, Holding
<1>6. Closed'
  BY <1>1, <1>4 DEF TransactionInv, Closed, OwnersOnce
<1>7. Looked'
  BY <1>1 DEF TransactionInv, Looked, InputSeen, FrontierSeen
<1> QED
  BY <1>5, <1>6, <1>7 DEF TransactionInv

----------------------------------------------------------------------------
(* The finalization and the committer.                                      *)

\* They leave the calls and what was handed out alone.
LEMMA CallsRest ==
  ASSUME TransactionInv, UNCHANGED <<barrier, calls, built, completed>>,
         \E of, left, now : validation' = [of |-> of, left |-> left, now |-> now]
  PROVE  Shapes' /\ Recorded' /\ FacadeIsTheCommitters' /\ Active' = Active
BY DEF TransactionInv, Shapes, Recorded, FacadeIsTheCommitters, Active

LEMMA FinalizeKeeps ==
  ASSUME TransactionInv, Finalize
  PROVE  TransactionInv'
<1>1. /\ UNCHANGED <<barrier, files, calls, built, completed, final,
                     validation, seen>>
      /\ phase = "open" /\ phase' = "finalizing"
  BY DEF Finalize
<1>2. Shapes' /\ Recorded' /\ FacadeIsTheCommitters' /\ Active' = Active
  BY <1>1, CallsRest DEF TransactionInv, Shapes
<1>3. Closed'
  BY <1>1, <1>2 DEF TransactionInv, Closed, OwnersOnce
<1>4. Looked'
  BY <1>1 DEF TransactionInv, Looked, InputSeen, FrontierSeen
<1> QED
  BY <1>2, <1>3, <1>4 DEF TransactionInv

LEMMA BeginFinalizationKeeps ==
  ASSUME TransactionInv, BeginFinalization
  PROVE  TransactionInv'
<1>1. /\ UNCHANGED <<barrier, files, calls, built, completed, final, seen>>
      /\ Active = {} /\ final = {} /\ validation = NoValidation
      /\ phase' # "open" /\ phase' # "finalized"
      /\ \/ validation' = NoValidation
         \/ /\ OwnersOnce(completed)
            /\ validation' = [of |-> "finalize", left |-> completed, now |-> {}]
  BY DEF BeginFinalization, Poison, NoValidation
<1>2. Shapes' /\ Recorded' /\ FacadeIsTheCommitters' /\ Active' = Active
  BY <1>1, CallsRest DEF NoValidation
<1>3. Closed'
  BY <1>1, <1>2 DEF Closed, OwnersOnce, NoValidation
<1>4. Looked'
  BY <1>1 DEF Looked, NoValidation
<1> QED
  BY <1>2, <1>3, <1>4 DEF TransactionInv

LEMMA BeginCommitKeeps ==
  ASSUME TransactionInv, BeginCommit
  PROVE  TransactionInv'
<1>1. /\ UNCHANGED <<barrier, files, calls, built, completed, phase, final>>
      /\ phase = "finalized" /\ validation = NoValidation /\ seen' = {files}
  BY DEF BeginCommit, transaction
<1>2. final = {completed} /\ Finalized = completed /\ OwnersOnce(completed)
      /\ Active = {}
  BY <1>1 DEF TransactionInv, Closed, Finalized
<1>3. \/ barrier /\ validation' = [of |-> "fingerprint", left |-> {}, now |-> {}]
      \/ ~barrier /\ validation' = [of |-> "commit", left |-> completed,
                                    now |-> {}]
  BY <1>2 DEF BeginCommit, NoValidation
<1>4. Shapes' /\ Recorded' /\ FacadeIsTheCommitters' /\ Active' = Active
  BY <1>1, <1>3, CallsRest
<1>5. Closed'
  BY <1>1, <1>2, <1>3, <1>4 DEF Closed, OwnersOnce
<1>6. Looked'
  BY <1>1, <1>3 DEF Looked
<1> QED
  BY <1>4, <1>5, <1>6 DEF TransactionInv

LEMMA FingerprintKeeps ==
  ASSUME TransactionInv, VerifyFingerprint
  PROVE  TransactionInv'
<1>1. /\ UNCHANGED <<barrier, files, calls, built, completed, phase, final,
                     seen>>
      /\ validation.of = "fingerprint"
  BY DEF VerifyFingerprint, transaction
<1>2. final = {completed} /\ Finalized = completed /\ OwnersOnce(completed)
      /\ Active = {} /\ phase # "open" /\ files \in seen
  BY <1>1 DEF TransactionInv, Closed, Finalized, Looked
<1>3. \/ /\ validation' = [of |-> "commit", left |-> completed, now |-> {}]
         /\ files.facade = 0 /\ \A a \in completed : InputCurrent(a.id)
      \/ validation' = [of |-> "ended", left |-> {}, now |-> {}]
  BY <1>2 DEF VerifyFingerprint, NoValidation
<1>4. Shapes' /\ Recorded' /\ FacadeIsTheCommitters' /\ Active' = Active
  BY <1>1, <1>3, CallsRest
<1>5. Closed'
  BY <1>1, <1>2, <1>3, <1>4 DEF Closed, OwnersOnce
<1>6. Looked'
  BY <1>1, <1>2, <1>3 DEF TransactionInv, Looked, InputSeen,
       FacadeIsTheCommitters, InputCurrent
<1> QED
  BY <1>4, <1>5, <1>6 DEF TransactionInv

\* An authority that is no longer current ends the validation.
LEMMA StaleKeeps ==
  ASSUME TransactionInv, StaleAuthority, validation.of # "none",
         UNCHANGED <<barrier, files, calls, built, completed, final, seen>>
  PROVE  TransactionInv'
<1>1. /\ validation' = [of |-> "ended", left |-> {}, now |-> {}]
      /\ phase' = "poisoned"
  BY DEF StaleAuthority, Poison, NoValidation
<1>2. Shapes' /\ Recorded' /\ FacadeIsTheCommitters' /\ Active' = Active
  BY <1>1, CallsRest
<1>3. Closed'
  BY <1>1, <1>2 DEF TransactionInv, Closed, OwnersOnce, NoValidation
<1>4. Looked'
  BY <1>1 DEF Looked
<1> QED
  BY <1>2, <1>3, <1>4 DEF TransactionInv

\* The first look at an authority, at its input.
LEMMA ValidateInputKeeps ==
  ASSUME TransactionInv, NEW a \in completed, ValidateInput(a)
  PROVE  TransactionInv'
<1>1. /\ UNCHANGED <<barrier, files, calls, built, completed, final, seen>>
      /\ validation.now = {} /\ a \in validation.left
  BY DEF ValidateInput
<1>2. validation.of # "none"
  BY <1>1 DEF TransactionInv, Closed, Shapes, NoValidation
<1>3. CASE StaleAuthority
  BY <1>1, <1>2, <1>3, StaleKeeps
<1>4. CASE /\ barrier \/ (InputCurrent(a.id) /\ a.id.facade = files.facade)
           /\ validation' = [validation EXCEPT !.now = {a}]
           /\ UNCHANGED <<phase, failure>>
  <2>1. validation' = [of |-> validation.of, left |-> validation.left,
                       now |-> {a}]
    BY <1>4 DEF TransactionInv, Shapes
  <2>2. /\ validation'.of = validation.of /\ validation'.left = validation.left
        /\ validation'.now = {a}
    BY <2>1
  <2>3. Shapes' /\ Recorded' /\ FacadeIsTheCommitters' /\ Active' = Active
    BY <1>1, <2>1, CallsRest
  <2>4. Closed'
    BY <1>1, <1>2, <1>4, <2>2, <2>3 DEF TransactionInv, Closed, OwnersOnce,
         NoValidation
  <2>5. files \in seen /\ validation.of = "commit" => barrier \/ InputSeen(a)
    BY <1>4 DEF InputSeen, InputCurrent
  <2>6. Looked'
    BY <1>1, <2>2, <2>5 DEF TransactionInv, Looked, InputSeen, FrontierSeen
  <2> QED
    BY <2>3, <2>4, <2>6 DEF TransactionInv
<1> QED
  BY <1>3, <1>4 DEF ValidateInput

\* The second, at what it was classified from.
LEMMA ValidateProjectionKeeps ==
  ASSUME TransactionInv, NEW a \in completed, ValidateProjection(a)
  PROVE  TransactionInv'
<1>1. /\ UNCHANGED <<barrier, files, calls, built, completed, final, seen>>
      /\ a \in validation.now
  BY DEF ValidateProjection
<1>2. validation.of # "none"
  BY <1>1 DEF TransactionInv, Closed, Shapes, NoValidation
<1>3. CASE StaleAuthority
  BY <1>1, <1>2, <1>3, StaleKeeps
<1>4. CASE /\ (barrier /\ validation.of = "finalize") \/ ProjectionCurrent(a)
           /\ validation' = [validation EXCEPT !.now = {}, !.left = @ \ {a}]
           /\ UNCHANGED <<phase, failure>>
  <2>1. validation' = [of |-> validation.of, left |-> validation.left \ {a},
                       now |-> {}]
    BY <1>4 DEF TransactionInv, Shapes
  <2>2. /\ validation'.of = validation.of
        /\ validation'.left = validation.left \ {a} /\ validation'.now = {}
    BY <2>1
  <2>3. Shapes' /\ Recorded' /\ FacadeIsTheCommitters' /\ Active' = Active
    BY <1>1, <2>1, CallsRest
  <2>4. Closed'
    BY <1>1, <1>2, <1>4, <2>2, <2>3 DEF TransactionInv, Closed, OwnersOnce,
         NoValidation
  <2>5. files \in seen /\ validation.of = "commit" => FrontierSeen(a)
    BY <1>4 DEF FrontierSeen, ProjectionCurrent
  <2>6. Looked'
    BY <1>1, <2>2, <2>5 DEF TransactionInv, Looked, InputSeen, FrontierSeen
  <2> QED
    BY <2>3, <2>4, <2>6 DEF TransactionInv
<1> QED
  BY <1>3, <1>4 DEF ValidateProjection

LEMMA EndKeeps ==
  ASSUME TransactionInv, EndValidation
  PROVE  TransactionInv'
<1>1. /\ UNCHANGED <<barrier, files, calls, built, completed, seen>>
      /\ validation.of \in {"finalize", "commit"} /\ validation.left = {}
  BY DEF EndValidation
<1>2. /\ phase # "open" /\ Active = {} /\ OwnersOnce(completed)
  BY <1>1 DEF TransactionInv, Closed, NoValidation
<1>3. \/ /\ final' = {completed} /\ phase' = "finalized"
         /\ validation' = [of |-> "none", left |-> {}, now |-> {}]
      \/ /\ UNCHANGED <<phase, final>> /\ validation.of = "commit"
         /\ validation' = [of |-> "committed", left |-> {}, now |-> {}]
  BY <1>1 DEF EndValidation, NoValidation
<1>4. Shapes' /\ Recorded' /\ FacadeIsTheCommitters' /\ Active' = Active
  BY <1>1, <1>3, CallsRest
<1>5. Closed'
  BY <1>1, <1>2, <1>3, <1>4 DEF TransactionInv, Closed, OwnersOnce,
       NoValidation
<1>6. Looked'
  BY <1>1, <1>3 DEF TransactionInv, Looked, InputSeen, FrontierSeen
<1> QED
  BY <1>4, <1>5, <1>6 DEF TransactionInv

----------------------------------------------------------------------------
LEMMA StutterKeeps ==
  ASSUME TransactionInv, UNCHANGED classified
  PROVE  TransactionInv'
BY  DEF TransactionInv, classified, transaction, Shapes, Recorded,
     FacadeIsTheCommitters, Closed, OwnersOnce, Active, Looked, InputSeen,
     FrontierSeen

LEMMA TransactionKeeps == TransactionInv /\ [TransactionNext]_classified
                            => TransactionInv'
<1> SUFFICES ASSUME TransactionInv, [TransactionNext]_classified
             PROVE  TransactionInv'
  OBVIOUS
<1>1. CASE EditFile
  BY <1>1, EditKeeps
<1>2. ASSUME NEW c \in Calls, NEW o \in Owners, SealAuthorityInput(c, o)
      PROVE  TransactionInv'
  BY <1>2, SealKeeps
<1>3. ASSUME NEW c \in Calls,
             \/ AuthorizeOwner(c) \/ Identify(c) \/ Verify(c) \/ Complete(c)
             \/ UseAuthority(c)
      PROVE  TransactionInv'
  BY <1>3, AuthorizeOwnerKeeps, IdentifyKeeps, VerifyKeeps, CompleteKeeps,
     UseKeeps
<1>4. ASSUME NEW b \in built, BuildAuthority(b)
      PROVE  TransactionInv'
  BY <1>4, BuildKeeps
<1>5. CASE \/ Finalize \/ BeginFinalization \/ BeginCommit
           \/ VerifyFingerprint \/ EndValidation
  BY <1>5, FinalizeKeeps, BeginFinalizationKeeps, BeginCommitKeeps,
     FingerprintKeeps, EndKeeps
<1>6. ASSUME NEW a \in completed, ValidateInput(a) \/ ValidateProjection(a)
      PROVE  TransactionInv'
  BY <1>6, ValidateInputKeeps, ValidateProjectionKeeps
<1>7. CASE UNCHANGED classified
  BY <1>7, StutterKeeps
<1> QED
  BY <1>1, <1>2, <1>3, <1>4, <1>5, <1>6, <1>7 DEF TransactionNext

LEMMA TransactionHolds == TransactionSpec => []TransactionInv
BY TransactionBegins, TransactionKeeps, PTL DEF TransactionSpec

----------------------------------------------------------------------------
(* What a run checks.                                                      *)

LEMMA ByTheInvariant == TransactionInv => HandedOutThenCommitted
<1> SUFFICES ASSUME TransactionInv PROVE HandedOutThenCommitted
  OBVIOUS
<1>1. \A authorities \in final : authorities = completed
  BY DEF TransactionInv, Closed
<1>2. final # {} => OwnersOnce(completed)
  BY DEF TransactionInv, Closed
<1>3. \A a \in Finalized : a \in completed
  BY <1>1 DEF Finalized
<1>4. \A c \in Calls :
        calls[c].at \in {"done", "used"} => calls[c].authority \in completed
  BY DEF TransactionInv, Recorded
<1>5. validation.of = "committed" =>
        \A a \in completed : InputSeen(a) /\ FrontierSeen(a)
  BY DEF TransactionInv, Looked
<1> QED
  BY <1>1, <1>2, <1>3, <1>4, <1>5 DEF HandedOutThenCommitted, InputSeen,
       FrontierSeen

\* However the authorizations overlap and the files change, what is finalized
\* is one authority for each owner and every authority anybody holds; and a
\* commit follows moments, since the committer began, at which the bytes, the
\* frontier and the facade were those classified
\* (classifier-candidate.ts:541-654, 691-849).
THEOREM CommitsWhatIsCurrent == TransactionSpec => []HandedOutThenCommitted
BY TransactionHolds, ByTheInvariant, PTL

----------------------------------------------------------------------------
(* The paths of a small workspace                                          *)

\* The names that paths and specifiers are made of.
Names ==
  {"app", "lib", "src", "gen", "link", "index", "index.ts", "a.ts", "b.ts",
   "c.ts", "@", "m", "#m", "intl", "react"}
Path == Seq(Names)
Imports ==
  [form : {"relative", "name", "hash"}, path : Path, mode : {"import", "require"}]

\* The names are names.
LEMMA NamesAre ==
  /\ "app" \in Names /\ "lib" \in Names /\ "src" \in Names /\ "gen" \in Names
  /\ "link" \in Names /\ "index" \in Names /\ "index.ts" \in Names /\ "a.ts" \in Names
  /\ "b.ts" \in Names /\ "c.ts" \in Names /\ "@" \in Names /\ "m" \in Names
  /\ "#m" \in Names /\ "intl" \in Names /\ "react" \in Names
BY DEF Names

OptionsTyped(options) ==
  /\ \A p \in options.paths : p.prefix \in Path /\ p.to \in Seq(Path)
  /\ options.baseUrl # Nil => options.baseUrl \in Path
  /\ options.rootDirs \in Seq(Path)

\* An import stands once in a source.
ImportsTyped(imports) ==
  /\ imports \in Seq(Imports)
  /\ \A m, n \in DOMAIN imports : imports[m] = imports[n] => m = n

WorldTyped(w) ==
  /\ \A o \in Projects : OptionsTyped(w.options[o])
  /\ \A s \in AllSources : ImportsTyped(w.imports[s])

\* The directories and the files of the small workspaces are paths.
LEMMA PathsOfTheWorlds ==
  /\ App \in Path /\ Gen \in Path /\ Src \in Path /\ Facade \in Path
  /\ SourceA \in Path /\ SourceB \in Path /\ SourceC \in Path
  /\ Append(Gen, "index") \in Path /\ Append(Src, "index") \in Path
  /\ Append(Src, "c.ts") \in Path
<1>1. App \in Path /\ Gen \in Path /\ Src \in Path
  BY NamesAre DEF Path, App, Gen, Src
<1>2. Facade \in Path /\ SourceA \in Path /\ SourceB \in Path /\ SourceC \in Path
  BY NamesAre DEF Path, Facade, SourceA, SourceB, SourceC
<1>3. /\ Append(Gen, "index") \in Path /\ Append(Src, "index") \in Path
      /\ Append(Src, "c.ts") \in Path
  BY <1>1, NamesAre, AppendProperties DEF Path
<1> QED BY <1>1, <1>2, <1>3

\* A project's options have paths where ProjectedPaths looks for them.
LEMMA OptionChoicesTyped ==
  ASSUME NEW options \in OptionChoices
  PROVE  OptionsTyped(options)
<1>1. /\ PlainOptions.paths = {} /\ PlainOptions.rootDirs = << >>
      /\ PlainOptions.baseUrl = Nil
  BY DEF PlainOptions
<1>2. PlainOptions = [paths |-> {}, baseUrl |-> Nil, rootDirs |-> <<>>, doubt |-> Nil]
  BY DEF PlainOptions
<1>3. CASE options \in {PlainOptions, [PlainOptions EXCEPT !.doubt = "preserve-symlinks"]}
  <2>1. options.paths = {} /\ options.rootDirs = << >> /\ options.baseUrl = Nil
    BY <1>2, <1>3
  <2> QED BY <2>1 DEF OptionsTyped
<1>4. CASE options = [PlainOptions EXCEPT !.baseUrl = App]
  BY <1>2, <1>4, PathsOfTheWorlds DEF OptionsTyped
<1>5. CASE options = [PlainOptions EXCEPT !.rootDirs = <<Src, Gen>>]
  BY <1>2, <1>5, PathsOfTheWorlds DEF OptionsTyped
<1>6. CASE options = [PlainOptions EXCEPT !.paths =
      {[prefix |-> <<"@">>, star |-> TRUE, to |-> <<Src>>],
       [prefix |-> <<"@", "gen">>, star |-> TRUE, to |-> <<Src, Gen>>]}]
  <2>1. <<"@">> \in Path /\ <<"@", "gen">> \in Path
    BY NamesAre DEF Path
  <2>2. <<Src>> \in Seq(Path) /\ <<Src, Gen>> \in Seq(Path)
    BY PathsOfTheWorlds
  <2> DEFINE one == [prefix |-> <<"@">>, star |-> TRUE, to |-> <<Src>>]
             two == [prefix |-> <<"@", "gen">>, star |-> TRUE, to |-> <<Src, Gen>>]
  <2>3. /\ one.prefix \in Path /\ one.to \in Seq(Path)
        /\ two.prefix \in Path /\ two.to \in Seq(Path)
    BY <2>1, <2>2
  <2>4. options.paths = {one, two} /\ options.rootDirs = << >> /\ options.baseUrl = Nil
    BY <1>2, <1>6
  <2> HIDE DEF one, two
  <2> QED BY <2>3, <2>4 DEF OptionsTyped
<1>7. CASE options = [PlainOptions EXCEPT !.baseUrl = App, !.paths =
      {[prefix |-> <<"@">>, star |-> FALSE,
        to |-> <<Facade, Append(Gen, "index")>>]}]
  <2>1. <<"@">> \in Path
    BY NamesAre DEF Path
  <2> DEFINE one == [prefix |-> <<"@">>, star |-> FALSE,
                     to |-> <<Facade, Append(Gen, "index")>>]
  <2>2. one.prefix \in Path /\ one.to \in Seq(Path)
    BY <2>1, PathsOfTheWorlds
  <2>3. options.paths = {one} /\ options.rootDirs = << >> /\ options.baseUrl = App
    BY <1>2, <1>7
  <2> HIDE DEF one
  <2> QED BY <2>2, <2>3, PathsOfTheWorlds DEF OptionsTyped
<1> QED BY <1>3, <1>4, <1>5, <1>6, <1>7 DEF OptionChoices

\* Every specifier that a source may import has a form, a path and a mode.
LEMMA SpecifiersTyped ==
  ASSUME NEW b \in Specifiers
  PROVE  b \in Imports
<1>1. /\ <<"app", "src", "link", "index">> \in Path
      /\ <<"app", "src", "link", "index.ts">> \in Path
  BY NamesAre DEF Path
<1>2. /\ <<"@">> \in Path /\ <<"gen">> \in Path /\ <<"react">> \in Path
      /\ <<"intl">> \in Path /\ <<"#m">> \in Path
  BY NamesAre DEF Path
<1>3. /\ <<"@", "gen", "index">> \in Path
      /\ <<"intl", "gen", "index">> \in Path
      /\ <<"intl", "m", "gen", "index.ts">> \in Path
  BY NamesAre DEF Path
<1>4. CASE b \in {Boundary("relative", path, "import") :
     path \in {Append(Gen, "index"), Append(Src, "index"), Append(Src, "c.ts"),
               <<"app", "src", "link", "index">>,
               <<"app", "src", "link", "index.ts">>}}
  <2>1. PICK path \in {Append(Gen, "index"), Append(Src, "index"), Append(Src, "c.ts"),
                        <<"app", "src", "link", "index">>,
                        <<"app", "src", "link", "index.ts">>} :
          b = Boundary("relative", path, "import")
    BY <1>4, Zenon
  <2>2. path \in Path
    BY <1>1, <2>1, PathsOfTheWorlds
  <2> QED BY <2>1, <2>2 DEF Boundary, Imports
<1>5. CASE b \in {Boundary("name", path, mode) : mode \in {"import", "require"},
          path \in {<<"@">>, <<"@", "gen", "index">>, <<"gen">>, <<"react">>,
                    <<"intl">>, <<"intl", "gen", "index">>,
                    <<"intl", "m", "gen", "index.ts">>}}
  BY <1>2, <1>3, <1>5 DEF Boundary, Imports
<1>6. CASE b = Boundary("hash", <<"#m">>, "import")
  BY <1>2, <1>6 DEF Boundary, Imports
<1> QED BY <1>4, <1>5, <1>6 DEF Specifiers

\* A source with one import.
LEMMA SingleTyped ==
  ASSUME NEW b \in Imports
  PROVE  ImportsTyped(<<b>>)
BY DEF ImportsTyped

\* The imports of the worlds: one, or two that differ.
LEMMA ImportsOfOneTyped ==
  ASSUME NEW i \in OneImport \cup TwoImports
  PROVE  ImportsTyped(i.a) /\ ImportsTyped(i.b) /\ ImportsTyped(i.c)
<1>1. ImportsTyped(<<>>)
  BY DEF ImportsTyped
<1>2. ToFacade \in Imports /\ ToFacade.form = "relative"
  BY PathsOfTheWorlds DEF ToFacade, Boundary, Imports
<1>3. Boundary("name", <<"intl">>, "import") \in Imports
  BY NamesAre DEF Boundary, Imports, Path
<1>4. ImportsTyped(<<Boundary("name", <<"react">>, "import"), ToFacade>>)
  <2> DEFINE r == Boundary("name", <<"react">>, "import")
  <2>1. r \in Imports /\ r.form = "name"
    BY NamesAre DEF Boundary, Imports, Path
  <2> HIDE DEF r
  <2>2. ImportsTyped(<<r, ToFacade>>)
    BY <1>2, <2>1 DEF ImportsTyped
  <2> QED BY <2>2 DEF r
<1>5. CASE i \in OneImport
  BY <1>1, <1>2, <1>5, SingleTyped, SpecifiersTyped DEF OneImport
<1>6. CASE i \in TwoImports
  BY <1>1, <1>2, <1>3, <1>4, <1>6, SingleTyped DEF TwoImports
<1> QED BY <1>5, <1>6

\* Every workspace that a classification may begin with is typed.
LEMMA WorldsTyped ==
  ASSUME NEW w \in Worlds
  PROVE  WorldTyped(w)
<1>1. PICK o \in OptionChoices : \E m, l : \E i \in OneImport \cup TwoImports :
         w = WorkspaceOf(o, m, l, i)
  <2>1. PlainOptions \in OptionChoices
    BY DEF OptionChoices
  <2> QED BY <2>1 DEF Worlds
<1>2. PICK m, l, i : i \in OneImport \cup TwoImports /\ w = WorkspaceOf(o, m, l, i)
  BY <1>1
<1>3. SourceA # SourceB /\ SourceA # SourceC /\ SourceB # SourceC
  BY DEF SourceA, SourceB, SourceC
<1>4. \A s \in AllSources : ImportsTyped(w.imports[s])
  BY <1>2, <1>3, ImportsOfOneTyped DEF WorkspaceOf, AllSources
<1>5. PlainOptions \in OptionChoices
  BY DEF OptionChoices
<1>6. \A p \in Projects : OptionsTyped(w.options[p])
  BY <1>2, <1>5, OptionChoicesTyped DEF WorkspaceOf, Projects
<1> QED BY <1>4, <1>6 DEF WorldTyped

\* Sets of numbers have least elements; what follows takes them by WFMin.
LEMMA NatIsWellFounded == IsWellFoundedOn(OpToRel(<, Nat), Nat)
BY NatLessThanWellFounded

\* A bounded set of numbers has a greatest one.
LEMMA GreatestExists ==
  ASSUME NEW T, T \subseteq Nat, T # {}, NEW n \in Nat, \A t \in T : t <= n
  PROVE  \E m \in T : \A t \in T : t <= m
<1> DEFINE D == {n - t : t \in T}
<1>1. D \subseteq Nat /\ D # {}
  <2>1. \A t \in T : n - t \in Nat
    OBVIOUS
  <2>2. PICK t \in T : TRUE
    OBVIOUS
  <2>3. n - t \in D
    BY <2>2
  <2> QED BY <2>1, <2>3
<1>2. PICK x \in D : \A y \in D : ~(<<y, x>> \in OpToRel(<, Nat))
  BY <1>1, NatIsWellFounded, WFMin
<1>3. PICK m \in T : x = n - m
  OBVIOUS
<1>4. ASSUME NEW t \in T PROVE t <= m
  <2>1. n - t \in D /\ n - t \in Nat /\ x \in Nat
    BY <1>1
  <2>2. ~(n - t < x)
    BY <1>2, <2>1 DEF OpToRel
  <2> QED BY <1>3, <2>1, <2>2
<1> QED BY <1>4

\* The CHOOSE of LongestCommonPrefix finds one, and no longer than either.
LEMMA CommonPrefixLength ==
  ASSUME NEW p \in Path, NEW q \in Path
  PROVE  Len(LongestCommonPrefix({p, q})) \in 0..Len(p)
<1> DEFINE X == CommonPrefixes({p, q})
<1>0. Len(p) \in Nat /\ Len(q) \in Nat
  BY DEF Path
<1>1. \A x \in X : Len(x) \in 0..Len(p)
  <2>1. SUFFICES ASSUME NEW x \in X PROVE Len(x) \in 0..Len(p)
    OBVIOUS
  <2>2. PICK r \in {p, q} : \E l \in 0..Len(r) : x = SubSeq(r, 1, l)
    BY DEF CommonPrefixes, Prefixes
  <2>3. Len(x) \in Nat
    BY <1>0, <2>2, SubSeqProperties DEF Path
  <2>4. IsPrefix(x, p)
    BY DEF CommonPrefixes
  <2> QED BY <1>0, <2>3, <2>4 DEF IsPrefix
<1>2. << >> \in X
  <2>1. SubSeq(p, 1, 0) = << >>
    BY SubSeqEmpty
  <2>2. << >> \in Prefixes(p)
    BY <1>0, <2>1 DEF Prefixes
  <2>3. IsPrefix(<< >>, p) /\ IsPrefix(<< >>, q)
    BY <1>0, SubSeqEmpty DEF IsPrefix
  <2> QED BY <2>2, <2>3 DEF CommonPrefixes
<1>3. PICK m \in {Len(x) : x \in X} : \A t \in {Len(x) : x \in X} : t <= m
  <2> DEFINE T == {Len(x) : x \in X}
  <2>1. T \subseteq Nat /\ T # {} /\ \A t \in T : t <= Len(p)
    <3> HIDE DEF X
    <3>1. Len(<< >>) \in T
      BY <1>2
    <3>2. \A t \in T : t \in 0..Len(p)
      BY <1>1
    <3> HIDE DEF T
    <3> QED BY <1>0, <3>1, <3>2
  <2> HIDE DEF T
  <2>2. \E m \in T : \A t \in T : t <= m
    BY <1>0, <2>1, GreatestExists
  <2> QED BY <2>2 DEF T
<1>4. PICK y \in X : Len(y) = m
  OBVIOUS
<1>5. \A x \in X : Len(x) <= Len(y)
  BY <1>3, <1>4
<1>6. LongestCommonPrefix({p, q}) \in X
  BY <1>4, <1>5 DEF LongestCommonPrefix
<1> QED BY <1>1, <1>6

\* A part of a path is a path.
LEMMA SubPath ==
  ASSUME NEW p \in Path, NEW m \in Nat \ {0}, NEW n \in 0..Len(p)
  PROVE  SubSeq(p, m, n) \in Path
<1>1. Len(p) \in Nat /\ \A i \in m..n : p[i] \in Names
  BY DEF Path
<1> QED BY <1>1, SubSeqProperties DEF Path

\* What comes after a prefix is a path.
LEMMA AfterIsPath ==
  ASSUME NEW p \in Path, NEW q \in Path
  PROVE  After(p, q) \in Path
BY SubPath DEF After, Path

\* A path taken from one root directory to another is a path (projectedPaths).
LEMMA RebaseIsPath ==
  ASSUME NEW p \in Path, NEW q \in Path, NEW r \in Path
  PROVE  Rebase(p, q, r) \in Path
<1> DEFINE common == LongestCommonPrefix({p, r})
<1>1. Len(common) \in 0..Len(p) /\ Len(p) \in Nat /\ Len(q) \in Nat /\ Len(r) \in Nat
  BY CommonPrefixLength DEF Path
<1>2. SubSeq(q, 1, Len(q) - (Len(p) - Len(common))) \in Path
  <2>1. Len(q) - (Len(p) - Len(common)) \in Int
     /\ Len(q) - (Len(p) - Len(common)) <= Len(q)
    BY <1>1
  <2>2. \A i \in 1..(Len(q) - (Len(p) - Len(common))) : q[i] \in Names
    BY <1>1, <2>1 DEF Path
  <2> QED BY <2>1, <2>2, SubSeqProperties DEF Path
<1>3. SubSeq(r, Len(common) + 1, Len(r)) \in Path
  BY <1>1, SubPath
<1> QED BY <1>2, <1>3, ConcatProperties, Zenon DEF Rebase, After, Path

\* The winning pattern is one of those that match (winningPackageMapTarget).
LEMMA WinningMatches ==
  ASSUME NEW patterns, \A p \in patterns : p.prefix \in Path, NEW path \in Path,
         Matching(patterns, path) # {}
  PROVE  Winning(patterns, path) \in patterns
<1> DEFINE all == Matching(patterns, path)
           exact == {p \in all : ~p.star}
<1>1. all \subseteq patterns
  BY DEF Matching
<1>2. CASE exact # {}
  BY <1>1, <1>2 DEF Winning
<1>3. CASE exact = {}
  <2>0. Len(path) \in Nat /\ \A p \in all : Len(p.prefix) \in Nat
    BY <1>1 DEF Path
  <2>1. \A p \in all : Len(p.prefix) <= Len(path)
    BY <2>0, <1>3 DEF Matching, Within, IsPrefix
  <2> DEFINE T == {Len(p.prefix) : p \in all}
  <2>2. T \subseteq Nat /\ T # {} /\ \A t \in T : t <= Len(path)
    BY <2>0, <2>1
  <2>3. PICK m \in T : \A t \in T : t <= m
    <3> HIDE DEF T
    <3> QED BY <2>0, <2>2, GreatestExists
  <2>4. PICK p \in all : Len(p.prefix) = m
    OBVIOUS
  <2>5. \A q \in all : Len(p.prefix) >= Len(q.prefix)
    BY <2>0, <2>3, <2>4
  <2> QED BY <1>1, <1>3, <2>4, <2>5 DEF Winning
<1> QED BY <1>2, <1>3

\* A set of numbers has a least one.
LEMMA LeastExists ==
  ASSUME NEW T, T \subseteq Nat, T # {}
  PROVE  Min(T) \in T
<1>1. PICK x \in T : \A y \in T : ~(<<y, x>> \in OpToRel(<, Nat))
  BY NatIsWellFounded, WFMin
<1>2. \A y \in T : x <= y
  <2>1. SUFFICES ASSUME NEW y \in T PROVE x <= y
    OBVIOUS
  <2>2. x \in Nat /\ y \in Nat /\ ~(y < x)
    BY <1>1 DEF OpToRel
  <2> QED BY <2>2
<1> QED BY <1>1, <1>2 DEF Min

\* Every path that an import is projected to is one.
AllPaths(paths) ==
  /\ \A k \in DOMAIN paths : paths[k] \in Path
  /\ DOMAIN paths = {} => paths = <<>>

\* An import of a typed world, with the options it is resolved under.
LEMMA ImportIsTyped ==
  ASSUME WorldTyped(world), NEW s \in AllSources, NEW n \in Boundaries(s)
  PROVE  /\ world.imports[s][n] \in Imports
         /\ OptionsTyped(world.options[OwnerOf(s)])
         /\ OwnerOf(s) \in Projects
<1>1. ImportsTyped(world.imports[s]) /\ n \in DOMAIN world.imports[s]
  BY DEF WorldTyped, Boundaries
<1>2. world.imports[s][n] \in Imports
  <2> DEFINE i == world.imports[s]
  <2>1. i \in Seq(Imports) /\ n \in DOMAIN i
    BY <1>1 DEF ImportsTyped
  <2> HIDE DEF i
  <2>2. i[n] \in Imports
    BY <2>1
  <2> QED BY <2>2 DEF i
<1>3. OwnerOf(s) \in Projects
  BY DEF AllSources, SourceA, SourceB, SourceC, OwnerOf, Projects
<1> QED BY <1>2, <1>3 DEF WorldTyped

\* A function of paths lists paths, and is << >> over no positions.
LEMMA AllMapped ==
  ASSUME NEW D, NEW g, g = [k \in D |-> g[k]], \A k \in D : g[k] \in Path
  PROVE  AllPaths(g)
<1>1. DOMAIN g = D
  OBVIOUS
<1>2. CASE D = {}
  <2>1. g = << >>
    BY <1>2
  <2> QED BY <1>1, <1>2, <2>1 DEF AllPaths
<1> QED BY <1>1, <1>2 DEF AllPaths

\* Whatever an import is projected by, it is projected to paths.
LEMMA ProjectedAre ==
  ASSUME NEW s, NEW b \in Imports, NEW options, OptionsTyped(options)
  PROVE  AllPaths(ProjectedPaths(s, b, options).paths)
<1> DEFINE roots == ContainingRoots(s, options)
           projected == ProjectedPaths(s, b, options).paths
<1>1. b.path \in Path
  BY DEF Imports
<1>2. CASE b.form = "relative" /\ roots = {}
  <2>1. projected = <<b.path>>
    BY <1>2 DEF ProjectedPaths
  <2> QED BY <1>1, <2>1 DEF AllPaths
<1>3. CASE b.form = "relative" /\ roots # {}
  <2> DEFINE first == options.rootDirs[Min(roots)]
  <2>1. projected = [k \in DOMAIN options.rootDirs |->
                       Rebase(first, options.rootDirs[k], b.path)]
    BY <1>3 DEF ProjectedPaths
  <2>2. /\ DOMAIN options.rootDirs \subseteq Nat
        /\ \A k \in DOMAIN options.rootDirs : options.rootDirs[k] \in Path
    BY DEF OptionsTyped
  <2>3. roots \subseteq DOMAIN options.rootDirs
    BY DEF ContainingRoots
  <2>4. Min(roots) \in roots
    BY <1>3, <2>2, <2>3, LeastExists
  <2>5. first \in Path
    BY <2>2, <2>3, <2>4
  <2> HIDE DEF first, projected
  <2>6. \A k \in DOMAIN options.rootDirs :
          Rebase(first, options.rootDirs[k], b.path) \in Path
    BY <1>1, <2>2, <2>5, RebaseIsPath
  <2>7. AllPaths(projected)
    <3>1. /\ projected = [k \in DOMAIN options.rootDirs |-> projected[k]]
          /\ \A k \in DOMAIN options.rootDirs : projected[k] \in Path
      BY <2>1, <2>6
    <3> QED BY <3>1, AllMapped
  <2> QED BY <2>7 DEF projected
<1>4. CASE b.form # "relative" /\ Matching(options.paths, b.path) # {}
  <2> DEFINE p == Winning(options.paths, b.path)
             rest == After(p.prefix, b.path)
  <2>1. p \in options.paths
    BY <1>1, <1>4, WinningMatches DEF OptionsTyped
  <2>2. p.prefix \in Path /\ p.to \in Seq(Path)
    BY <2>1 DEF OptionsTyped
  <2>3. rest \in Path
    BY <1>1, <2>2, AfterIsPath
  <2>4. projected = [k \in DOMAIN p.to |-> p.to[k] \o rest]
    BY <1>4 DEF ProjectedPaths, WinningPathSubstitutions
  <2> HIDE DEF p, rest, projected
  <2>5. \A k \in DOMAIN p.to : p.to[k] \o rest \in Path
    <3>1. \A k \in DOMAIN p.to : p.to[k] \in Path
      BY <2>2
    <3> QED BY <2>3, <3>1, ConcatProperties DEF Path
  <2>6. AllPaths(projected)
    <3>1. /\ projected = [k \in DOMAIN p.to |-> projected[k]]
          /\ \A k \in DOMAIN p.to : projected[k] \in Path
      BY <2>4, <2>5
    <3> QED BY <3>1, AllMapped
  <2> QED BY <2>6 DEF projected
<1>5. CASE /\ b.form # "relative" /\ Matching(options.paths, b.path) = {}
           /\ options.baseUrl # Nil
  <2>1. projected = <<options.baseUrl \o b.path>>
    BY <1>5 DEF ProjectedPaths
  <2>2. options.baseUrl \o b.path \in Path
    <3>1. options.baseUrl \in Path
      BY <1>5 DEF OptionsTyped
    <3> QED BY <1>1, <3>1, ConcatProperties DEF Path
  <2>3. ASSUME NEW path \in Path PROVE AllPaths(<<path>>)
    BY DEF AllPaths
  <2> QED BY <2>1, <2>2, <2>3, Zenon
<1>6. CASE /\ b.form # "relative" /\ Matching(options.paths, b.path) = {}
           /\ options.baseUrl = Nil
  <2>1. projected = <<>>
    BY <1>6 DEF ProjectedPaths
  <2> QED BY <2>1 DEF AllPaths
<1> QED BY <1>2, <1>3, <1>4, <1>5, <1>6

\* A path in the facade's directory is near the facade.
LEMMA InGenIsNear ==
  ASSUME NEW p \in Path, DirName(p) = Gen
  PROVE  NearFacade(p)
<1>1. p # <<>>
  BY DEF DirName, Gen
<1>2. SubSeq(p, 1, Len(p) - 1) = Gen
  BY <1>1 DEF DirName, Front
<1>3. Len(p) \in Nat /\ Len(p) # 0
  BY <1>1, EmptySeq DEF Path
<1>4. Len(Gen) = 2
  BY DEF Gen
<1>5. Len(SubSeq(p, 1, Len(p) - 1)) = Len(p) - 1
  <2>1. ASSUME NEW n \in Nat, \A i \in 1..n : p[i] \in Names
        PROVE  Len(SubSeq(p, 1, n)) = n
    BY <2>1, SubSeqProperties, SMT
  <2>2. ASSUME NEW n \in Nat, n <= Len(p)
        PROVE  Len(SubSeq(p, 1, n)) = n
    BY <2>2, SMT DEF Path
  <2>3. Len(p) - 1 \in Nat /\ Len(p) - 1 <= Len(p)
    BY <1>3
  <2> QED BY <2>2, <2>3, Zenon
<1>6. SubSeq(p, 1, 2) = Gen /\ Len(Gen) <= Len(p)
  <2>1. Len(p) - 1 = 2
    BY <1>2, <1>4, <1>5
  <2>2. SubSeq(p, 1, 2) = Gen
    BY <1>2, <2>1, Zenon
  <2>3. Len(Gen) <= Len(p)
    BY <1>3, <1>4, <2>1
  <2> QED BY <2>2, <2>3
<1>7. SubSeq(Gen, 1, 2) = Gen
  <2>1. Gen \in Seq(Names)
    BY PathsOfTheWorlds DEF Path
  <2> QED BY <1>4, <2>1, SubSeqFull
<1> QED BY <1>4, <1>6, <1>7 DEF NearFacade, Within, IsPrefix

\* The rows of a boundary: at least one, and all of one kind.
RowsAreGood(b, paths, rows) ==
  /\ DOMAIN rows # {}
  /\ \A k \in DOMAIN rows :
       rows[k] = [canonicalRoot |-> rows[k].canonicalRoot,
                  lexicalRoot |-> rows[k].lexicalRoot, kind |-> rows[k].kind]
  /\ \A j, k \in DOMAIN rows : rows[j].kind = rows[k].kind
  /\ ~CandidateBySpecifier(b, paths) =>
       \A k \in DOMAIN rows : rows[k].lexicalRoot # Gen

\* Rows writes at least one row, all of one kind, and a boundary that its
\* specifier makes no candidate has none in the directory of the facade.
LEMMA RowsOfABoundary ==
  ASSUME NEW s, NEW b \in Imports, NEW options, OptionsTyped(options)
  PROVE  RowsAreGood(b, ProjectedPaths(s, b, options).paths, Rows(s, b, options))
<1> DEFINE projected == ProjectedPaths(s, b, options)
           paths == projected.paths
           evidence == IF paths = <<>> THEN << <<>> >> ELSE paths
           kind == IF b.form = "hash" THEN "package-imports"
              ELSE IF /\ b.form = "name"
                      /\ b.path \in FacadeSpecifiers
              THEN "facade-package-export" ELSE projected.kind
           rows == Rows(s, b, options)
<1>1. AllPaths(paths)
  BY ProjectedAre
<1>2. rows = [k \in DOMAIN evidence |->
               [canonicalRoot |-> DirName(CanonicalProjectedPath(evidence[k])),
                lexicalRoot |-> DirName(evidence[k]), kind |-> kind]]
  BY Zenon DEF Rows
<1> HIDE DEF projected, kind
<1>3. DOMAIN evidence # {}
  BY <1>1 DEF AllPaths
<1>4. ASSUME ~CandidateBySpecifier(b, paths), NEW k \in DOMAIN evidence
      PROVE  DirName(evidence[k]) # Gen
  <2>1. CASE paths = <<>>
    <3>1. evidence[k] = << >>
      BY <2>1
    <3> QED BY <3>1 DEF DirName, Gen
  <2>2. CASE paths # <<>>
    <3>1. evidence[k] \in Path /\ k \in DOMAIN paths /\ evidence[k] = paths[k]
      BY <1>1, <2>2 DEF AllPaths
    <3>2. ~NearFacade(evidence[k])
      BY <1>4, <3>1 DEF CandidateBySpecifier
    <3> QED BY <3>1, <3>2, InGenIsNear
  <2> QED BY <2>1, <2>2
<1> HIDE DEF evidence, paths, rows
<1>5. \A k \in DOMAIN evidence : rows[k] =
               [canonicalRoot |-> DirName(CanonicalProjectedPath(evidence[k])),
                lexicalRoot |-> DirName(evidence[k]), kind |-> kind]
  BY <1>2
<1>6. DOMAIN rows = DOMAIN evidence
  BY <1>2
<1>7. RowsAreGood(b, paths, rows)
  BY <1>3, <1>4, <1>5, <1>6 DEF RowsAreGood
<1> QED BY <1>7 DEF rows, projected, paths

----------------------------------------------------------------------------
(* One wrong fact                                                          *)

\* The operators of the assembly depend on the classifier and the ledger only.
LEMMA WorldFrame ==
  ASSUME UNCHANGED <<classifier, ledger>>
  PROVE  /\ (IndexControl)' = IndexControl
         /\ \A s : Boundaries(s)' = Boundaries(s)
         /\ \A s, n : SpecifierOf(s, n)' = SpecifierOf(s, n)
         /\ Canonical(Gen)' = Canonical(Gen)
         /\ \A o : ModeOf(o)' = ModeOf(o)
         /\ \A s : Requests(s)' = Requests(s)
         /\ \A o : ProjectedRoots(o)' = ProjectedRoots(o)
BY DEF IndexControl, FacadePackage, ManifestsAbove, Boundaries, SpecifierOf,
       Canonical, ModeOf, Requests, Frontier, ProjectedRoots, classifier

\* The indexes stay while the classifier and the ledger do.
LEMMA IndexFrame ==
  ASSUME UNCHANGED <<classifier, ledger>>
  PROVE  CandidateIndexes' = CandidateIndexes
BY WorldFrame DEF CandidateIndexes, classifier

\* The bindings stay while the classifier and the ledger do.
LEMMA BindingFrame ==
  ASSUME UNCHANGED <<classifier, ledger>>
  PROVE  ClassifierBindings' = ClassifierBindings
BY WorldFrame DEF ClassifierBindings, classifier

\* The tables stay while the classifier and the ledger do.
LEMMA TablesFrame ==
  ASSUME UNCHANGED <<classifier, ledger>>
  PROVE  Tables' = Tables
<1>1. MergedPackageScopes' = MergedPackageScopes
  BY IndexFrame DEF MergedPackageScopes
<1>2. (Tables.frontiers)' = Tables.frontiers
  BY WorldFrame DEF Tables, classifier
<1>3. (Tables.boundaries)' = Tables.boundaries
  BY WorldFrame DEF Tables, classifier
<1> QED BY <1>1, <1>2, <1>3 DEF Tables, classifier

\* The sources of the receipt stay while the classifier and the ledger do.
LEMMA SourcesFrame ==
  ASSUME UNCHANGED <<classifier, ledger>>
  PROVE  ReceiptSources' = ReceiptSources
BY DEF ReceiptSources

\* Hence the receipt that would be assembled stays.
LEMMA AllFrame ==
  ASSUME UNCHANGED <<classifier, ledger>>
  PROVE AssembledReceipt' = AssembledReceipt
BY IndexFrame, BindingFrame, TablesFrame, SourcesFrame
   DEF AssembledReceipt, Completed, Counters, Envelope, RequiresProgram

\* What the reader says of a receipt depends on that and on the receipt.
LEMMA AccFrame ==
  ASSUME UNCHANGED <<classifier, ledger, receipt>>
  PROVE Accepts(receipt)' = Accepts(receipt)
<1>1. \A s : ReadTables(receipt)' = ReadTables(receipt)
  BY DEF ReadTables, Unique
<1>2. ReadCandidateIndexes(receipt)' = ReadCandidateIndexes(receipt)
  BY DEF ReadCandidateIndexes, Unique, ProjectionIdentity
<1>3. ReadProviderClosures(receipt)' = ReadProviderClosures(receipt)
  BY DEF ReadProviderClosures, Unique
<1>4. ReadClassifierBindings(receipt)' = ReadClassifierBindings(receipt)
  BY DEF ReadClassifierBindings, ReadClassifierBinding, Unique, The, ReadRequest
<1>5. SourcesRelate(receipt)' = SourcesRelate(receipt)
  BY DEF SourcesRelate, SourceRelates, The, ExpectedDecision, RequiresProgram
<1>6. IndexesRelate(receipt)' = IndexesRelate(receipt)
  BY WorldFrame DEF IndexesRelate, IndexRelates
<1>7. EvidenceRelates(receipt)' = EvidenceRelates(receipt)
  BY DEF EvidenceRelates
<1>8. /\ ScopesRelate(receipt)' = ScopesRelate(receipt)
      /\ ExceptionsRelate(receipt)' = ExceptionsRelate(receipt)
      /\ UniverseIsCurrent(receipt)' = UniverseIsCurrent(receipt)
      /\ (receipt.counters = Counters(receipt))' = (receipt.counters = Counters(receipt))
      /\ (receipt.envelope = Envelope(receipt))' = (receipt.envelope = Envelope(receipt))
  BY DEF ScopesRelate, ExceptionsRelate, UniverseIsCurrent, Counters, Envelope,
         RequiresProgram
<1> QED BY <1>1, <1>2, <1>3, <1>4, <1>5, <1>6, <1>7, <1>8, Zenon DEF Accepts

OnceWrong ==
  \/ \E r \in Damages(AssembledReceipt) : receipt = Completed(r)
  \/ \E e \in AssembledReceipt.envelope :
       receipt = [AssembledReceipt EXCEPT !.envelope =
                    Replace(@, e, <<e[1], "facade-absent", FALSE>>)]

\* A decision follows from what was resolved, and only candidates were.
Settled ==
  /\ \A s \in AllSources :
       /\ decided[s].decision = Decision(s)
       /\ decided[s].requiresProgram
            <=> topology[OwnerOf(s)].reasons # {} \/ Decision(s) # "facade-absent"
  /\ \A s \in AllSources : \A n \in Boundaries(s) :
       resolved[s][n] = "facade" => projection[s][n].candidate

\* A receipt's binding of s has the mode and the decision that were found.
FoundAs(r, s) ==
  \E b \in r.bindings :
    b.source = s /\ b.mode = ModeOf(OwnerOf(s)) /\ b.decision = decided[s].decision

BindingDamaged(r) ==
  \E b \in ClassifierBindings :
    /\ r.indexes = CandidateIndexes
    /\ \E d \in DamagedBindings(AssembledReceipt, b) :
         r.bindings = Replace(ClassifierBindings, b, d)

\* The fields of the receipt as assembled, the two computed ones included.
LEMMA AssembledFields ==
  /\ AssembledReceipt.sources = ReceiptSources
  /\ AssembledReceipt.indexes = CandidateIndexes
  /\ AssembledReceipt.bindings = ClassifierBindings
  /\ AssembledReceipt.closures = ledger.closures
  /\ AssembledReceipt.exceptions = ledger.exceptions
  /\ AssembledReceipt.tables = Tables
  /\ AssembledReceipt.counters = Counters(AssembledReceipt)
  /\ AssembledReceipt.envelope = Envelope(AssembledReceipt)
  /\ AssembledReceipt =
       [sources |-> AssembledReceipt.sources, indexes |-> AssembledReceipt.indexes,
        bindings |-> AssembledReceipt.bindings, closures |-> AssembledReceipt.closures,
        exceptions |-> AssembledReceipt.exceptions, tables |-> AssembledReceipt.tables,
        counters |-> AssembledReceipt.counters, envelope |-> AssembledReceipt.envelope]
BY DEF AssembledReceipt, Completed, Counters, Envelope

\* The assembly binds each source to what was found of it.
LEMMA AssembledBound == \A s \in AllSources : FoundAs(AssembledReceipt, s)
<1> TAKE s \in AllSources
<1> DEFINE b == [source |-> s, owner |-> OwnerOf(s), mode |-> ModeOf(OwnerOf(s)),
    decision |-> decided[s].decision, boundaries |-> Boundaries(s),
    requests |-> Requests(s), unknown |-> s \in world.unknown]
<1>1. b \in ClassifierBindings
  BY DEF ClassifierBindings
<1>2. /\ b.source = s /\ b.mode = ModeOf(OwnerOf(s))
      /\ b.decision = decided[s].decision
  OBVIOUS
<1> HIDE DEF b
<1> QED BY <1>1, <1>2, AssembledFields DEF FoundAs

\* One wrong fact is in a binding, leaves the bindings, or is a frontier.
LEMMA DamageFields ==
  ASSUME NEW r \in Damages(AssembledReceipt)
  PROVE  BindingDamaged(r) \/ (r.bindings = ClassifierBindings)
     \/ \E f, g : r = WithFrontier(AssembledReceipt, f, g)
<1> DEFINE A == AssembledReceipt
<1>0. /\ A.bindings = ClassifierBindings /\ A.indexes = CandidateIndexes
      /\ A = [sources |-> A.sources, indexes |-> A.indexes, bindings |-> A.bindings,
       closures |-> A.closures, exceptions |-> A.exceptions, tables |-> A.tables,
       counters |-> A.counters, envelope |-> A.envelope]
  BY AssembledFields
<1> HIDE DEF A
<1>1. r \in Damages(A) BY DEF A
<1>2. CASE r \in ClosureDamages(A)
  BY <1>0, <1>2 DEF ClosureDamages
<1>3. CASE r \in BindingDamages(A)
  <2>1. PICK b \in A.bindings : \E d \in DamagedBindings(A, b) :
          r = [A EXCEPT !.bindings = Replace(@, b, d)]
    BY <1>3 DEF BindingDamages
  <2> QED BY <1>0, <2>1 DEF BindingDamaged, A
<1>4. CASE r \in IndexDamages(A)
  BY <1>0, <1>4 DEF IndexDamages
<1>5. CASE r \in TableDamages(A)
  BY <1>0, <1>5 DEF TableDamages
<1>6. CASE r \in FrontierDamages(A)
  BY <1>6 DEF FrontierDamages, A
<1> QED BY <1>1, <1>2, <1>3, <1>4, <1>5, <1>6 DEF Damages

\* Completing a receipt computes its counters and its envelope, and no more.
LEMMA CompletedFields ==
  ASSUME NEW r
  PROVE  /\ Completed(r).sources = r.sources /\ Completed(r).indexes = r.indexes
         /\ Completed(r).bindings = r.bindings /\ Completed(r).closures = r.closures
         /\ Completed(r).envelope = Envelope(Completed(r))
BY DEF Completed, Envelope

\* A frontier that was exchanged leaves the mode and the decision of a source.
LEMMA SwappedFrontier ==
  ASSUME NEW f, NEW g, NEW s \in AllSources
  PROVE  FoundAs(WithFrontier(AssembledReceipt, f, g), s)
<1> DEFINE A == AssembledReceipt
           swap(q) == IF q.frontier = f THEN [q EXCEPT !.frontier = g] ELSE q
           swapped(b) == [b EXCEPT !.requests = {swap(q) : q \in @}]
           r == [A EXCEPT !.tables.frontiers = Replace(@, f, g),
                !.bindings = {swapped(b) : b \in @}]
<1>1. WithFrontier(A, f, g) = r
  BY DEF WithFrontier
<1>2. r.bindings = {swapped(b) : b \in ClassifierBindings}
  BY AssembledFields
<1> DEFINE b == [source |-> s, owner |-> OwnerOf(s), mode |-> ModeOf(OwnerOf(s)),
    decision |-> decided[s].decision, boundaries |-> Boundaries(s),
    requests |-> Requests(s), unknown |-> s \in world.unknown]
<1>3. b \in ClassifierBindings
  BY DEF ClassifierBindings
<1>4. /\ swapped(b).source = s /\ swapped(b).mode = ModeOf(OwnerOf(s))
      /\ swapped(b).decision = decided[s].decision
  OBVIOUS
<1>5. swapped(b) \in r.bindings
  BY <1>2, <1>3
<1> QED BY <1>1, <1>4, <1>5, Zenon DEF FoundAs

\* What the reader demands of a source: the decision its requests lead to, the
\* mode of its index, and a closure and an envelope if it requires the program.
LEMMA AcceptedSource ==
  ASSUME NEW r, Accepts(r), NEW s \in AllSources, NEW b \in r.bindings, b.source = s
  PROVE  /\ b.decision = ExpectedDecision(b)
         /\ b.owner = OwnerOf(s)
         /\ RequiresProgram(b) => \E c \in r.closures : c.source = s
         /\ \E i \in r.indexes : i.owner = OwnerOf(s) /\ b.mode = i.mode
         /\ RequiresProgram(b) => \E e \in r.envelope : e[1] = s /\ e[3]
<1>1. /\ ReadClassifierBindings(r) /\ SourcesRelate(r) /\ r.envelope = Envelope(r)
      /\ UniverseIsCurrent(r)
  BY DEF Accepts
<1>2. PICK t \in r.sources : t.file = s /\ t.owner = OwnerOf(s)
  <2>1. <<s, OwnerOf(s)>> \in {<<t.file, t.owner>> : t \in r.sources}
    BY <1>1 DEF UniverseIsCurrent
  <2> QED BY <2>1
<1>3. \A c \in r.bindings : c.source = t.file => c = b
  BY <1>1, <1>2 DEF ReadClassifierBindings, Unique
<1>4. (CHOOSE c \in r.bindings : c.source = t.file) = b
  BY <1>2, <1>3
<1>5. SourceRelates(r, t)
  BY <1>1 DEF SourcesRelate
<1>6. /\ b.owner = t.owner /\ b.decision = ExpectedDecision(b)
      /\ t.closure = RequiresProgram(b)
      /\ t.closure = \E c \in r.closures : c.source = t.file
  BY <1>4, <1>5 DEF SourceRelates, The
<1>7. \E i \in r.indexes : i.owner = b.owner /\ b.mode = i.mode
  BY <1>1 DEF ReadClassifierBindings, ReadClassifierBinding, The
<1>8. <<b.source, b.decision, RequiresProgram(b)>> \in r.envelope
  BY <1>1 DEF Envelope
<1>9. RequiresProgram(b) => \E e \in r.envelope : e[1] = s /\ e[3]
  BY <1>8
<1> QED BY <1>2, <1>6, <1>7, <1>9

\* If a receipt has what was found of a source, an accepted one does not hide it.
LEMMA FoundIsEnough ==
  ASSUME Settled, NEW r, Accepts(r), NEW s \in AllSources, FoundAs(r, s),
         decided[s].requiresProgram
  PROVE  /\ \E c \in r.closures : c.source = s
         /\ \E e \in r.envelope : e[1] = s /\ e[3]
<1>1. PICK b \in r.bindings :
        b.source = s /\ b.mode = ModeOf(OwnerOf(s)) /\ b.decision = decided[s].decision
  BY DEF FoundAs
<1>2. RequiresProgram(b)
  BY <1>1 DEF RequiresProgram, Settled, ModeOf
<1> QED BY <1>1, <1>2, AcceptedSource

\* No single change to a binding hides its source: another decision disagrees
\* with the requests, another mode with the index, and what is left of the
\* binding still requires the program.
LEMMA DamagedBindingFails ==
  ASSUME Settled, NEW r, Accepts(r), NEW s \in AllSources, BindingDamaged(r),
         decided[s].requiresProgram
  PROVE  /\ \E c \in r.closures : c.source = s
         /\ \E e \in r.envelope : e[1] = s /\ e[3]
<1> DEFINE own == [source |-> s, owner |-> OwnerOf(s), mode |-> ModeOf(OwnerOf(s)),
    decision |-> decided[s].decision, boundaries |-> Boundaries(s),
    requests |-> Requests(s), unknown |-> s \in world.unknown]
<1>1. own \in ClassifierBindings
  BY DEF ClassifierBindings
<1>0. \A b \in ClassifierBindings : b.source = s => b = own
  BY DEF ClassifierBindings
<1>2. PICK b \in ClassifierBindings :
        /\ r.indexes = CandidateIndexes
        /\ \E d \in DamagedBindings(AssembledReceipt, b) :
              r.bindings = Replace(ClassifierBindings, b, d)
  BY DEF BindingDamaged
<1>3. PICK d \in DamagedBindings(AssembledReceipt, b) :
        r.bindings = (ClassifierBindings \ {b}) \cup {d}
  BY <1>2 DEF Replace
<1>4. CASE b.source # s
  <2>1. own \in r.bindings
    BY <1>1, <1>3, <1>4
  <2>2. FoundAs(r, s)
    BY <2>1 DEF FoundAs
  <2> QED BY <2>2, FoundIsEnough
<1>5. CASE b.source = s
  <2>1. b = own
    BY <1>0, <1>5
  <2>2. d \in r.bindings
    BY <1>3
  <2>3. SUFFICES d.source = s /\ RequiresProgram(d)
    BY <2>2, AcceptedSource
  <2>4. d.source = s
    BY <2>1 DEF DamagedBindings
  <2>5. CASE d = [b EXCEPT !.decision = "facade-absent"]
    <3>1. d.mode = ModeOf(OwnerOf(s)) /\ d.requests = Requests(s)
          /\ d.unknown = (s \in world.unknown) /\ d.decision = "facade-absent"
      BY <2>1, <2>5
    <3>2. CASE topology[OwnerOf(s)].reasons # {}
      BY <2>4, <3>1, <3>2 DEF ModeOf, RequiresProgram
    <3>3. CASE Decision(s) # "facade-absent"
      <4>1. ExpectedDecision(d) = "facade-absent"
        BY <2>2, <2>4, <3>1, AcceptedSource
      <4>2. (\A q \in Requests(s) : q.frontier.resolved # "facade") /\ s \notin world.unknown
        BY <3>1, <4>1 DEF ExpectedDecision
      <4>3. \A n \in Boundaries(s) : resolved[s][n] # "facade"
        <5>1. SUFFICES ASSUME NEW n \in Boundaries(s), resolved[s][n] = "facade"
                       PROVE  FALSE
          OBVIOUS
        <5>2. projection[s][n].candidate
          BY <5>1 DEF Settled
        <5> DEFINE q == [boundary |-> n, specifier |-> SpecifierOf(s, n),
                         frontier |-> Frontier(OwnerOf(s), s, SpecifierOf(s, n),
                           SpecifierOf(s, n).mode, resolved[s][n])]
        <5>3. q \in Requests(s)
          BY <5>2 DEF Requests
        <5>4. q.frontier.resolved = "facade"
          BY <5>1 DEF Frontier
        <5> QED BY <4>2, <5>3, <5>4
      <4> QED BY <3>3, <4>2, <4>3 DEF Decision
    <3> QED BY <3>2, <3>3 DEF Settled
  <2>6. CASE d = [b EXCEPT !.mode = "filtered"]
    <3>1. d.decision = decided[s].decision /\ d.mode = "filtered"
      BY <2>1, <2>6
    <3>2. CASE Decision(s) # "facade-absent"
      BY <2>4, <3>1, <3>2 DEF Settled, RequiresProgram
    <3>3. CASE topology[OwnerOf(s)].reasons # {}
      <4>1. \E i \in CandidateIndexes : i.owner = OwnerOf(s) /\ i.mode = "filtered"
        BY <1>2, <2>2, <2>4, <3>1, AcceptedSource
      <4> QED BY <3>3, <4>1 DEF CandidateIndexes, ModeOf
    <3> QED BY <3>2, <3>3 DEF Settled
  <2>7. CASE \/ d = [b EXCEPT !.unknown = FALSE]
             \/ \E q \in b.requests : d = [b EXCEPT !.requests = @ \ {q}]
             \/ \E o \in Projects : d = [b EXCEPT !.owner = o]
    <3>1. d.decision = decided[s].decision /\ d.mode = ModeOf(OwnerOf(s))
      BY <2>1, <2>7
    <3> QED BY <2>4, <3>1 DEF Settled, RequiresProgram, ModeOf
  <2> QED BY <2>4, <2>5, <2>6, <2>7 DEF DamagedBindings
<1> QED BY <1>4, <1>5

\* So a receipt with one wrong fact, if the reader accepts it, hides nothing.
LEMMA NothingHidden ==
  ASSUME Settled, receipt = AssembledReceipt \/ OnceWrong, Accepts(receipt),
         NEW s \in AllSources, decided[s].requiresProgram
  PROVE  /\ \E c \in receipt.closures : c.source = s
         /\ \E e \in receipt.envelope : e[1] = s /\ e[3]
<1>1. CASE receipt.bindings = ClassifierBindings
  BY <1>1, AssembledBound, AssembledFields, FoundIsEnough DEF FoundAs
<1>2. CASE \E r \in Damages(AssembledReceipt) : receipt = Completed(r)
  <2>1. PICK r \in Damages(AssembledReceipt) : receipt = Completed(r)
    BY <1>2
  <2>2. receipt.bindings = r.bindings /\ receipt.indexes = r.indexes
    BY <2>1, CompletedFields
  <2>3. CASE BindingDamaged(r)
    <3>1. BindingDamaged(receipt)
      BY <2>2, <2>3 DEF BindingDamaged
    <3> QED BY <3>1, DamagedBindingFails
  <2>4. CASE \E f, g : r = WithFrontier(AssembledReceipt, f, g)
    <3>1. FoundAs(receipt, s)
      BY <2>2, <2>4, SwappedFrontier DEF FoundAs
    <3> QED BY <3>1, FoundIsEnough
  <2> QED BY <1>1, <2>2, <2>3, <2>4, DamageFields
<1>3. CASE \E e : receipt = [AssembledReceipt EXCEPT !.envelope = e]
  <2>1. receipt.bindings = ClassifierBindings
    BY <1>3, AssembledFields
  <2> QED BY <1>1, <2>1
<1>4. CASE receipt = AssembledReceipt
  BY <1>1, <1>4, AssembledFields
<1> QED BY <1>2, <1>3, <1>4 DEF OnceWrong

\* The projections have rows and a candidate each.
Projected ==
  \A s \in AllSources : \A n \in Boundaries(s) :
    projection[s][n] = [rows |-> projection[s][n].rows,
                        candidate |-> projection[s][n].candidate]

\* What was found to be the facade was a candidate.
FacadesRequested ==
  \A s \in AllSources : \A n \in Boundaries(s) :
    resolved[s][n] = "facade" => projection[s][n].candidate

Stages == {"idle", "package", "project", "resolve", "decide", "sealed"}

ClassifierInv ==
  /\ stage \in Stages
  /\ stage = "resolve" => Projected
  /\ stage = "decide" => FacadesRequested
  /\ stage = "sealed" => Settled

ReceiptInv ==
  /\ ledger # Nil => stage = "sealed"
  /\ receipt # Nil => ledger # Nil /\ (receipt = AssembledReceipt \/ OnceWrong)
  /\ reading \in {"unread", "damaged", "accepted", "refused"}
  /\ reading = "unread" /\ receipt # Nil => receipt = AssembledReceipt
  /\ reading = "accepted" => receipt # Nil /\ Accepts(receipt)
  /\ reading = "refused" => receipt # Nil /\ ~Accepts(receipt)

\* Nothing is classified and no receipt is there.
LEMMA ClassifierInitially == ReceiptInit => ClassifierInv /\ ReceiptInv
BY DEF ReceiptInit, ClassifierInit, ClassifierInv, ReceiptInv, Stages

\* The invariant of the classifier speaks of the classifier.
LEMMA ClassifierStays ==
  ASSUME ClassifierInv, UNCHANGED classifier
  PROVE  ClassifierInv'
<1>1. \A s : Boundaries(s)' = Boundaries(s)
  BY DEF Boundaries, classifier
<1>2. \A s : Decision(s)' = Decision(s)
  BY <1>1 DEF Decision, classifier
<1>3. Projected' = Projected
  BY <1>1 DEF Projected, classifier
<1>4. FacadesRequested' = FacadesRequested
  BY <1>1 DEF FacadesRequested, classifier
<1>5. Settled' = Settled
  BY <1>1, <1>2 DEF Settled, classifier
<1> QED BY <1>3, <1>4, <1>5, Zenon DEF ClassifierInv, classifier

\* ResolveSelection keeps the rows, drops no candidate and resolves to the
\* facade only what it selected.
LEMMA Selection ==
  ASSUME ResolveSelection
  PROVE \E selected, found :
          /\ projection' = [s \in AllSources |-> [n \in Boundaries(s) |->
                [projection[s][n] EXCEPT !.candidate = selected[<<s, n>>]]]]
          /\ resolved' = [s \in AllSources |->
                           [n \in Boundaries(s) |-> found[<<s, n>>]]]
          /\ \A s \in AllSources : \A n \in Boundaries(s) :
               found[<<s, n>>] = "facade" => selected[<<s, n>>]
          /\ \A s \in AllSources : \A n \in Boundaries(s) :
               projection[s][n].candidate => selected[<<s, n>>]
<1>1. PICK gone \in BOOLEAN :
       LET lost(s, n) == /\ gone /\ s = SourceA /\ n = 1
                         /\ projection[s][n].candidate
                         /\ ResolvesToFacade(s, world.imports[s][n])
           failed(o) == \E s \in SourcesOf(o) : \E n \in Boundaries(s) : lost(s, n)
           selected(s, n) == failed(OwnerOf(s)) \/ projection[s][n].candidate
       IN  /\ projection' = [s \in AllSources |-> [n \in Boundaries(s) |->
                [projection[s][n] EXCEPT !.candidate = selected(s, n)]]]
           /\ resolved' = [s \in AllSources |->
                            [n \in Boundaries(s) |->
                CASE ~selected(s, n) -> "unrequested"
                  [] selected(s, n) /\ lost(s, n) -> "other"
                  [] OTHER -> IF ResolvesToFacade(s, world.imports[s][n])
                              THEN "facade" ELSE "other"]]
      BY Zenon DEF ResolveSelection
<1> DEFINE lost(s, n) == /\ gone /\ s = SourceA /\ n = 1
                         /\ projection[s][n].candidate
                         /\ ResolvesToFacade(s, world.imports[s][n])
               failed(o) == \E s \in SourcesOf(o) : \E n \in Boundaries(s) : lost(s, n)
               selected(s, n) == failed(OwnerOf(s)) \/ projection[s][n].candidate
               found(s, n) == CASE ~selected(s, n) -> "unrequested"
                  [] selected(s, n) /\ lost(s, n) -> "other"
                  [] OTHER -> IF ResolvesToFacade(s, world.imports[s][n])
                              THEN "facade" ELSE "other"
               pairs == UNION {{<<s, n>> : n \in Boundaries(s)} : s \in AllSources}
               selection == [x \in pairs |-> selected(x[1], x[2])]
               findings == [x \in pairs |-> found(x[1], x[2])]
<1>2. /\ projection' = [s \in AllSources |-> [n \in Boundaries(s) |->
                [projection[s][n] EXCEPT !.candidate = selected(s, n)]]]
          /\ resolved' = [s \in AllSources |->
                           [n \in Boundaries(s) |-> found(s, n)]]
      BY <1>1
<1>3. \A s, n : found(s, n) = "facade" => selected(s, n)
      <2> HIDE DEF selected, lost
      <2> QED OBVIOUS
<1>10. \A s, n : projection[s][n].candidate => selected(s, n)
      OBVIOUS
<1> HIDE DEF selected, found
<1>4. \A s \in AllSources : \A n \in Boundaries(s) : <<s, n>> \in pairs
      OBVIOUS
<1> HIDE DEF pairs
<1>5. \A s \in AllSources : \A n \in Boundaries(s) :
            findings[<<s, n>>] = found(s, n)
      BY <1>4
<1>6. \A s \in AllSources : \A n \in Boundaries(s) :
            selection[<<s, n>>] = selected(s, n)
      BY <1>4, Zenon
<1> HIDE DEF selection, findings
<1>7. projection' = [s \in AllSources |-> [n \in Boundaries(s) |->
                [projection[s][n] EXCEPT !.candidate = selection[<<s, n>>]]]]
      BY <1>2, <1>6
<1>8. resolved' = [s \in AllSources |-> [n \in Boundaries(s) |->
                         findings[<<s, n>>]]]
      BY <1>2, <1>5
<1>9. \A s \in AllSources : \A n \in Boundaries(s) :
            findings[<<s, n>>] = "facade" => selection[<<s, n>>]
      BY <1>3, <1>5, <1>6, Zenon
<1>11. \A s \in AllSources : \A n \in Boundaries(s) :
               projection[s][n].candidate => selection[<<s, n>>]
  BY <1>6, <1>10, Zenon
<1> QED BY <1>7, <1>8, <1>9, <1>11

\* The steps of the classifier, of which none begins once it is sealed.
LEMMA ClassifierSteps ==
  ASSUME ClassifierInv, ClassifierNext
  PROVE  ClassifierInv' /\ stage # "sealed"
<1>1. CASE BeginClassification
  BY <1>1 DEF BeginClassification, ClassifierInv, Stages
<1>2. CASE BindFacadePackage
  BY <1>2 DEF BindFacadePackage, ClassifierInv, Stages
<1>3. CASE ProjectBoundaries
  <2>1. stage = "project" /\ stage' = "resolve" /\ world' = world
    BY <1>3 DEF ProjectBoundaries
  <2>2. \A s : Boundaries(s)' = Boundaries(s)
    BY <2>1 DEF Boundaries
  <2>3. \E rows, candidates :
          projection' = [s \in AllSources |-> [n \in Boundaries(s) |->
                [rows |-> rows[s][n], candidate |-> candidates[s][n]]]]
    <3> DEFINE rows == [s \in AllSources |-> [n \in Boundaries(s) |->
                 Rows(s, world.imports[s][n], world.options[OwnerOf(s)])]]
               reasons == [o \in Projects |->
                    topology[o].reasons \cup OwnerReasons(o, rows)]
               candidates == [s \in AllSources |-> [n \in Boundaries(s) |->
                    \/ reasons[OwnerOf(s)] # {}
                    \/ Candidate(s, world.imports[s][n],
                         ProjectedPaths(s, world.imports[s][n],
                                  world.options[OwnerOf(s)]).paths)]]
    <3>1. projection' = [s \in AllSources |-> [n \in Boundaries(s) |->
                [rows |-> rows[s][n], candidate |->
                    \/ reasons[OwnerOf(s)] # {}
                    \/ Candidate(s, world.imports[s][n],
                         ProjectedPaths(s, world.imports[s][n],
                                  world.options[OwnerOf(s)]).paths)]]]
      BY <1>3, Zenon DEF ProjectBoundaries
    <3> HIDE DEF rows, reasons
    <3>2. \A s \in AllSources : \A n \in Boundaries(s) : candidates[s][n] =
                    (\/ reasons[OwnerOf(s)] # {}
                    \/ Candidate(s, world.imports[s][n],
                         ProjectedPaths(s, world.imports[s][n],
                                  world.options[OwnerOf(s)]).paths))
      BY Zenon
    <3> HIDE DEF candidates
    <3>3. projection' = [s \in AllSources |-> [n \in Boundaries(s) |->
                [rows |-> rows[s][n], candidate |-> candidates[s][n]]]]
      BY <3>1, <3>2
    <3> QED BY <3>3
  <2>4. Projected'
    BY <2>2, <2>3 DEF Projected
  <2> QED BY <2>1, <2>4 DEF ClassifierInv, Stages
<1>4. CASE ResolveSelection
  <2>1. stage = "resolve" /\ stage' = "decide" /\ world' = world /\ Projected
    BY <1>4 DEF ResolveSelection, ClassifierInv
  <2>2. \A s : Boundaries(s)' = Boundaries(s)
    BY <2>1 DEF Boundaries
  <2>4. PICK selected, found :
          /\ projection' = [s \in AllSources |-> [n \in Boundaries(s) |->
                [projection[s][n] EXCEPT !.candidate = selected[<<s, n>>]]]]
          /\ resolved' = [s \in AllSources |->
                           [n \in Boundaries(s) |-> found[<<s, n>>]]]
          /\ \A s \in AllSources : \A n \in Boundaries(s) :
               found[<<s, n>>] = "facade" => selected[<<s, n>>]
    BY <1>4, Selection
  <2>5. FacadesRequested'
    <3>1. SUFFICES ASSUME NEW s \in AllSources, NEW n \in Boundaries(s)
                   PROVE (resolved')[s][n] = "facade" => (projection')[s][n].candidate
      BY <2>2 DEF FacadesRequested
    <3>2. (resolved')[s][n] = found[<<s, n>>]
      BY <2>4
    <3>3. (projection')[s][n]
            = [projection[s][n] EXCEPT !.candidate = selected[<<s, n>>]]
      BY <2>4
    <3>4. projection[s][n] = [rows |-> projection[s][n].rows,
                        candidate |-> projection[s][n].candidate]
      BY <2>1 DEF Projected
    <3>5. (projection')[s][n].candidate = selected[<<s, n>>]
      BY <3>3, <3>4
    <3>6. found[<<s, n>>] = "facade" => selected[<<s, n>>]
      BY <2>4
    <3> QED BY <3>2, <3>5, <3>6
  <2> QED BY <2>1, <2>5 DEF ClassifierInv, Stages
<1>5. CASE Decide
  <2>1. /\ stage = "decide" /\ stage' = "sealed" /\ FacadesRequested
        /\ UNCHANGED <<world, topology, projection, resolved>>
        /\ decided' = [s \in AllSources |->
             [decision |-> Decision(s),
              requiresProgram |-> \/ topology[OwnerOf(s)].reasons # {}
                                  \/ Decision(s) # "facade-absent"]]
    BY <1>5 DEF Decide, ClassifierInv
  <2>2. \A s : Boundaries(s)' = Boundaries(s)
    BY <2>1 DEF Boundaries
  <2>3. \A s : Decision(s)' = Decision(s)
    BY <2>1, <2>2 DEF Decision
  <2>4. \A s \in AllSources :
          /\ (decided')[s].decision = Decision(s)
          /\ (decided')[s].requiresProgram
               <=> topology[OwnerOf(s)].reasons # {} \/ Decision(s) # "facade-absent"
    BY <2>1
  <2>5. Settled'
    BY <2>1, <2>2, <2>3, <2>4 DEF Settled, FacadesRequested
  <2> QED BY <2>1, <2>5 DEF ClassifierInv, Stages
<1> QED BY <1>1, <1>2, <1>3, <1>4, <1>5 DEF ClassifierNext

\* What can be wrong with a receipt depends on the receipt only.
LEMMA DamagesFrame == \A r : Damages(r)' = Damages(r)
BY DEF Damages, ClosureDamages, BindingDamages, DamagedBindings, IndexDamages,
       DamagedIndexes,
    TableDamages, FrontierDamages, WithFrontier, Replace

\* A receipt that is wrong in one fact stays so while nothing it tells changes.
LEMMA OnceWrongFrame ==
  ASSUME UNCHANGED <<classifier, ledger, receipt>>
  PROVE  OnceWrong' = OnceWrong
<1>1. AssembledReceipt' = AssembledReceipt
  BY AllFrame
<1>2. \A r : Damages(r)' = Damages(r)
  BY DamagesFrame
<1> QED BY <1>1, <1>2
        DEF OnceWrong, Completed, Counters, Envelope, RequiresProgram, Replace

\* The steps of the analysis, the assembly, the damage and the reader.
LEMMA ReceiptSteps ==
  ASSUME ClassifierInv, ReceiptInv, ReceiptNext
  PROVE  ReceiptInv'
<1>1. CASE ClassifierNext /\ UNCHANGED receipting
  <2>1. stage # "sealed" /\ ledger = Nil /\ receipt = Nil
    BY <1>1, ClassifierSteps DEF ReceiptInv
  <2> QED BY <1>1, <2>1 DEF ReceiptInv, receipting
<1>2. CASE AnalyzeSources
  <2>1. stage' = "sealed" /\ receipt' = Nil /\ reading' = reading /\ receipt = Nil
    BY <1>2 DEF AnalyzeSources, ReceiptInv, classifier
  <2> QED BY <2>1 DEF ReceiptInv
<1>3. CASE AssembleReceipt
  <2>1. /\ ledger # Nil /\ receipt = Nil /\ receipt' = AssembledReceipt
        /\ UNCHANGED <<classifier, ledger, reading>>
    BY <1>3 DEF AssembleReceipt
  <2>2. AssembledReceipt' = AssembledReceipt
    BY <2>1, AllFrame
  <2> QED BY <2>1, <2>2 DEF ReceiptInv, classifier
<1>4. CASE DamageReceipt
  <2>1. /\ receipt # Nil /\ reading = "unread" /\ reading' = "damaged"
        /\ UNCHANGED <<classifier, ledger>> /\ receipt = AssembledReceipt
        /\ ledger # Nil
    BY <1>4 DEF DamageReceipt, ReceiptInv
  <2>2. AssembledReceipt' = AssembledReceipt
    BY <2>1, AllFrame
  <2>3. OnceWrong'
    <3>1. CASE \E r \in Damages(receipt) : receipt' = Completed(r)
      <4>1. PICK r \in Damages(AssembledReceipt) : receipt' = Completed(r)
        BY <2>1, <3>1
      <4>2. Damages(AssembledReceipt)' = Damages(AssembledReceipt)
        <5>1. \A r_1 : Damages(r_1)' = Damages(r_1)
          BY DamagesFrame
        <5> QED BY <2>2, <5>1
      <4>3. Completed(r)' = Completed(r)
        BY DEF Completed, Counters, Envelope, RequiresProgram
      <4> QED BY <4>1, <4>2, <4>3 DEF OnceWrong
    <3>2. CASE \E e \in receipt.envelope :
          receipt' = [receipt EXCEPT !.envelope =
                           Replace(@, e, <<e[1], "facade-absent", FALSE>>)]
      BY <2>1, <2>2, <3>2 DEF OnceWrong, Replace
    <3> QED BY <1>4, <3>1, <3>2 DEF DamageReceipt
  <2> QED BY <2>1, <2>2, <2>3 DEF ReceiptInv, classifier
<1>5. CASE ReadReceipt
  <2>1. /\ receipt # Nil
        /\ reading' = (IF Accepts(receipt) THEN "accepted" ELSE "refused")
        /\ UNCHANGED <<classifier, ledger, receipt>>
    BY <1>5 DEF ReadReceipt
  <2>2. /\ AssembledReceipt' = AssembledReceipt /\ OnceWrong' = OnceWrong
        /\ Accepts(receipt)' = Accepts(receipt)
    BY <2>1, AllFrame, OnceWrongFrame, AccFrame
  <2> QED BY <2>1, <2>2 DEF ReceiptInv, classifier
<1> QED BY <1>1, <1>2, <1>3, <1>4, <1>5 DEF ReceiptNext, ReceiptStep

\* A step of others leaves the receipt as it is.
LEMMA ReceiptStays ==
  ASSUME ReceiptInv, UNCHANGED <<classifier, receipting>>
  PROVE  ReceiptInv'
<1>1. UNCHANGED <<classifier, ledger, receipt, reading>>
  BY DEF receipting
<1>2. /\ AssembledReceipt' = AssembledReceipt /\ OnceWrong' = OnceWrong
      /\ Accepts(receipt)' = Accepts(receipt)
  BY <1>1, AllFrame, OnceWrongFrame, AccFrame
<1> QED BY <1>1, <1>2 DEF ReceiptInv, classifier

\* The receipt is the one assembled or one with a single wrong fact, and what
\* the reader said of it still holds (buildIntlCheckReceiptV3, and its reader).
THEOREM ReceiptInvariant == ReceiptSpec => [](ClassifierInv /\ ReceiptInv)
<1>1. ReceiptInit => ClassifierInv /\ ReceiptInv
  BY ClassifierInitially
<1>2. ClassifierInv /\ ReceiptInv /\ [ReceiptNext]_<<classifier, receipting>>
        => (ClassifierInv /\ ReceiptInv)'
  <2>1. SUFFICES ASSUME ClassifierInv, ReceiptInv,
                        [ReceiptNext]_<<classifier, receipting>>
                 PROVE  ClassifierInv' /\ ReceiptInv'
    OBVIOUS
  <2>2. CASE ReceiptNext
    <3>1. ReceiptInv'
      BY <2>1, <2>2, ReceiptSteps
    <3>2. CASE ClassifierNext
      BY <2>1, <3>1, <3>2, ClassifierSteps
    <3>3. CASE UNCHANGED classifier
      BY <2>1, <3>1, <3>3, ClassifierStays
    <3> QED BY <2>2, <3>2, <3>3
            DEF ReceiptNext, ReceiptStep, AnalyzeSources, AssembleReceipt,
                DamageReceipt, ReadReceipt
  <2>3. CASE UNCHANGED <<classifier, receipting>>
    BY <2>1, <2>3, ReceiptStays, ClassifierStays
  <2> QED BY <2>1, <2>2, <2>3
<1> QED BY <1>1, <1>2, PTL DEF ReceiptSpec

\* No single wrong fact in a receipt that the reader accepts hides a source that
\* requires the program (parseIntlCheckReceiptV3, validateV3Relationships).
THEOREM OneWrongFactIsFound == ReceiptSpec => []OneWrongFactHidesNothing
<1>1. ClassifierInv /\ ReceiptInv => OneWrongFactHidesNothing
  BY NothingHidden DEF ClassifierInv, ReceiptInv, OneWrongFactHidesNothing
<1> QED BY <1>1, ReceiptInvariant, PTL

----------------------------------------------------------------------------
(* What the classifier leaves behind                                       *)

\* A projection has rows, all of one kind; those of no candidate are not at
\* the facade.
RowsAre(p, root) ==
  /\ DOMAIN p.rows # {}
  /\ \A k \in DOMAIN p.rows :
       p.rows[k] = [canonicalRoot |-> p.rows[k].canonicalRoot,
                    lexicalRoot |-> p.rows[k].lexicalRoot, kind |-> p.rows[k].kind]
  /\ \A j, k \in DOMAIN p.rows : p.rows[j].kind = p.rows[k].kind
  /\ ~p.candidate =>
       \A k \in DOMAIN p.rows :
         p.rows[k].lexicalRoot # Gen /\ p.rows[k].canonicalRoot # root

RowsHold ==
  \A s \in AllSources : \A n \in Boundaries(s) :
    RowsAre(projection[s][n], Canonical(Gen))

LinksDoubted ==
  \A o \in Projects : topology[o].reasons = {} => ~LinkedTopology(Gen)

ProjectionInv ==
  /\ stage # "idle" => WorldTyped(world)
  /\ stage = "project" => LinksDoubted
  /\ stage \in {"resolve", "decide", "sealed"} => RowsHold

LedgerInv ==
  ledger # Nil =>
    /\ ledger.exceptions \subseteq AllSources
    /\ \A c \in ledger.closures :
         /\ c.source \in AllSources /\ decided[c.source].requiresProgram
         /\ \A q \in c.resolutions : q.frontier.options = OwnerOf(c.source)
    /\ \A c, d \in ledger.closures : c.source = d.source => c = d

\* An owner without reasons has no row whose real root is another directory.
LEMMA NoOwnerReasons ==
  ASSUME NEW o, NEW rows, OwnerReasons(o, rows) = {},
         NEW s \in SourcesOf(o), NEW n \in Boundaries(s), NEW k \in DOMAIN rows[s][n]
  PROVE  rows[s][n][k].canonicalRoot = rows[s][n][k].lexicalRoot
<1> DEFINE all == UNION {{<<t, m>> : m \in Boundaries(t)} : t \in SourcesOf(o)}
           doubtful == \E x \in all : \E j \in DOMAIN rows[x[1]][x[2]] :
                     rows[x[1]][x[2]][j].canonicalRoot
                       # rows[x[1]][x[2]][j].lexicalRoot
           linked == \E t \in HashSources(o) : LinkedTopology(DirName(t))
           reason == IF linked \/ doubtful THEN {"symlink-boundary-ambiguous"} ELSE {}
<1>1. reason \subseteq OwnerReasons(o, rows)
  BY Zenon DEF OwnerReasons
<1>2. ~doubtful
  <2> HIDE DEF doubtful, linked
  <2> QED BY <1>1
<1>3. <<s, n>> \in all
  OBVIOUS
<1> HIDE DEF all
<1>4. <<s, n>>[1] = s /\ <<s, n>>[2] = n
  OBVIOUS
<1> QED BY <1>2, <1>3, <1>4

\* ProjectBoundaries writes such rows: at the facade only for candidates.
LEMMA RowsProjected ==
  ASSUME WorldTyped(world), LinksDoubted, ProjectBoundaries
  PROVE  RowsHold'
<1>1. world' = world
  BY DEF ProjectBoundaries
<1>2. /\ \A s : Boundaries(s)' = Boundaries(s)
      /\ Canonical(Gen)' = Canonical(Gen)
  BY <1>1 DEF Boundaries, Canonical
<1> DEFINE rows == [s \in AllSources |-> [n \in Boundaries(s) |->
                 Rows(s, world.imports[s][n], world.options[OwnerOf(s)])]]
           reasons == [o \in Projects |->
                    topology[o].reasons \cup OwnerReasons(o, rows)]
           paths(s, n) == ProjectedPaths(s, world.imports[s][n],
                                         world.options[OwnerOf(s)]).paths
           candidate(s, n) == Candidate(s, world.imports[s][n], paths(s, n))
<1>3. projection' = [s \in AllSources |-> [n \in Boundaries(s) |->
           [rows |-> rows[s][n],
            candidate |-> reasons[OwnerOf(s)] # {} \/ candidate(s, n)]]]
  BY Zenon DEF ProjectBoundaries
<1>4. \A s \in AllSources : \A n \in Boundaries(s) :
        rows[s][n] = Rows(s, world.imports[s][n], world.options[OwnerOf(s)])
  BY Zenon
<1>5. \A o \in Projects : reasons[o] = {} =>
        topology[o].reasons = {} /\ OwnerReasons(o, rows) = {}
  <2> HIDE DEF rows
  <2> QED OBVIOUS
<1> HIDE DEF rows, reasons
<1>6. ASSUME NEW s \in AllSources, NEW n \in Boundaries(s)
      PROVE  RowsAreGood(world.imports[s][n], paths(s, n), rows[s][n])
  <2>1. rows[s][n] = Rows(s, world.imports[s][n], world.options[OwnerOf(s)])
    BY <1>4
  <2>2. world.imports[s][n] \in Imports /\ OptionsTyped(world.options[OwnerOf(s)])
    BY ImportIsTyped
  <2> QED BY <2>1, <2>2, RowsOfABoundary, Zenon
<1> HIDE DEF candidate, paths
<1>7. ASSUME NEW s \in AllSources, NEW n \in Boundaries(s)
      PROVE  (projection')[s][n] = [rows |-> rows[s][n],
               candidate |-> reasons[OwnerOf(s)] # {} \/ candidate(s, n)]
  BY <1>3, Zenon
<1>8. ASSUME NEW s \in AllSources, NEW n \in Boundaries(s),
             reasons[OwnerOf(s)] = {}, ~candidate(s, n), NEW k \in DOMAIN rows[s][n]
      PROVE  /\ rows[s][n][k].lexicalRoot # Gen
             /\ rows[s][n][k].canonicalRoot # Canonical(Gen)
  <2>1. OwnerOf(s) \in Projects /\ s \in SourcesOf(OwnerOf(s))
    BY ImportIsTyped DEF SourcesOf
  <2>2. topology[OwnerOf(s)].reasons = {} /\ OwnerReasons(OwnerOf(s), rows) = {}
    BY <1>5, <1>8, <2>1
  <2>3. ~LinkedTopology(Gen)
    BY <2>1, <2>2 DEF LinksDoubted
  <2>4. Canonical(Gen) = Gen
    BY <2>3 DEF LinkedTopology, Canonical
  <2>5. rows[s][n][k].canonicalRoot = rows[s][n][k].lexicalRoot
    BY <2>1, <2>2, NoOwnerReasons
  <2>6. ~CandidateBySpecifier(world.imports[s][n], paths(s, n))
    BY <1>8 DEF candidate, Candidate
  <2>7. rows[s][n][k].lexicalRoot # Gen
    BY <1>6, <2>6 DEF RowsAreGood
  <2> QED BY <2>4, <2>5, <2>7
<1>9. SUFFICES ASSUME NEW s \in AllSources, NEW n \in Boundaries(s),
                      NEW p, p = (projection')[s][n]
               PROVE  RowsAre(p, Canonical(Gen))
  BY <1>2 DEF RowsHold
<1>14. p = [rows |-> rows[s][n],
              candidate |-> reasons[OwnerOf(s)] # {} \/ candidate(s, n)]
  BY <1>7, <1>9, Zenon
<1>10. p.rows = rows[s][n]
  BY <1>9, <1>14
<1>11. p.candidate <=> reasons[OwnerOf(s)] # {} \/ candidate(s, n)
  <2>1. ASSUME NEW r, NEW c, p = [rows |-> r, candidate |-> c]
        PROVE  p.candidate = c
    BY <2>1
  <2>2. p.candidate = (reasons[OwnerOf(s)] # {} \/ candidate(s, n))
    BY <1>14, <2>1, Zenon
  <2> QED BY <2>2, Zenon
<1>12. RowsAreGood(world.imports[s][n], paths(s, n), p.rows)
  BY <1>6, <1>10
<1>13. ~p.candidate => \A k \in DOMAIN p.rows :
                           /\ p.rows[k].lexicalRoot # Gen
                           /\ p.rows[k].canonicalRoot # Canonical(Gen)
  BY <1>8, <1>10, <1>11
<1> QED BY <1>12, <1>13, Zenon DEF RowsAreGood, RowsAre

\* The steps of the classifier keep what the rows are.
LEMMA ProjectionSteps ==
  ASSUME ClassifierInv, ProjectionInv, ClassifierNext
  PROVE  ProjectionInv'
<1>1. CASE BeginClassification
  <2>1. WorldTyped(world')
    BY <1>1, WorldsTyped DEF BeginClassification
  <2>2. WorldTyped(world)'
    BY <2>1 DEF WorldTyped
  <2> QED BY <1>1, <2>2 DEF BeginClassification, ProjectionInv
<1>2. CASE BindFacadePackage
  <2>1. /\ stage = "package" /\ stage' = "project" /\ world' = world
        /\ WorldTyped(world)
    BY <1>2 DEF BindFacadePackage, ProjectionInv
  <2>2. WorldTyped(world)'
    BY <2>1 DEF WorldTyped
  <2>3. LinkedTopology(Gen)' = LinkedTopology(Gen)
    BY <2>1 DEF LinkedTopology
  <2> DEFINE found ==
          {r \in {"package-exports-ambiguous", "symlink-boundary-ambiguous"} :
             IF r = "package-exports-ambiguous"
             THEN \E p \in FacadeProofs : p.ambiguous
             ELSE LinkedTopology(Gen)}
  <2>4. LinkedTopology(Gen) => "symlink-boundary-ambiguous" \in found
    OBVIOUS
  <2>5. topology' = [o \in Projects |-> [reasons |-> found,
                                         scopes |-> {FacadePackage} \ {Nil}]]
    BY <1>2, Zenon DEF BindFacadePackage
  <2> HIDE DEF found
  <2>6. \A o \in Projects : (topology')[o].reasons = found
    BY <2>5
  <2>7. LinksDoubted'
    BY <2>3, <2>4, <2>6 DEF LinksDoubted
  <2> QED BY <2>1, <2>2, <2>7 DEF ProjectionInv
<1>3. CASE ProjectBoundaries
  <2>1. /\ stage = "project" /\ stage' = "resolve" /\ world' = world
        /\ WorldTyped(world) /\ LinksDoubted
    BY <1>3 DEF ProjectBoundaries, ProjectionInv
  <2>2. WorldTyped(world)'
    BY <2>1 DEF WorldTyped
  <2>3. RowsHold'
    BY <1>3, <2>1, RowsProjected
  <2> QED BY <2>1, <2>2, <2>3 DEF ProjectionInv
<1>4. CASE ResolveSelection
  <2>1. /\ stage = "resolve" /\ stage' = "decide" /\ world' = world
        /\ WorldTyped(world) /\ RowsHold /\ Projected
    BY <1>4 DEF ResolveSelection, ProjectionInv, ClassifierInv
  <2>2. WorldTyped(world)'
    BY <2>1 DEF WorldTyped
  <2>3. /\ \A s : Boundaries(s)' = Boundaries(s)
        /\ Canonical(Gen)' = Canonical(Gen)
    BY <2>1 DEF Boundaries, Canonical
  <2>4. ASSUME NEW s \in AllSources, NEW n \in Boundaries(s)
        PROVE  /\ (projection')[s][n].rows = projection[s][n].rows
               /\ projection[s][n].candidate => (projection')[s][n].candidate
    <3>1. PICK selected :
            /\ projection' = [t \in AllSources |-> [m \in Boundaries(t) |->
                 [projection[t][m] EXCEPT !.candidate = selected[<<t, m>>]]]]
            /\ \A t \in AllSources : \A m \in Boundaries(t) :
                 projection[t][m].candidate => selected[<<t, m>>]
      BY <1>4, Selection
    <3>3. (projection')[s][n]
            = [projection[s][n] EXCEPT !.candidate = selected[<<s, n>>]]
      BY <3>1
    <3>2. projection[s][n] = [rows |-> projection[s][n].rows,
                              candidate |-> projection[s][n].candidate]
      BY <2>1 DEF Projected
    <3> QED BY <3>1, <3>2, <3>3
  <2>5. RowsHold'
    BY <2>1, <2>3, <2>4 DEF RowsHold, RowsAre
  <2> QED BY <2>1, <2>2, <2>5 DEF ProjectionInv
<1>5. CASE Decide
  <2>1. /\ stage = "decide" /\ stage' = "sealed" /\ WorldTyped(world) /\ RowsHold
        /\ UNCHANGED <<world, projection>>
    BY <1>5 DEF Decide, ProjectionInv
  <2>2. WorldTyped(world)'
    BY <2>1 DEF WorldTyped
  <2>3. /\ \A s : Boundaries(s)' = Boundaries(s)
        /\ Canonical(Gen)' = Canonical(Gen)
    BY <2>1 DEF Boundaries, Canonical
  <2>4. RowsHold'
    BY <2>1, <2>3 DEF RowsHold
  <2> QED BY <2>1, <2>2, <2>4 DEF ProjectionInv
<1> QED BY <1>1, <1>2, <1>3, <1>4, <1>5 DEF ClassifierNext

\* And so does a step of the receipt.
LEMMA ProjectionStays ==
  ASSUME ProjectionInv, UNCHANGED classifier
  PROVE  ProjectionInv'
<1>1. UNCHANGED <<world, stage, topology, projection>>
  BY DEF classifier
<1>2. WorldTyped(world)' = WorldTyped(world)
  BY <1>1 DEF WorldTyped
<1>3. /\ \A s : Boundaries(s)' = Boundaries(s)
      /\ Canonical(Gen)' = Canonical(Gen)
      /\ LinkedTopology(Gen)' = LinkedTopology(Gen)
  BY <1>1 DEF Boundaries, Canonical, LinkedTopology
<1>4. RowsHold' = RowsHold
  BY <1>1, <1>3 DEF RowsHold
<1>5. LinksDoubted' = LinksDoubted
  BY <1>1, <1>3 DEF LinksDoubted
<1> QED BY <1>1, <1>2, <1>4, <1>5 DEF ProjectionInv

\* The ledger has closures of sources that require the program, one each.
LEMMA LedgerSteps ==
  ASSUME ClassifierInv, ReceiptInv, LedgerInv, ReceiptNext
  PROVE  LedgerInv'
<1>1. CASE ClassifierNext /\ UNCHANGED receipting
  <2>1. ledger' = Nil
    BY <1>1, ClassifierSteps DEF ReceiptInv, receipting
  <2> QED BY <2>1 DEF LedgerInv
<1>2. CASE AnalyzeSources
  <2>1. UNCHANGED decided
    BY <1>2 DEF AnalyzeSources, classifier
  <2>2. PICK exceptions \in SUBSET {SourceA} : \E unprepared \in SUBSET exceptions :
         ledger' = [exceptions |-> exceptions,
            closures |->
              {[source |-> s,
                resolutions |->
                  {[from |-> s, frontier |->
                      Frontier(OwnerOf(s), s, SpecifierOf(s, n), "default", "none")] :
                     n \in FacadeImports(s)}] :
                 s \in {t \in AllSources :
                          decided[t].requiresProgram /\ t \notin unprepared}}]
    BY <1>2 DEF AnalyzeSources
  <2>3. PICK unprepared \in SUBSET exceptions :
         ledger' = [exceptions |-> exceptions,
            closures |->
              {[source |-> s,
                resolutions |->
                  {[from |-> s, frontier |->
                      Frontier(OwnerOf(s), s, SpecifierOf(s, n), "default", "none")] :
                     n \in FacadeImports(s)}] :
                 s \in {t \in AllSources :
                          decided[t].requiresProgram /\ t \notin unprepared}}]
    BY <2>2
  <2> DEFINE closure(s) == [source |-> s,
                resolutions |->
                  {[from |-> s, frontier |->
                      Frontier(OwnerOf(s), s, SpecifierOf(s, n), "default", "none")] :
                     n \in FacadeImports(s)}]
             analyzed == {t \in AllSources :
                          decided[t].requiresProgram /\ t \notin unprepared}
  <2>4. ledger' = [exceptions |-> exceptions,
                   closures |-> {closure(s) : s \in analyzed}]
    BY <2>3
  <2>5. \A s : /\ closure(s).source = s
               /\ \A q \in closure(s).resolutions : q.frontier.options = OwnerOf(s)
    BY DEF Frontier
  <2> HIDE DEF closure
  <2>6. \A s \in analyzed : s \in AllSources /\ decided[s].requiresProgram
    OBVIOUS
  <2> HIDE DEF analyzed
  <2>7. exceptions \subseteq AllSources
    BY DEF AllSources
  <2>8. /\ (ledger').exceptions = exceptions
        /\ (ledger').closures = {closure(s) : s \in analyzed}
    BY <2>4
  <2> QED BY <2>1, <2>5, <2>6, <2>7, <2>8 DEF LedgerInv
<1>3. CASE AssembleReceipt \/ DamageReceipt \/ ReadReceipt
  <2>1. UNCHANGED <<ledger, decided>>
    BY <1>3 DEF AssembleReceipt, DamageReceipt, ReadReceipt, classifier
  <2> QED BY <2>1 DEF LedgerInv
<1> QED BY <1>1, <1>2, <1>3 DEF ReceiptNext, ReceiptStep

----------------------------------------------------------------------------
(* The assembled receipt, read back                                        *)

\* The row k of the projections of a boundary, as an index has it.
RootOf(s, n, k) ==
  [boundary |-> <<s, n>>, row |-> k,
   lexicalRoot |-> projection[s][n].rows[k].lexicalRoot,
   canonicalRoot |-> projection[s][n].rows[k].canonicalRoot,
   proofKind |-> projection[s][n].rows[k].kind,
   status |-> IF projection[s][n].candidate THEN "candidate" ELSE "disjoint"]

RowOf(s, n) == [source |-> s, ordinal |-> n, specifier |-> SpecifierOf(s, n)]

RequestOf(s, n) ==
  [boundary |-> n, specifier |-> SpecifierOf(s, n),
   frontier |-> Frontier(OwnerOf(s), s, SpecifierOf(s, n),
                         SpecifierOf(s, n).mode, resolved[s][n])]

BindingOf(s) ==
  [source |-> s, owner |-> OwnerOf(s), mode |-> ModeOf(OwnerOf(s)),
   decision |-> decided[s].decision, boundaries |-> Boundaries(s),
   requests |-> Requests(s), unknown |-> s \in world.unknown]

IndexOf(o) ==
  [owner |-> o, options |-> o, mode |-> ModeOf(o),
   reasons |-> topology[o].reasons, control |-> IndexControl,
   scopes |-> topology[o].scopes, projections |-> ProjectedRoots(o)]

\* The members of ProjectedRoots.
LEMMA IsRoot ==
  ASSUME NEW o, NEW p
  PROVE  p \in ProjectedRoots(o) <=>
           \E s \in SourcesOf(o) : \E n \in Boundaries(s) :
             \E k \in DOMAIN projection[s][n].rows : p = RootOf(s, n, k)
BY DEF ProjectedRoots, RootOf

\* The fields of a row of an index.
LEMMA RootFields ==
  ASSUME NEW s, NEW n, NEW k
  PROVE  /\ RootOf(s, n, k).boundary = <<s, n>> /\ RootOf(s, n, k).row = k
         /\ RootOf(s, n, k).lexicalRoot = projection[s][n].rows[k].lexicalRoot
         /\ RootOf(s, n, k).canonicalRoot = projection[s][n].rows[k].canonicalRoot
         /\ RootOf(s, n, k).proofKind = projection[s][n].rows[k].kind
         /\ RootOf(s, n, k).status
              = IF projection[s][n].candidate THEN "candidate" ELSE "disjoint"
BY DEF RootOf

\* The members of the table of boundaries.
LEMMA IsRow ==
  ASSUME NEW b
  PROVE  b \in Tables.boundaries <=>
           \E s \in AllSources : \E n \in Boundaries(s) : b = RowOf(s, n)
BY DEF Tables, RowOf

\* The members of the requests of a source.
LEMMA IsRequest ==
  ASSUME NEW s, NEW q
  PROVE  q \in Requests(s) <=>
           \E n \in Boundaries(s) : projection[s][n].candidate /\ q = RequestOf(s, n)
BY DEF Requests, RequestOf

\* The members of the bindings.
LEMMA IsBinding ==
  ASSUME NEW b
  PROVE  b \in ClassifierBindings <=> \E s \in AllSources : b = BindingOf(s)
BY DEF ClassifierBindings, BindingOf

\* The members of the indexes.
LEMMA IsIndex ==
  ASSUME NEW i
  PROVE  i \in CandidateIndexes <=> \E o \in Projects : i = IndexOf(o)
BY DEF CandidateIndexes, IndexOf

\* The fields of a request.
LEMMA RequestFields ==
  ASSUME NEW s, NEW n
  PROVE  /\ RequestOf(s, n).boundary = n
         /\ RequestOf(s, n).specifier = SpecifierOf(s, n)
         /\ RequestOf(s, n).frontier.options = OwnerOf(s)
         /\ RequestOf(s, n).frontier.mode = SpecifierOf(s, n).mode
         /\ RequestOf(s, n).frontier.resolved = resolved[s][n]
         /\ RequestOf(s, n).frontier.about
              = <<DirName(s), SpecifierOf(s, n).form, SpecifierOf(s, n).path>>
BY DEF RequestOf, Frontier

\* The fields of a binding.
LEMMA BindingFields ==
  ASSUME NEW s
  PROVE  /\ BindingOf(s).source = s /\ BindingOf(s).owner = OwnerOf(s)
         /\ BindingOf(s).mode = ModeOf(OwnerOf(s))
         /\ BindingOf(s).decision = decided[s].decision
         /\ BindingOf(s).boundaries = Boundaries(s)
         /\ BindingOf(s).requests = Requests(s)
         /\ BindingOf(s).unknown = (s \in world.unknown)
BY DEF BindingOf

\* The fields of an index.
LEMMA IndexFields ==
  ASSUME NEW o
  PROVE  /\ IndexOf(o).owner = o /\ IndexOf(o).options = o
         /\ IndexOf(o).mode = ModeOf(o) /\ IndexOf(o).reasons = topology[o].reasons
         /\ IndexOf(o).control = IndexControl /\ IndexOf(o).scopes = topology[o].scopes
         /\ IndexOf(o).projections = ProjectedRoots(o)
BY DEF IndexOf

\* Each source is among the sources of its owner.
LEMMA OwnersAreProjects ==
  ASSUME NEW s \in AllSources
  PROVE  OwnerOf(s) \in Projects /\ s \in SourcesOf(OwnerOf(s))
BY DEF AllSources, SourceA, SourceB, SourceC, OwnerOf, Projects, SourcesOf

\* The tables that are taken over as they are.
LEMMA TableFields ==
  /\ Tables.scopes = MergedPackageScopes
  /\ Tables.unknown = world.unknown
BY Zenon DEF Tables

\* The members of the table of frontiers: those asked for and those provided.
LEMMA IsFrontier ==
  ASSUME NEW x
  PROVE  x \in Tables.frontiers <=>
        \/ \E s \in AllSources : \E q \in Requests(s) : x = q.frontier
        \/ \E c \in ledger.closures : \E q \in c.resolutions : x = q.frontier
<1> DEFINE askedOf(s) == {q.frontier : q \in Requests(s)}
           providedBy(c) == {q.frontier : q \in c.resolutions}
           asked == UNION {askedOf(s) : s \in AllSources}
           provided == UNION {providedBy(c) : c \in ledger.closures}
<1>1. Tables.frontiers = asked \cup provided
  BY Zenon DEF Tables
<1>2. x \in asked <=> \E s \in AllSources : \E q \in Requests(s) : x = q.frontier
  OBVIOUS
<1>3. x \in provided
        <=> \E c \in ledger.closures : \E q \in c.resolutions : x = q.frontier
  OBVIOUS
<1> HIDE DEF asked, provided
<1> QED BY <1>1, <1>2, <1>3

\* The reader takes the tables: ordinals without a gap, one row per scope.
LEMMA TablesAreRead ==
  ASSUME WorldTyped(world)
  PROVE  ReadTables(AssembledReceipt)
<1>1. ASSUME NEW s \in AllSources
      PROVE  {b.ordinal : b \in {c \in Tables.boundaries : c.source = s}} = Boundaries(s)
  <2> DEFINE own == {c \in Tables.boundaries : c.source = s}
  <2>1. \A b : b \in own <=> \E n \in Boundaries(s) : b = RowOf(s, n)
    <3>1. \A t, n : RowOf(t, n).source = t
      BY DEF RowOf
    <3> QED BY <3>1, IsRow
  <2>2. \A n : RowOf(s, n).ordinal = n
    BY DEF RowOf
  <2> HIDE DEF own
  <2>3. {b.ordinal : b \in own} = Boundaries(s)
    BY <2>1, <2>2
  <2> QED BY <2>3 DEF own
<1>2. ASSUME NEW s \in AllSources
      PROVE  Boundaries(s) = 1..Cardinality(Boundaries(s))
  <2> DEFINE i == world.imports[s]
             k == Len(i)
  <2>1. DOMAIN i = 1..k /\ k \in Nat
    BY DEF WorldTyped, ImportsTyped
  <2> HIDE DEF k
  <2>2. Cardinality(1..k) = k
    <3>1. 1 \in Int /\ k \in Int /\ (1 > k => k = 0) /\ k - 1 + 1 = k
      BY <2>1
    <3> QED BY <3>1, FS_Interval
  <2> QED BY <2>1, <2>2 DEF Boundaries
<1>3. Unique(Tables.scopes, LAMBDA scope : scope.root)
  <2> DEFINE control(root) ==
               UNION {i.control : i \in {j \in CandidateIndexes : root \in j.scopes}}
             roots == UNION {i.scopes : i \in CandidateIndexes}
  <2>1. Tables.scopes = {[root |-> root, control |-> control(root)] : root \in roots}
    BY TableFields, Zenon DEF MergedPackageScopes
  <2> HIDE DEF control, roots
  <2>2. \A x \in Tables.scopes : x = [root |-> x.root, control |-> control(x.root)]
    BY <2>1
  <2> QED BY <2>2 DEF Unique
<1>4. AssembledReceipt.tables = Tables
  BY AssembledFields
<1> QED BY <1>1, <1>2, <1>3, <1>4 DEF ReadTables, Unique

\* The scopes of an index are in the table of scopes.
LEMMA ScopesAreRead ==
  ASSUME NEW o \in Projects, NEW root \in topology[o].scopes
  PROVE  \E scope \in Tables.scopes : scope.root = root
<1>1. IndexOf(o) \in CandidateIndexes /\ IndexOf(o).scopes = topology[o].scopes
  BY IsIndex, IndexFields
<1> DEFINE scope == [root |-> root, control |->
             UNION {i.control : i \in {j \in CandidateIndexes : root \in j.scopes}}]
<1>2. root \in UNION {i.scopes : i \in CandidateIndexes}
  BY <1>1
<1>3. scope \in MergedPackageScopes
  BY <1>2, Zenon DEF MergedPackageScopes
<1>4. scope.root = root
  OBVIOUS
<1> HIDE DEF scope
<1> QED BY <1>3, <1>4, TableFields

\* The reader takes the indexes unless two rows of a boundary are alike.
LEMMA IndexesAreRead ==
  ASSUME RowsHold
  PROVE  ReadCandidateIndexes(AssembledReceipt) <=> ~AlikeProjections
<1>1. AssembledReceipt.indexes = CandidateIndexes /\ AssembledReceipt.tables = Tables
  BY AssembledFields
<1>2. Unique(CandidateIndexes, LAMBDA i : i.owner)
  BY IsIndex, IndexFields DEF Unique
<1>3. \A i \in CandidateIndexes : \A root \in i.scopes :
        \E scope \in Tables.scopes : scope.root = root
  BY IsIndex, IndexFields, ScopesAreRead
<1>4. ASSUME ~AlikeProjections, NEW o \in Projects, NEW p \in ProjectedRoots(o),
             NEW q \in ProjectedRoots(o), ProjectionIdentity(p) = ProjectionIdentity(q)
      PROVE  p = q
  <2>1. PICK s \in SourcesOf(o) : \E n \in Boundaries(s) :
             \E k \in DOMAIN projection[s][n].rows : p = RootOf(s, n, k)
    BY IsRoot
  <2>2. PICK n \in Boundaries(s) :
             \E k \in DOMAIN projection[s][n].rows : p = RootOf(s, n, k)
    BY <2>1
  <2>3. PICK k \in DOMAIN projection[s][n].rows : p = RootOf(s, n, k)
    BY <2>2
  <2>4. PICK t \in SourcesOf(o) : \E m \in Boundaries(t) :
             \E j \in DOMAIN projection[t][m].rows : q = RootOf(t, m, j)
    BY IsRoot
  <2>5. PICK m \in Boundaries(t) :
             \E j \in DOMAIN projection[t][m].rows : q = RootOf(t, m, j)
    BY <2>4
  <2>6. PICK j \in DOMAIN projection[t][m].rows : q = RootOf(t, m, j)
    BY <2>5
  <2>7. p.boundary = q.boundary /\ p.lexicalRoot = q.lexicalRoot
        /\ p.canonicalRoot = q.canonicalRoot /\ p.proofKind = q.proofKind
    BY <1>4 DEF ProjectionIdentity
  <2>8. s = t /\ n = m
    BY <2>3, <2>6, <2>7, RootFields
  <2>9. projection[s][n].rows[k] = projection[s][n].rows[j]
    <3>1. RowsAre(projection[s][n], Canonical(Gen))
      BY DEF RowsHold, SourcesOf
    <3> DEFINE r == projection[s][n].rows
    <3>2. r[k].lexicalRoot = r[j].lexicalRoot
          /\ r[k].canonicalRoot = r[j].canonicalRoot /\ r[k].kind = r[j].kind
      BY <2>3, <2>6, <2>7, <2>8, RootFields
    <3>3. \A i \in DOMAIN r : r[i] =
            [canonicalRoot |-> r[i].canonicalRoot, lexicalRoot |-> r[i].lexicalRoot,
             kind |-> r[i].kind]
      BY <3>1, Zenon DEF RowsAre
    <3>4. k \in DOMAIN r /\ j \in DOMAIN r
      BY <2>3, <2>6, <2>8
    <3> HIDE DEF r
    <3>5. r[k] = r[j]
      BY <3>2, <3>3, <3>4
    <3> QED BY <3>5 DEF r
  <2>10. k = j
    BY <1>4, <2>8, <2>9 DEF AlikeProjections, SourcesOf
  <2> QED BY <2>3, <2>6, <2>8, <2>10
<1>5. ASSUME \A o \in Projects : \A p, q \in ProjectedRoots(o) :
               ProjectionIdentity(p) = ProjectionIdentity(q) => p = q
      PROVE  ~AlikeProjections
  <2>1. SUFFICES ASSUME NEW s \in AllSources, NEW n \in Boundaries(s),
                        NEW j \in DOMAIN projection[s][n].rows,
                        NEW k \in DOMAIN projection[s][n].rows,
                        projection[s][n].rows[j] = projection[s][n].rows[k]
                 PROVE  j = k
    BY DEF AlikeProjections
  <2>2. OwnerOf(s) \in Projects /\ s \in SourcesOf(OwnerOf(s))
    BY OwnersAreProjects
  <2>3. /\ RootOf(s, n, j) \in ProjectedRoots(OwnerOf(s))
        /\ RootOf(s, n, k) \in ProjectedRoots(OwnerOf(s))
    BY <2>2, IsRoot
  <2>4. ProjectionIdentity(RootOf(s, n, j)) = ProjectionIdentity(RootOf(s, n, k))
    BY <2>1, RootFields DEF ProjectionIdentity
  <2>5. RootOf(s, n, j) = RootOf(s, n, k)
    BY <1>5, <2>2, <2>3, <2>4
  <2> QED BY <2>5, RootFields
<1>6. (\A i \in CandidateIndexes : Unique(i.projections, ProjectionIdentity))
        <=> \A o \in Projects : \A p, q \in ProjectedRoots(o) :
               ProjectionIdentity(p) = ProjectionIdentity(q) => p = q
  <2>1. \A o \in Projects : IndexOf(o) \in CandidateIndexes
    BY IsIndex
  <2> QED BY <2>1, IsIndex, IndexFields DEF Unique
<1> QED BY <1>1, <1>2, <1>3, <1>4, <1>5, <1>6 DEF ReadCandidateIndexes

\* The reader takes the closures: one each, with frontiers that are in the table.
LEMMA ClosuresAreRead ==
  ASSUME LedgerInv, ledger # Nil
  PROVE  ReadProviderClosures(AssembledReceipt)
<1>1. AssembledReceipt.closures = ledger.closures /\ AssembledReceipt.tables = Tables
  BY AssembledFields
<1>2. \A c \in ledger.closures :
        \A q \in c.resolutions : q.frontier \in Tables.frontiers
  BY IsFrontier
<1>3. \A c, d \in ledger.closures : c.source = d.source => c = d
  BY DEF LedgerInv
<1> QED BY <1>1, <1>2, <1>3 DEF ReadProviderClosures, Unique

\* The reader takes the scopes exactly if each has its manifest for a control.
LEMMA ScopesControlled == ScopesRelate(AssembledReceipt) <=> ~UncontrolledScope
<1>1. AssembledReceipt.tables = Tables
  BY AssembledFields
<1>2. ASSUME NEW o \in Projects, NEW root \in topology[o].scopes,
             NEW scope \in Tables.scopes, scope.root = root
      PROVE  scope.control = IndexControl
  <2>1. IndexOf(o) \in CandidateIndexes /\ IndexOf(o).scopes = topology[o].scopes
        /\ IndexOf(o).control = IndexControl
    BY IsIndex, IndexFields
  <2>2. scope.control =
          UNION {i.control : i \in {j \in CandidateIndexes : root \in j.scopes}}
    BY <1>2, TableFields DEF MergedPackageScopes
  <2>3. \A i \in CandidateIndexes : i.control = IndexControl
    BY IsIndex, IndexFields
  <2> QED BY <2>1, <2>2, <2>3
<1>3. ASSUME NEW scope \in Tables.scopes
      PROVE  \E o \in Projects : scope.root \in topology[o].scopes
  <2>1. PICK root \in UNION {i.scopes : i \in CandidateIndexes} : scope.root = root
    BY TableFields DEF MergedPackageScopes
  <2> QED BY <2>1, IsIndex, IndexFields
<1>4. ASSUME ~UncontrolledScope, NEW scope \in Tables.scopes
      PROVE  scope.root \in scope.control
  BY <1>2, <1>3, <1>4 DEF UncontrolledScope
<1>5. ASSUME \A scope \in Tables.scopes : scope.root \in scope.control,
             NEW o \in Projects, NEW root \in topology[o].scopes
      PROVE  root \in IndexControl
  BY <1>2, <1>5, ScopesAreRead
<1> QED BY <1>1, <1>4, <1>5 DEF ScopesRelate, UncontrolledScope

\* The reader takes the exceptions and finds the universe of sources current.
LEMMA ExceptionsAreRead ==
  ASSUME LedgerInv, ledger # Nil
  PROVE  ExceptionsRelate(AssembledReceipt) /\ UniverseIsCurrent(AssembledReceipt)
<1>1. /\ AssembledReceipt.exceptions = ledger.exceptions
      /\ AssembledReceipt.sources = ReceiptSources
  BY AssembledFields
<1>2. ledger.exceptions \subseteq AllSources
  BY DEF LedgerInv
<1> DEFINE source(s) == [file |-> s, owner |-> OwnerOf(s),
             verdict |-> IF s \in ledger.exceptions THEN "exception" ELSE "accepted",
             closure |-> \E c \in ledger.closures : c.source = s]
<1>3. ReceiptSources = {source(s) : s \in AllSources}
  BY DEF ReceiptSources
<1>4. \A s : /\ source(s).file = s /\ source(s).owner = OwnerOf(s)
             /\ source(s).verdict = "exception" <=> s \in ledger.exceptions
  OBVIOUS
<1> HIDE DEF source
<1>5. ExceptionsRelate(AssembledReceipt)
  <2> DEFINE excepted == {t \in ReceiptSources : t.verdict = "exception"}
  <2>1. \A t : t \in excepted <=>
          \E s \in AllSources : s \in ledger.exceptions /\ t = source(s)
    BY <1>3, <1>4
  <2> HIDE DEF excepted
  <2>2. {t.file : t \in excepted} = ledger.exceptions
    BY <1>2, <1>4, <2>1
  <2> QED BY <1>1, <2>2 DEF ExceptionsRelate, excepted
<1>6. {<<t.file, t.owner>> : t \in ReceiptSources}
        = {<<s, OwnerOf(s)>> : s \in AllSources}
  BY <1>3, <1>4
<1> QED BY <1>1, <1>5, <1>6 DEF UniverseIsCurrent

\* The reader takes the sources exactly if each that requires the program has
\* its closure.
LEMMA SourcesAreRead ==
  ASSUME Settled, LedgerInv, ledger # Nil
  PROVE  SourcesRelate(AssembledReceipt) <=> ~MissingClosure
<1> DEFINE A == AssembledReceipt
           source(s) == [file |-> s, owner |-> OwnerOf(s),
             verdict |-> IF s \in ledger.exceptions THEN "exception" ELSE "accepted",
             closure |-> \E c \in ledger.closures : c.source = s]
           closed(s) == \E c \in ledger.closures : c.source = s
<1>1. /\ A.sources = ReceiptSources /\ A.bindings = ClassifierBindings
      /\ A.closures = ledger.closures
  BY AssembledFields
<1> HIDE DEF A
<1>2. \A t : t \in A.sources <=> \E s \in AllSources : t = source(s)
  BY <1>1 DEF ReceiptSources
<1>3. \A s : /\ source(s).file = s /\ source(s).owner = OwnerOf(s)
             /\ source(s).closure <=> closed(s)
  OBVIOUS
<1>4. \A s : source(s).closure = closed(s)
  BY Zenon
<1> HIDE DEF source
<1>5. ASSUME NEW s \in AllSources
      PROVE  (CHOOSE b \in A.bindings : b.source = s) = BindingOf(s)
  <2>1. BindingOf(s) \in A.bindings /\ BindingOf(s).source = s
    BY <1>1, IsBinding, BindingFields
  <2>2. \A b \in A.bindings : b.source = s => b = BindingOf(s)
    BY <1>1, IsBinding, BindingFields
  <2> QED BY <2>1, <2>2
<1>6. ASSUME NEW s \in AllSources
      PROVE  BindingOf(s).decision = ExpectedDecision(BindingOf(s))
  <2>1. (\E q \in Requests(s) : q.frontier.resolved = "facade")
          <=> \E n \in Boundaries(s) : resolved[s][n] = "facade"
    BY IsRequest, RequestFields DEF Settled
  <2>2. decided[s].decision = Decision(s)
    BY DEF Settled
  <2> QED BY <2>1, <2>2, BindingFields DEF ExpectedDecision, Decision
<1>7. ASSUME NEW s \in AllSources
      PROVE  RequiresProgram(BindingOf(s)) <=> decided[s].requiresProgram
  <2>1. /\ decided[s].decision = Decision(s)
        /\ decided[s].requiresProgram
             <=> topology[OwnerOf(s)].reasons # {} \/ Decision(s) # "facade-absent"
    BY DEF Settled
  <2> QED BY <2>1, BindingFields DEF RequiresProgram, ModeOf
<1>8. ASSUME NEW s \in AllSources
      PROVE  SourceRelates(A, source(s)) <=>
               (closed(s) <=> RequiresProgram(BindingOf(s)))
  <2> DEFINE b == BindingOf(s)
             t == source(s)
  <2>1. The(A.bindings, LAMBDA c : c.source = t.file) = b
    BY <1>3, <1>5 DEF The
  <2>2. /\ t.owner \in Projects
        /\ \E c \in A.bindings : c.source = t.file
        /\ b.owner = t.owner
    BY <1>1, <1>3, OwnersAreProjects, IsBinding, BindingFields
  <2>3. \A q \in b.requests : q.frontier.options = t.owner
    BY <1>3, BindingFields, IsRequest, RequestFields
  <2>4. b.decision = ExpectedDecision(b)
    BY <1>6
  <2>5. \A c \in A.closures : c.source = t.file =>
          \A q \in c.resolutions : q.frontier.options = t.owner
    BY <1>1, <1>3 DEF LedgerInv
  <2>6. t.closure = \E c \in A.closures : c.source = t.file
    BY <1>1, <1>3, <1>4, Zenon
  <2>7. (t.closure = RequiresProgram(b)) <=> (closed(s) <=> RequiresProgram(b))
    <3>1. RequiresProgram(b) \in BOOLEAN
      BY DEF RequiresProgram
    <3>2. t.closure = closed(s)
      BY <1>4, Zenon
    <3>3. closed(s) \in BOOLEAN
      BY Zenon
    <3> HIDE DEF t, b, closed
    <3> QED BY <3>1, <3>2, <3>3
  <2> HIDE DEF b, t
  <2>8. SourceRelates(A, t) <=> (t.closure = RequiresProgram(b))
    BY <2>1, <2>2, <2>3, <2>4, <2>5, <2>6 DEF SourceRelates
  <2> QED BY <2>7, <2>8 DEF b, t
<1>9. {b.source : b \in A.bindings} \cup {c.source : c \in A.closures}
        \subseteq {t.file : t \in A.sources}
  <2>1. \A b \in A.bindings : b.source \in AllSources
    BY <1>1, IsBinding, BindingFields
  <2>2. \A c \in A.closures : c.source \in AllSources
    BY <1>1 DEF LedgerInv
  <2>3. \A s \in AllSources : s \in {t.file : t \in A.sources}
    BY <1>2, <1>3
  <2> QED BY <2>1, <2>2, <2>3
<1>10. ASSUME NEW s \in AllSources
       PROVE  closed(s) => decided[s].requiresProgram
  BY DEF LedgerInv
<1>11. MissingClosure <=> \E s \in AllSources : decided[s].requiresProgram /\ ~closed(s)
  BY DEF MissingClosure
<1> HIDE DEF closed
<1>12. (\A t \in A.sources : SourceRelates(A, t))
         <=> \A s \in AllSources : closed(s) <=> decided[s].requiresProgram
  BY <1>2, <1>7, <1>8
<1> QED BY <1>9, <1>10, <1>11, <1>12 DEF SourcesRelate, A

\* The reader finds the indexes and the sources in agreement.
LEMMA IndexesAreRelated ==
  ASSUME RowsHold
  PROVE  IndexesRelate(AssembledReceipt)
<1> DEFINE A == AssembledReceipt
<1>1. A.indexes = CandidateIndexes /\ A.sources = ReceiptSources
  BY AssembledFields
<1> HIDE DEF A
<1>2. \A i, j \in A.indexes : i.owner = j.owner => i.mode = j.mode
  BY <1>1, IsIndex, IndexFields
<1>3. ASSUME NEW s \in AllSources
      PROVE  \E t \in A.sources : t.file = s /\ t.owner = OwnerOf(s)
  <2> DEFINE t == [file |-> s, owner |-> OwnerOf(s),
             verdict |-> IF s \in ledger.exceptions THEN "exception" ELSE "accepted",
             closure |-> \E c \in ledger.closures : c.source = s]
  <2>1. t \in A.sources
    BY <1>1 DEF ReceiptSources
  <2>2. t.file = s /\ t.owner = OwnerOf(s)
    OBVIOUS
  <2> HIDE DEF t
  <2> QED BY <2>1, <2>2
<1>4. ASSUME NEW o \in Projects, NEW p \in ProjectedRoots(o)
      PROVE  /\ \E t \in A.sources : t.file = p.boundary[1] /\ t.owner = o
             /\ p.status = "disjoint" => p.lexicalRoot # Gen
                                         /\ p.canonicalRoot # Canonical(Gen)
  <2>1. PICK s \in SourcesOf(o) : \E n \in Boundaries(s) :
             \E k \in DOMAIN projection[s][n].rows : p = RootOf(s, n, k)
    BY IsRoot
  <2>2. PICK n \in Boundaries(s) :
             \E k \in DOMAIN projection[s][n].rows : p = RootOf(s, n, k)
    BY <2>1
  <2>3. PICK k \in DOMAIN projection[s][n].rows : p = RootOf(s, n, k)
    BY <2>2
  <2>4. s \in AllSources /\ OwnerOf(s) = o
    BY DEF SourcesOf
  <2>5. p.boundary[1] = s
    BY <2>3, RootFields
  <2>6. RowsAre(projection[s][n], Canonical(Gen))
    BY <2>4 DEF RowsHold
  <2>7. p.status = "disjoint" => ~projection[s][n].candidate
    BY <2>3, RootFields
  <2>8. p.status = "disjoint" => p.lexicalRoot # Gen /\ p.canonicalRoot # Canonical(Gen)
    BY <2>3, <2>6, <2>7, RootFields DEF RowsAre
  <2> QED BY <1>3, <2>4, <2>5, <2>8
<1>5. ASSUME NEW o \in Projects
      PROVE  IndexRelates(A, IndexOf(o))
  <2>1. (ModeOf(o) = "owner-fallback") = (topology[o].reasons # {})
    BY DEF ModeOf
  <2> DEFINE i == IndexOf(o)
  <2>2. /\ i.owner = o /\ i.options = o /\ i.mode = ModeOf(o)
        /\ i.reasons = topology[o].reasons /\ i.projections = ProjectedRoots(o)
    BY IndexFields
  <2> HIDE DEF i
  <2>3. (i.mode = "owner-fallback") = (i.reasons # {})
    BY <2>1, <2>2, Zenon
  <2>4. \A p \in i.projections :
         /\ \E t \in A.sources : t.file = p.boundary[1] /\ t.owner = i.owner
         /\ p.status = "disjoint" => p.lexicalRoot # Gen /\ p.canonicalRoot # Canonical(Gen)
    BY <1>4, <2>2
  <2>5. i.owner \in Projects /\ i.options = i.owner
    BY <2>2
  <2>6. IndexRelates(A, i)
    BY <2>3, <2>4, <2>5, Zenon DEF IndexRelates
  <2> QED BY <2>6 DEF i
<1> QED BY <1>1, <1>2, <1>5, IsIndex DEF IndexesRelate, A

\* The reader finds one resolution for each import and no frontier left over.
LEMMA EvidenceIsRelated ==
  ASSUME WorldTyped(world)
  PROVE  EvidenceRelates(AssembledReceipt)
<1> DEFINE A == AssembledReceipt
           askedOf(b) == {<<b.source, q.specifier.path, q.frontier>> : q \in b.requests}
           providedBy(c) == {<<q.from, q.frontier.about[3], q.frontier>> :
                              q \in c.resolutions}
           asked == UNION {askedOf(b) : b \in A.bindings}
           provided == UNION {providedBy(c) : c \in A.closures}
<1>1. /\ A.bindings = ClassifierBindings /\ A.closures = ledger.closures
      /\ A.tables = Tables
  BY AssembledFields
<1> HIDE DEF A
<1>2. ASSUME NEW e
      PROVE  e \in asked <=> \E s \in AllSources : \E q \in Requests(s) :
               e = <<s, q.specifier.path, q.frontier>>
  <2>1. e \in asked <=> \E b \in A.bindings : \E q \in b.requests :
                          e = <<b.source, q.specifier.path, q.frontier>>
    OBVIOUS
  <2> HIDE DEF asked
  <2> QED BY <1>1, <2>1, IsBinding, BindingFields
<1>3. ASSUME NEW e
      PROVE  e \in provided <=> \E c \in ledger.closures : \E q \in c.resolutions :
               e = <<q.from, q.frontier.about[3], q.frontier>>
  BY <1>1
<1>4. ASSUME NEW e \in asked, NEW f \in asked, e[1] = f[1], e[2] = f[2],
             e[3].mode = f[3].mode, e[3].about = f[3].about
      PROVE  e[3] = f[3]
  <2> HIDE DEF asked
  <2>1. PICK s \in AllSources : \E q \in Requests(s) :
               e = <<s, q.specifier.path, q.frontier>>
    BY <1>2
  <2>2. PICK q \in Requests(s) : e = <<s, q.specifier.path, q.frontier>>
    BY <2>1
  <2>3. PICK n \in Boundaries(s) : q = RequestOf(s, n)
    BY IsRequest
  <2>4. PICK t \in AllSources : \E r \in Requests(t) :
               f = <<t, r.specifier.path, r.frontier>>
    BY <1>2
  <2>5. PICK r \in Requests(t) : f = <<t, r.specifier.path, r.frontier>>
    BY <2>4
  <2>6. PICK m \in Boundaries(t) : r = RequestOf(t, m)
    BY IsRequest
  <2>7. s = t
    BY <1>4, <2>2, <2>5
  <2>8. /\ e[3] = q.frontier /\ f[3] = r.frontier
    BY <2>2, <2>5
  <2>9. /\ SpecifierOf(s, n).mode = SpecifierOf(s, m).mode
        /\ SpecifierOf(s, n).form = SpecifierOf(s, m).form
        /\ SpecifierOf(s, n).path = SpecifierOf(s, m).path
    BY <1>4, <2>3, <2>6, <2>7, <2>8, RequestFields
  <2>10. SpecifierOf(s, n) \in Imports /\ SpecifierOf(s, m) \in Imports
    BY <2>7, ImportIsTyped DEF SpecifierOf
  <2>11. SpecifierOf(s, n) = SpecifierOf(s, m)
    BY <2>9, <2>10 DEF Imports
  <2>12. n = m
    BY <2>7, <2>11 DEF SpecifierOf, WorldTyped, ImportsTyped, Boundaries
  <2> QED BY <2>3, <2>6, <2>7, <2>8, <2>12
<1>5. \A x : x \in Tables.frontiers <=>
        \/ \E s \in AllSources : \E q \in Requests(s) : x = q.frontier
        \/ \E c \in ledger.closures : \E q \in c.resolutions : x = q.frontier
  BY IsFrontier
<1> HIDE DEF asked, provided
<1>6. {e[3] : e \in asked \cup provided} = Tables.frontiers
  <2>1. ASSUME NEW e \in asked \cup provided
        PROVE  e[3] \in Tables.frontiers
    BY <1>2, <1>3, <1>5
  <2>2. ASSUME NEW x \in Tables.frontiers
        PROVE  \E e \in asked \cup provided : e[3] = x
    <3>1. CASE \E s \in AllSources : \E q \in Requests(s) : x = q.frontier
      <4>1. PICK s \in AllSources : \E q \in Requests(s) : x = q.frontier
        BY <3>1
      <4>2. PICK q \in Requests(s) : x = q.frontier
        BY <4>1
      <4>3. <<s, q.specifier.path, q.frontier>> \in asked
        BY <1>2
      <4> QED BY <4>2, <4>3
    <3>2. CASE \E c \in ledger.closures : \E q \in c.resolutions : x = q.frontier
      <4>1. PICK c \in ledger.closures : \E q \in c.resolutions : x = q.frontier
        BY <3>2
      <4>2. PICK q \in c.resolutions : x = q.frontier
        BY <4>1
      <4>3. <<q.from, q.frontier.about[3], q.frontier>> \in provided
        BY <1>3
      <4> QED BY <4>2, <4>3
    <3> QED BY <1>5, <3>1, <3>2
  <2> QED BY <2>1, <2>2
<1>7. /\ \A e, f \in asked :
           (e[1] = f[1] /\ e[2] = f[2] /\ e[3].mode = f[3].mode
              /\ e[3].about = f[3].about) => e[3] = f[3]
      /\ {e[3] : e \in asked \cup provided} = A.tables.frontiers
  BY <1>1, <1>4, <1>6
<1> QED BY <1>7, Zenon DEF EvidenceRelates, asked, provided, A

\* The reader takes a request of a source.
LEMMA RequestsAreRead ==
  ASSUME NEW s \in AllSources, NEW q \in Requests(s)
  PROVE  ReadRequest(AssembledReceipt, s, q)
<1>1. AssembledReceipt.tables = Tables
  BY AssembledFields
<1>2. PICK n \in Boundaries(s) : projection[s][n].candidate /\ q = RequestOf(s, n)
  BY IsRequest
<1>3. q.frontier \in Tables.frontiers
  BY IsFrontier
<1>4. RowOf(s, n) \in Tables.boundaries
  BY IsRow
<1>5. /\ RowOf(s, n).source = s /\ RowOf(s, n).ordinal = n
      /\ RowOf(s, n).specifier = SpecifierOf(s, n)
  BY DEF RowOf
<1>6. /\ q.boundary = n /\ q.specifier = SpecifierOf(s, n)
      /\ q.frontier.mode = SpecifierOf(s, n).mode
  BY <1>2, RequestFields
<1> QED BY <1>1, <1>3, <1>4, <1>5, <1>6 DEF ReadRequest

\* The rows an index has of one boundary.
EvidenceOf(s, n) == {p \in ProjectedRoots(OwnerOf(s)) : p.boundary = <<s, n>>}

\* The evidence of a boundary is the rows of its projection.
LEMMA IsEvidence ==
  ASSUME NEW s \in AllSources, NEW n \in Boundaries(s), NEW p
  PROVE  p \in EvidenceOf(s, n)
           <=> \E k \in DOMAIN projection[s][n].rows : p = RootOf(s, n, k)
<1>1. s \in SourcesOf(OwnerOf(s))
  BY OwnersAreProjects
<1>2. ASSUME p \in EvidenceOf(s, n)
      PROVE  \E k \in DOMAIN projection[s][n].rows : p = RootOf(s, n, k)
  <2>1. p \in ProjectedRoots(OwnerOf(s)) /\ p.boundary = <<s, n>>
    BY <1>2 DEF EvidenceOf
  <2>2. PICK t \in SourcesOf(OwnerOf(s)) : \E m \in Boundaries(t) :
             \E k \in DOMAIN projection[t][m].rows : p = RootOf(t, m, k)
    BY <2>1, IsRoot
  <2>3. PICK m \in Boundaries(t) :
             \E k \in DOMAIN projection[t][m].rows : p = RootOf(t, m, k)
    BY <2>2
  <2>4. PICK k \in DOMAIN projection[t][m].rows : p = RootOf(t, m, k)
    BY <2>3
  <2>5. s = t /\ n = m
    BY <2>1, <2>4, RootFields
  <2> QED BY <2>4, <2>5
<1>3. ASSUME NEW k \in DOMAIN projection[s][n].rows, p = RootOf(s, n, k)
      PROVE  p \in EvidenceOf(s, n)
  BY <1>1, <1>3, IsRoot, RootFields DEF EvidenceOf
<1> QED BY <1>2, <1>3

\* The evidence of a boundary has one kind and one status, that of a candidate
\* if it is one.
LEMMA EvidenceAgrees ==
  ASSUME RowsHold, NEW s \in AllSources, NEW n \in Boundaries(s)
  PROVE  /\ Cardinality({p.proofKind : p \in EvidenceOf(s, n)}) = 1
         /\ Cardinality({p.status : p \in EvidenceOf(s, n)}) = 1
         /\ (\E p \in EvidenceOf(s, n) : p.status = "candidate")
              <=> projection[s][n].candidate
<1>1. RowsAre(projection[s][n], Canonical(Gen))
  BY DEF RowsHold
<1>2. PICK k \in DOMAIN projection[s][n].rows : TRUE
  BY <1>1 DEF RowsAre
<1> DEFINE kind == projection[s][n].rows[k].kind
           status == IF projection[s][n].candidate THEN "candidate" ELSE "disjoint"
<1>3. RootOf(s, n, k) \in EvidenceOf(s, n)
  BY IsEvidence
<1>4. \A p \in EvidenceOf(s, n) : p.proofKind = kind /\ p.status = status
  BY <1>1, <1>2, IsEvidence, RootFields DEF RowsAre
<1>5. (status = "candidate") <=> projection[s][n].candidate
  OBVIOUS
<1> HIDE DEF kind, status
<1>6. {p.proofKind : p \in EvidenceOf(s, n)} = {kind}
      /\ {p.status : p \in EvidenceOf(s, n)} = {status}
  BY <1>3, <1>4
<1> QED BY <1>3, <1>4, <1>5, <1>6, FS_Singleton

\* The reader takes the bindings.
LEMMA BindingsAreRead ==
  ASSUME RowsHold
  PROVE  ReadClassifierBindings(AssembledReceipt)
<1> DEFINE A == AssembledReceipt
<1>1. /\ A.bindings = ClassifierBindings /\ A.indexes = CandidateIndexes
      /\ A.tables = Tables
  BY AssembledFields
<1>2. \A s \in AllSources : \A q \in Requests(s) : ReadRequest(A, s, q)
  BY RequestsAreRead
<1> HIDE DEF A
<1>3. Unique(A.bindings, LAMBDA b : b.source)
  BY <1>1, IsBinding, BindingFields DEF Unique
<1>4. ASSUME NEW s \in AllSources
      PROVE  ReadClassifierBinding(A, BindingOf(s))
  <2> DEFINE b == BindingOf(s)
             o == OwnerOf(s)
             index == The(A.indexes, LAMBDA i : i.owner = b.owner)
             evidence(n) == {p \in index.projections : p.boundary = <<b.source, n>>}
             own == {c \in A.tables.boundaries : c.source = b.source}
  <2>1. /\ b.source = s /\ b.owner = o /\ b.mode = ModeOf(o)
        /\ b.boundaries = Boundaries(s) /\ b.requests = Requests(s)
        /\ b.unknown = (s \in world.unknown)
    BY BindingFields
  <2>2. IndexOf(o) \in A.indexes /\ IndexOf(o).owner = o
    BY <1>1, OwnersAreProjects, IsIndex, IndexFields
  <2>3. index = IndexOf(o)
    <3>1. \A i \in A.indexes : i.owner = o => i = IndexOf(o)
      BY <1>1, IsIndex, IndexFields
    <3> QED BY <2>1, <2>2, <3>1 DEF The
  <2>4. b.mode = index.mode
    BY <2>1, <2>3, IndexFields
  <2>5. \A n : evidence(n) = EvidenceOf(s, n)
    <3>1. index.projections = ProjectedRoots(o)
      BY <2>3, IndexFields
    <3> HIDE DEF index, b
    <3> QED BY <2>1, <3>1 DEF EvidenceOf
  <2>6. b.boundaries = {c.ordinal : c \in own}
    <3>1. \A t, n : RowOf(t, n).source = t /\ RowOf(t, n).ordinal = n
      BY DEF RowOf
    <3>2. \A c : c \in own <=> \E n \in Boundaries(s) : c = RowOf(s, n)
      BY <1>1, <2>1, <3>1, IsRow
    <3> HIDE DEF own
    <3>3. {c.ordinal : c \in own} = Boundaries(s)
      BY <3>1, <3>2
    <3> QED BY <2>1, <3>3
  <2>7. b.unknown = (b.source \in A.tables.unknown)
    BY <1>1, <2>1, TableFields, Zenon
  <2>8. \A q \in b.requests : ReadRequest(A, b.source, q)
    BY <1>2, <2>1
  <2> HIDE DEF b, index, evidence, own
  <2>9. \A n \in b.boundaries :
          /\ Cardinality({p.proofKind : p \in evidence(n)}) = 1
          /\ Cardinality({p.status : p \in evidence(n)}) = 1
    BY <2>1, <2>5, EvidenceAgrees
  <2>10. \A q, r \in b.requests : q.boundary = r.boundary => q = r
    BY <2>1, IsRequest, RequestFields
  <2>11. {q.boundary : q \in b.requests} =
           {n \in b.boundaries : \E p \in evidence(n) : p.status = "candidate"}
    <3>1. \A n : n \in {q.boundary : q \in b.requests}
                   <=> n \in Boundaries(s) /\ projection[s][n].candidate
      BY <2>1, IsRequest, RequestFields
    <3>2. \A n \in Boundaries(s) : (\E p \in evidence(n) : p.status = "candidate")
                   <=> projection[s][n].candidate
      BY <2>5, EvidenceAgrees
    <3> QED BY <2>1, <3>1, <3>2
  <2>12. \E i \in A.indexes : i.owner = b.owner
    BY <2>1, <2>2
  <2>13. Unique(b.requests, LAMBDA q : q.boundary)
    BY <2>10 DEF Unique
  <2>14. ReadClassifierBinding(A, b)
    BY <2>4, <2>6, <2>7, <2>8, <2>9, <2>11, <2>12, <2>13, Zenon
       DEF ReadClassifierBinding, index, evidence, own
  <2> QED BY <2>14 DEF b
<1> QED BY <1>1, <1>3, <1>4, IsBinding DEF ReadClassifierBindings, A

\* The reader takes what the assembly wrote unless for the three reasons.
LEMMA ReadsBackUnless ==
  ASSUME WorldTyped(world), RowsHold, Settled, LedgerInv, ledger # Nil
  PROVE  Accepts(AssembledReceipt)
           <=> ~(UncontrolledScope \/ AlikeProjections \/ MissingClosure)
<1>1. /\ AssembledReceipt.counters = Counters(AssembledReceipt)
      /\ AssembledReceipt.envelope = Envelope(AssembledReceipt)
  BY AssembledFields
<1> QED BY <1>1, TablesAreRead, IndexesAreRead, ClosuresAreRead, BindingsAreRead,
           ScopesControlled, SourcesAreRead, IndexesAreRelated, ExceptionsAreRead,
           EvidenceIsRelated, Zenon DEF Accepts

\* The rows, the ledger and the receipt are what the assembly makes of the
\* classification (buildIntlCheckReceiptV3FromProjectionLedger).
THEOREM KnownCausesInvariant ==
  ReceiptSpec => [](ClassifierInv /\ ReceiptInv /\ ProjectionInv /\ LedgerInv)
<1> DEFINE I == ClassifierInv /\ ReceiptInv /\ ProjectionInv /\ LedgerInv
<1>1. ReceiptInit => ProjectionInv /\ LedgerInv
  BY DEF ReceiptInit, ClassifierInit, ProjectionInv, LedgerInv
<1>2. ClassifierInv /\ ReceiptInv /\ ProjectionInv /\ LedgerInv
        /\ [ReceiptNext]_<<classifier, receipting>> => (ProjectionInv /\ LedgerInv)'
  <2>1. SUFFICES ASSUME ClassifierInv, ReceiptInv, ProjectionInv, LedgerInv,
                        [ReceiptNext]_<<classifier, receipting>>
                 PROVE  ProjectionInv' /\ LedgerInv'
    OBVIOUS
  <2>2. CASE ReceiptNext
    <3>1. LedgerInv'
      BY <2>1, <2>2, LedgerSteps
    <3>2. CASE ClassifierNext
      BY <2>1, <3>1, <3>2, ProjectionSteps
    <3>3. CASE UNCHANGED classifier
      BY <2>1, <3>1, <3>3, ProjectionStays
    <3> QED BY <2>2, <3>2, <3>3
            DEF ReceiptNext, ReceiptStep, AnalyzeSources, AssembleReceipt,
                DamageReceipt, ReadReceipt
  <2>3. CASE UNCHANGED <<classifier, receipting>>
    <3>1. UNCHANGED <<ledger, decided, classifier>>
      BY <2>3 DEF classifier, receipting
    <3>2. LedgerInv'
      BY <2>1, <3>1 DEF LedgerInv
    <3> QED BY <2>1, <3>1, <3>2, ProjectionStays
  <2> QED BY <2>1, <2>2, <2>3
<1> QED BY <1>1, <1>2, ReceiptInvariant, PTL DEF ReceiptSpec

\* An assembled receipt is refused for an uncontrolled scope, for two alike
\* projections or for a missing closure, and for nothing else
\* (buildIntlCheckReceiptV3FromProjectionLedger, parseIntlCheckReceiptV3).
THEOREM RefusalsHaveKnownCauses == ReceiptSpec => []RefusedForKnownCauses
<1>1. ClassifierInv /\ ReceiptInv /\ ProjectionInv /\ LedgerInv => RefusedForKnownCauses
  BY ReadsBackUnless DEF ClassifierInv, ReceiptInv, ProjectionInv,
     RefusedForKnownCauses, Pristine
<1> QED BY <1>1, KnownCausesInvariant, PTL

----------------------------------------------------------------------------
(* What syntax alone tells                                                *)

\* A declaration that the analysis can follow place by place.
Followed(d) ==
  /\ d.init.is = "t" => d.init.of.is # "choice"
  /\ d.pattern.is = "row" =>
       /\ Len(d.pattern.each) \in Nat
       /\ d.init.is = "all" =>
            \A n \in 1..Len(d.pattern.each) :
              n \in DOMAIN d.init.each /\ d.init.each[n].is # "choice"

\* A source that the analysis can follow.
Sourced(source) ==
  /\ Len(source.declarations) \in Nat
  /\ DOMAIN source.declarations = 1..Len(source.declarations)
  /\ \A d \in Range(source.declarations) : Followed(d)
  /\ Len(source.uses) \in Nat
  /\ DOMAIN source.uses = 1..Len(source.uses)

\* Every field of the analysis is there.
LoweringShape ==
  lowering = [at |-> lowering.at, required |-> lowering.required,
              objects |-> lowering.objects, translators |-> lowering.translators,
              keys |-> lowering.keys, next |-> lowering.next,
              replaced |-> lowering.replaced, registries |-> lowering.registries]

\* Nothing is bound and nothing replaced.
NothingFound ==
  /\ lowering.objects = << >> /\ lowering.translators = << >>
  /\ lowering.keys = << >>
  /\ lowering.next \in Nat \ {0}
  /\ lowering.replaced \in Seq({Left})
  /\ lowering.at \notin {"checked", "lowered"}
  /\ lowering.at = "refused" =>
       \E d \in Range(program.declarations) :
         d.pattern.is \in {"pick", "nested"}
           /\ d.init = Wrapper("useAppTranslations")

\* The preflight has not yet spoken.
Early == {"begun", "preflight"}

\* The source, what the preflight said of it, and what has been found.
LoweringInv ==
  /\ LoweringShape
  /\ program = NoSource => lowering = Start
  /\ program # NoSource => Sourced(program)
  /\ lowering.at \in Early => ~lowering.required /\ NothingFound
  /\ lowering.at \notin Early => (lowering.required <=> RequiresAnalysis(program))
  /\ ~lowering.required => NothingFound

\* In a source of no concern nothing that is declared asks for a translator or
\* for a key (requiresMiraiIntlAnalysis).
LEMMA Unconcerned ==
  ASSUME NEW source, ~RequiresAnalysis(source), NEW d \in Range(source.declarations),
         NEW e \in PartsOf(d.init)
  PROVE  e.is \notin {"factory", "keys"}
<1>1. e \in Expressions(source)
  BY DEF Expressions
<1> QED BY <1>1 DEF RequiresAnalysis

\* What is no factory has no namespace while no name is bound.
LEMMA NotBound ==
  ASSUME NEW l, l.objects = << >>, NEW e, e.is \notin {"factory", "choice"}
  PROVE  ObjectNamespace(l, e) = NoNamespace
BY DEF ObjectNamespace, NamedObject

\* Nor has a choice between such expressions.
LEMMA NoObject ==
  ASSUME NEW l, l.objects = << >>, NEW e, \A x \in PartsOf(e) : x.is # "factory"
  PROVE  ObjectNamespace(l, e) = NoNamespace
<1>1. /\ e \in PartsOf(e)
      /\ e.is = "choice" => e.one \in PartsOf(e) /\ e.other \in PartsOf(e)
  BY DEF PartsOf
<1>2. \A x : x.is # "factory" => NamedObject(l, x) = NoNamespace
  BY DEF NamedObject
<1> QED BY <1>1, <1>2 DEF ObjectNamespace

\* Nor is the t of such an expression a translator (textTranslator).
LEMMA NoTranslator ==
  ASSUME NEW l, l.objects = << >>, l.translators = << >>, NEW e,
         \A x \in PartsOf(e) : x.is # "factory",
         e.is = "t" => e.of.is # "choice"
  PROVE  TextTranslator(l, e) = NoNamespace
<1>1. e.is = "t" => e.of \in PartsOf(e)
  BY DEF PartsOf
<1> QED BY <1>1, NotBound DEF TextTranslator

\* To have no namespace is not to be refused.
LEMMA Differ == NoNamespace # Refused
BY DEF NoNamespace, Refused

\* A declaration without a factory binds no name, place by place where it
\* declares a row (analyzeSource, promiseAllNamespaces).
LEMMA DeclarationBindsNothing ==
  ASSUME NEW l, l.objects = << >>, l.translators = << >>,
         NEW d, Followed(d), \A x \in PartsOf(d.init) : x.is # "factory"
  PROVE  BindDeclaration(l, d) = l
<1>1. /\ ObjectNamespace(l, d.init) = NoNamespace
      /\ TextTranslator(l, d.init) = NoNamespace
  BY NoObject, NoTranslator DEF Followed
<1>2. CASE d.pattern.is # "row"
  BY <1>1, <1>2, Differ DEF BindDeclaration
<1>3. CASE d.pattern.is = "row" /\ d.init.is # "all"
  BY <1>3 DEF BindDeclaration, BindRow
<1>4. CASE d.pattern.is = "row" /\ d.init.is = "all"
  <2> DEFINE k == Len(d.pattern.each)
             P(f) == f = [n \in 0..k |->
                        IF n = 0 THEN l
                        ELSE BindPlace(l, f[n - 1], d.pattern.each[n], d.init.each[n])]
             placed == CHOOSE f : P(f)
             same == [n \in 0..k |-> l]
  <2>1. k \in Nat
    BY <1>4 DEF Followed
  <2>2. ASSUME NEW n \in 1..k
        PROVE  BindPlace(l, l, d.pattern.each[n], d.init.each[n]) = l
    <3>1. n \in DOMAIN d.init.each /\ d.init.each[n].is # "choice"
      BY <1>4 DEF Followed
    <3>2. d.init.each[n] \in PartsOf(d.init)
      BY <1>4, <3>1 DEF PartsOf, Range
    <3>3. ObjectNamespace(l, d.init.each[n]) = NoNamespace
      BY <3>1, <3>2, NotBound
    <3> QED BY <3>3, Differ DEF BindPlace
  <2>3. P(same)
    BY <2>1, <2>2
  <2>4. P(placed)
    BY <2>3
  <2> HIDE DEF P, placed
  <2>5. \A n \in 0..k : placed[n] = l
    <3>1. placed = [n \in 0..k |->
              IF n = 0 THEN l
              ELSE BindPlace(l, placed[n - 1], d.pattern.each[n], d.init.each[n])]
      BY <2>4 DEF P
    <3> DEFINE wrong == {n \in 0..k : placed[n] # l}
    <3>2. SUFFICES ASSUME wrong # {} PROVE FALSE
      OBVIOUS
    <3>3. wrong \subseteq Nat
      BY <2>1
    <3>4. PICK x \in wrong : \A y \in wrong : ~(<<y, x>> \in OpToRel(<, Nat))
      <4> HIDE DEF wrong
      <4> QED BY <3>2, <3>3, NatIsWellFounded, WFMin
    <3>5. x \in 1..k
      BY <2>1, <3>1
    <3>6. x - 1 \in 0..k /\ x - 1 \in Nat /\ x \in Nat /\ x - 1 < x
      BY <2>1, <3>5
    <3>7. placed[x - 1] = l
      BY <3>4, <3>6 DEF OpToRel
    <3> QED BY <2>2, <3>1, <3>5, <3>7
  <2>6. placed[k] = l
    BY <2>1, <2>5
  <2>7. BindRow(l, d.pattern, d.init) = placed[k]
    BY <1>4 DEF BindRow, placed, P
  <2> QED BY <1>4, <2>6, <2>7 DEF BindDeclaration
<1> QED BY <1>2, <1>3, <1>4

\* Nor do declarations that bind none each.
LEMMA DeclarationsBindNothing ==
  ASSUME NEW l, NEW ds, Len(ds) \in Nat,
         \A n \in 1..Len(ds) : BindDeclaration(l, ds[n]) = l
  PROVE  BindDeclarations(l, ds) = l
<1> DEFINE k == Len(ds)
           P(f) == f = [n \in 0..k |->
                      IF n = 0 THEN l ELSE BindDeclaration(f[n - 1], ds[n])]
           declared == CHOOSE f : P(f)
           same == [n \in 0..k |-> l]
<1>1. P(same)
  OBVIOUS
<1>2. P(declared)
  BY <1>1
<1> HIDE DEF P, declared
<1>3. declared = [n \in 0..k |->
                    IF n = 0 THEN l ELSE BindDeclaration(declared[n - 1], ds[n])]
  BY <1>2 DEF P
<1> DEFINE wrong == {n \in 0..k : declared[n] # l}
<1>4. wrong = {}
  <2>1. SUFFICES ASSUME wrong # {} PROVE FALSE
    OBVIOUS
  <2>2. wrong \subseteq Nat
    OBVIOUS
  <2>3. PICK x \in wrong : \A y \in wrong : ~(<<y, x>> \in OpToRel(<, Nat))
    <3> HIDE DEF wrong
    <3> QED BY <2>1, <2>2, NatIsWellFounded, WFMin
  <2>4. x \in 1..k
    BY <1>3
  <2>5. x - 1 \in 0..k /\ x - 1 \in Nat /\ x \in Nat /\ x - 1 < x
    BY <2>4
  <2>6. declared[x - 1] = l
    BY <2>3, <2>5 DEF OpToRel
  <2> QED BY <1>3, <2>4, <2>6
<1>5. declared[k] = l
  BY <1>4
<1>6. BindDeclarations(l, ds) = declared[k]
  BY DEF BindDeclarations, declared, P
<1> QED BY <1>5, <1>6

\* The same for the declarations of deferred keys.
LEMMA KeysBindNothing ==
  ASSUME NEW l, NEW ds, Len(ds) \in Nat,
         \A n \in 1..Len(ds) : BindKeys(l, ds[n]) = l
  PROVE  BindAllKeys(l, ds) = l
<1> DEFINE k == Len(ds)
           P(f) == f = [n \in 0..k |->
                      IF n = 0 THEN l ELSE BindKeys(f[n - 1], ds[n])]
           declared == CHOOSE f : P(f)
           same == [n \in 0..k |-> l]
<1>1. P(same)
  OBVIOUS
<1>2. P(declared)
  BY <1>1
<1> HIDE DEF P, declared
<1>3. declared = [n \in 0..k |-> IF n = 0 THEN l ELSE BindKeys(declared[n - 1], ds[n])]
  BY <1>2 DEF P
<1> DEFINE wrong == {n \in 0..k : declared[n] # l}
<1>4. wrong = {}
  <2>1. SUFFICES ASSUME wrong # {} PROVE FALSE
    OBVIOUS
  <2>2. wrong \subseteq Nat
    OBVIOUS
  <2>3. PICK x \in wrong : \A y \in wrong : ~(<<y, x>> \in OpToRel(<, Nat))
    <3> HIDE DEF wrong
    <3> QED BY <2>1, <2>2, NatIsWellFounded, WFMin
  <2>4. x \in 1..k
    BY <1>3
  <2>5. x - 1 \in 0..k /\ x - 1 \in Nat /\ x \in Nat /\ x - 1 < x
    BY <2>4
  <2>6. declared[x - 1] = l
    BY <2>3, <2>5 DEF OpToRel
  <2> QED BY <1>3, <2>4, <2>6
<1>5. declared[k] = l
  BY <1>4
<1>6. BindAllKeys(l, ds) = declared[k]
  BY DEF BindAllKeys, declared, P
<1> QED BY <1>5, <1>6

\* A declaration without createTranslationKey declares no key.
LEMMA KeyBindsNothing ==
  ASSUME NEW l, NEW d, d.init.is # "keys"
  PROVE  BindKeys(l, d) = l
BY DEF BindKeys, KeyNamespace

\* What stands in a place of a sequence is in its range.
LEMMA Places ==
  ASSUME NEW ds, DOMAIN ds = 1..Len(ds), NEW n \in 1..Len(ds)
  PROVE  ds[n] \in Range(ds)
BY DEF Range

\* The passes over a source of no concern end where they began.
LEMMA NothingToBind ==
  ASSUME Sourced(program), ~RequiresAnalysis(program),
         lowering.objects = << >>, lowering.translators = << >>
  PROVE  /\ BindDeclarations(lowering, program.declarations) = lowering
         /\ BindAllKeys(lowering, program.declarations) = lowering
<1> DEFINE ds == program.declarations
<1>1. ASSUME NEW n \in 1..Len(ds)
      PROVE  /\ BindDeclaration(lowering, ds[n]) = lowering
             /\ BindKeys(lowering, ds[n]) = lowering
  <2>1. ds[n] \in Range(ds) /\ Followed(ds[n])
    BY Places DEF Sourced
  <2>2. \A x \in PartsOf(ds[n].init) : x.is \notin {"factory", "keys"}
    BY <2>1, Unconcerned
  <2>3. ds[n].init \in PartsOf(ds[n].init)
    BY DEF PartsOf
  <2> QED BY <2>1, <2>2, <2>3, DeclarationBindsNothing, KeyBindsNothing
<1> QED BY <1>1, DeclarationsBindNothing, KeysBindNothing DEF Sourced

\* What the replacements may make of what was found.
Kept(l) ==
  /\ l = [at |-> l.at, required |-> l.required,
           objects |-> l.objects, translators |-> l.translators,
           keys |-> l.keys, next |-> l.next,
           replaced |-> l.replaced, registries |-> l.registries]
  /\ l.required = lowering.required
  /\ l.at \notin Early

\* A field may change, and the place in the analysis as long as it stays behind
\* the preflight.
LEMMA FieldsAreKept ==
  ASSUME NEW l, Kept(l), NEW x
  PROVE  /\ Kept([l EXCEPT !.registries = x]) /\ Kept([l EXCEPT !.replaced = x])
         /\ Kept([l EXCEPT !.next = x]) /\ Kept([l EXCEPT !.keys = x])
         /\ Kept([l EXCEPT !.objects = x]) /\ Kept([l EXCEPT !.translators = x])
         /\ x \notin Early => Kept([l EXCEPT !.at = x])
<1>1. Kept([l EXCEPT !.registries = x])
  BY DEF Kept
<1>2. Kept([l EXCEPT !.replaced = x])
  BY DEF Kept
<1>3. Kept([l EXCEPT !.next = x])
  BY DEF Kept
<1>4. Kept([l EXCEPT !.keys = x])
  BY DEF Kept
<1>5. Kept([l EXCEPT !.objects = x])
  BY DEF Kept
<1>6. Kept([l EXCEPT !.translators = x])
  BY DEF Kept
<1>7. x \notin Early => Kept([l EXCEPT !.at = x])
  BY DEF Kept
<1> QED BY <1>1, <1>2, <1>3, <1>4, <1>5, <1>6, <1>7

\* Behind the preflight this is true of the analysis as it stands,
LEMMA IsKept ==
  ASSUME LoweringShape, lowering.at \notin Early
  PROVE  Kept(lowering)
BY Zenon DEF LoweringShape, Kept

\* of a refusal,
LEMMA RefusedIsKept ==
  ASSUME LoweringShape, lowering.at \notin Early
  PROVE  Kept(RefuseSource(lowering))
BY IsKept, FieldsAreKept DEF RefuseSource, Early

\* of a replaced use,
LEMMA RewrittenIsKept ==
  ASSUME LoweringShape, lowering.at \notin Early, NEW r
  PROVE  Kept(Rewrite(lowering, r))
<1>1. ASSUME NEW x, NEW y
      PROVE  Kept([lowering EXCEPT !.replaced = x, !.next = y])
  <2>1. [lowering EXCEPT !.replaced = x, !.next = y]
          = [[lowering EXCEPT !.replaced = x] EXCEPT !.next = y]
    OBVIOUS
  <2> QED BY <2>1, IsKept, FieldsAreKept, Zenon
<1> QED BY <1>1 DEF Rewrite

\* and of what is registered for one.
LEMMA RegisteredIsKept ==
  ASSUME NEW l, Kept(l), NEW n, NEW p
  PROVE  Kept(Register(l, n, p))
BY FieldsAreKept, Zenon DEF Register

\* Every action after the preflight keeps what it says.
LEMMA LaterStepsKeep ==
  ASSUME LoweringShape, lowering.at \notin Early, LoweringNext, program # NoSource
  PROVE  Kept(lowering')
<1>1. Kept(lowering)
  BY IsKept
<1>2. CASE BindTranslationKeys
  <2>1. PICK b : lowering' = [lowering EXCEPT !.keys = b.keys,
                   !.at = IF b.at = "refused" THEN "refused" ELSE "names"]
    BY <1>2 DEF BindTranslationKeys, LoweringStep
  <2>2. [lowering EXCEPT !.keys = b.keys,
           !.at = IF b.at = "refused" THEN "refused" ELSE "names"]
          = [[lowering EXCEPT !.keys = b.keys] EXCEPT
               !.at = IF b.at = "refused" THEN "refused" ELSE "names"]
    OBVIOUS
  <2> QED BY <1>1, <2>1, <2>2, FieldsAreKept DEF Early
<1>3. CASE BindNames
  <2>1. PICK b, a : /\ a \notin Early
                    /\ lowering' = [lowering EXCEPT !.objects = b.objects,
                                      !.translators = b.translators, !.at = a]
    <3> DEFINE b == BindDeclarations(lowering, program.declarations)
               a == IF b = lowering THEN "hooks"
                    ELSE IF b.at = "refused" THEN "refused" ELSE "names"
    <3>1. lowering' = [lowering EXCEPT !.objects = b.objects,
                         !.translators = b.translators, !.at = a]
      BY <1>3, Zenon DEF BindNames, LoweringStep
    <3>2. a \notin Early
      BY DEF Early
    <3> QED BY <3>1, <3>2
  <2>2. [lowering EXCEPT !.objects = b.objects, !.translators = b.translators,
                         !.at = a]
          = [[[lowering EXCEPT !.objects = b.objects] EXCEPT
               !.translators = b.translators] EXCEPT !.at = a]
    OBVIOUS
  <2> QED BY <1>1, <2>1, <2>2, FieldsAreKept
<1>4. CASE RefuseWrapperHooks
  <2> QED BY <1>1, <1>4, RefusedIsKept, FieldsAreKept
          DEF RefuseWrapperHooks, LoweringStep, Early
<1>5. CASE VisitCall
  <2> DEFINE u == Visited
             n == TextTranslator(lowering, u.callee)
  <2>1. lowering' \in {RefuseSource(lowering), Rewrite(lowering, Left),
                       Mapped(u, n), Exact(u, n), Named(u, n)}
    BY <1>5, Zenon DEF VisitCall, LoweringStep
  <2>2. Kept(Mapped(u, n))
    BY RefusedIsKept, RewrittenIsKept, Zenon DEF Mapped
  <2>3. Kept(Exact(u, n))
    BY RefusedIsKept, RewrittenIsKept, Zenon DEF Exact
  <2>4. Kept(Named(u, n))
    BY RefusedIsKept, RewrittenIsKept, RegisteredIsKept, Zenon DEF Named
  <2> QED BY <2>1, <2>2, <2>3, <2>4, RefusedIsKept, RewrittenIsKept
<1>6. CASE VisitKeyCall
  BY <1>6, RefusedIsKept, RewrittenIsKept, Zenon DEF VisitKeyCall, LoweringStep
<1>7. CASE VisitParser
  BY <1>7, RefusedIsKept, RewrittenIsKept, RegisteredIsKept, Zenon
     DEF VisitParser, LoweringStep
<1>8. CASE VisitFormErrors
  BY <1>8, RefusedIsKept, RewrittenIsKept, RegisteredIsKept, Zenon
     DEF VisitFormErrors, LoweringStep
<1>9. CASE VisitFormSchema
  BY <1>9, RefusedIsKept, RewrittenIsKept, RegisteredIsKept, Zenon
     DEF VisitFormSchema, LoweringStep
<1>10. CASE VisitReference
  BY <1>10, RewrittenIsKept DEF VisitReference, LoweringStep
<1>11. CASE ValidateReferences
  BY <1>1, <1>11, RefusedIsKept, FieldsAreKept
     DEF ValidateReferences, LoweringStep, Early
<1>12. CASE Run
  BY <1>1, <1>12, Zenon DEF Run, Kept
<1>13. CASE BeginLowering \/ Preflight
  BY <1>13 DEF BeginLowering, Preflight, At, Early
<1> QED BY <1>2, <1>3, <1>4, <1>5, <1>6, <1>7, <1>8, <1>9, <1>10, <1>11, <1>12,
           <1>13 DEF LoweringNext

\* A use of no concern is no translator's, and no key's.
LEMMA Unused ==
  ASSUME NEW source, ~RequiresAnalysis(source), NEW u \in Range(source.uses)
  PROVE  /\ u.is \notin {"parse", "formError", "formSchema"}
         /\ u.is = "call" => ~IsTranslatorCallTarget(u.callee)
         /\ \A e \in PartsOf(u.callee) : e.is \notin {"factory", "keys"}
<1>1. \A e \in PartsOf(u.callee) : e \in Expressions(source)
  BY DEF Expressions
<1> QED BY <1>1 DEF RequiresAnalysis

\* The source stays the one that is lowered.
LEMMA ProgramStays ==
  ASSUME LoweringNext, program # NoSource
  PROVE  UNCHANGED program
<1>1. CASE BindTranslationKeys \/ BindNames \/ RefuseWrapperHooks
  BY <1>1, Zenon DEF LoweringStep, BindTranslationKeys, BindNames, RefuseWrapperHooks
<1>2. CASE VisitCall \/ VisitKeyCall \/ VisitParser
  BY <1>2, Zenon DEF LoweringStep, VisitCall, VisitKeyCall, VisitParser
<1>3. CASE VisitFormErrors \/ VisitFormSchema \/ VisitReference
  BY <1>3, Zenon DEF LoweringStep, VisitFormErrors, VisitFormSchema, VisitReference
<1>4. CASE ValidateReferences \/ Run \/ Preflight
  BY <1>4, Zenon DEF LoweringStep, ValidateReferences, Run, Preflight
<1>5. CASE BeginLowering
  BY <1>5 DEF BeginLowering
<1> QED BY <1>1, <1>2, <1>3, <1>4, <1>5 DEF LoweringNext

\* A step over a source of no concern finds nothing.
LEMMA LaterStepsFindNothing ==
  ASSUME LoweringShape, lowering.at \notin Early, LoweringNext, program # NoSource,
         Sourced(program), ~RequiresAnalysis(program), NothingFound
  PROVE  NothingFound'
<1>1. UNCHANGED program
  BY ProgramStays
<1>2. ASSUME lowering' = Rewrite(lowering, Left)
      PROVE  NothingFound'
  <2>1. /\ (lowering').objects = lowering.objects
        /\ (lowering').translators = lowering.translators
        /\ (lowering').keys = lowering.keys
        /\ (lowering').at = lowering.at
        /\ (lowering').next = lowering.next + 1
        /\ (lowering').replaced = Append(lowering.replaced, Left)
    BY <1>2 DEF Rewrite, LoweringShape
  <2>2. Append(lowering.replaced, Left) \in Seq({Left})
    BY DEF NothingFound
  <2> QED BY <1>1, <2>1, <2>2 DEF NothingFound
<1> DEFINE OnlyAt(a) ==
             /\ (lowering').objects = lowering.objects
             /\ (lowering').translators = lowering.translators
             /\ (lowering').keys = lowering.keys
             /\ (lowering').at = a
             /\ (lowering').next = lowering.next
             /\ (lowering').replaced = lowering.replaced
<1>3. ASSUME NEW a, OnlyAt(a), a \notin {"checked", "lowered"},
             a = "refused" => \E d \in Range(program.declarations) :
               d.pattern.is \in {"pick", "nested"}
                 /\ d.init = Wrapper("useAppTranslations")
      PROVE  NothingFound'
  BY <1>1, <1>3 DEF NothingFound
<1>4. ASSUME NEW a, lowering' = [lowering EXCEPT !.at = a]
      PROVE  OnlyAt(a)
  BY <1>4 DEF LoweringShape
<1>5. CASE BindTranslationKeys
  <2>1. BindAllKeys(lowering, program.declarations) = lowering
    BY NothingToBind DEF NothingFound
  <2>2. lowering.at = "keys"
    BY <1>5 DEF BindTranslationKeys, At
  <2>3. lowering' = [lowering EXCEPT !.keys = lowering.keys, !.at = "names"]
    BY <1>5, <2>1, <2>2 DEF BindTranslationKeys, LoweringStep
  <2>4. OnlyAt("names")
    BY <2>3 DEF LoweringShape
  <2> QED BY <1>3, <2>4
<1>6. CASE BindNames
  <2>1. BindDeclarations(lowering, program.declarations) = lowering
    BY NothingToBind DEF NothingFound
  <2>2. lowering' = [lowering EXCEPT !.objects = lowering.objects,
                       !.translators = lowering.translators, !.at = "hooks"]
    BY <1>6, <2>1, Zenon DEF BindNames, LoweringStep
  <2>3. OnlyAt("hooks")
    BY <2>2 DEF LoweringShape
  <2> QED BY <1>3, <2>3
<1>7. CASE RefuseWrapperHooks
  <2> DEFINE hooks == {d \in Range(program.declarations) :
                     /\ d.pattern.is \in {"pick", "nested"}
                     /\ d.init = Wrapper("useAppTranslations")}
  <2>1. CASE hooks # {}
    <3>1. lowering' = [lowering EXCEPT !.at = "refused"]
      BY <1>7, <2>1 DEF RefuseWrapperHooks, LoweringStep, RefuseSource
    <3> QED BY <1>3, <1>4, <2>1, <3>1
  <2>2. CASE hooks = {}
    <3>1. lowering' = [lowering EXCEPT !.at = "calls"]
      BY <1>7, <2>2 DEF RefuseWrapperHooks, LoweringStep
    <3> QED BY <1>3, <1>4, <3>1
  <2> QED BY <2>1, <2>2
<1>8. ASSUME lowering.next <= Len(program.uses)
      PROVE  Visited \in Range(program.uses)
  BY <1>8 DEF Visited, Range, Sourced, NothingFound
<1>9. CASE VisitCall
  <2> DEFINE u == Visited
  <2>1. u.is = "call" /\ u \in Range(program.uses)
    BY <1>8, <1>9 DEF VisitCall, Visiting, Visited
  <2>2. ~IsTranslatorCallTarget(u.callee)
    BY <2>1, Unused
  <2>3. TextTranslator(lowering, u.callee) = NoNamespace
    BY <2>2 DEF TextTranslator, IsTranslatorCallTarget, NothingFound
  <2>4. u.callee \notin {Instance, Parameter(TRUE)}
    BY <2>2 DEF IsTranslatorCallTarget, Instance, Parameter
  <2>5. lowering' = Rewrite(lowering, Left)
    BY <1>9, <2>3, <2>4, Zenon DEF VisitCall, LoweringStep
  <2> QED BY <1>2, <2>5
<1>10. CASE VisitKeyCall
  <2> DEFINE u == Visited
  <2>1. u \in Range(program.uses)
    BY <1>8, <1>10 DEF VisitKeyCall, Visiting
  <2>2. u.callee.is # "keys"
    BY <2>1, Unused DEF PartsOf
  <2>3. KeyNamespace(u.callee) = NoNamespace
    BY <2>2 DEF KeyNamespace
  <2>4. DOMAIN lowering.keys = {}
    BY DEF NothingFound
  <2>5. lowering' = Rewrite(lowering, Left)
    BY <1>10, <2>3, <2>4, Zenon DEF VisitKeyCall, LoweringStep
  <2> QED BY <1>2, <2>5
<1>11. CASE VisitParser \/ VisitFormErrors \/ VisitFormSchema
  <2>1. Visited \in Range(program.uses)
          /\ Visited.is \in {"parse", "formError", "formSchema"}
    BY <1>8, <1>11
       DEF VisitParser, VisitFormErrors, VisitFormSchema, Visiting, Visited
  <2> QED BY <2>1, Unused
<1>12. CASE VisitReference
  BY <1>2, <1>12 DEF VisitReference, LoweringStep
<1>13. CASE ValidateReferences
  <2>1. DOMAIN lowering.translators = {} /\ DOMAIN lowering.keys = {}
    BY DEF NothingFound
  <2>2. ~Escapes /\ Removed = {}
    BY <2>1 DEF Escapes, Removed
  <2>3. \A r \in Range(lowering.replaced) : r = Left
    BY DEF NothingFound, Range
  <2>4. lowering' = [lowering EXCEPT !.at = "untouched"]
    BY <1>13, <2>2, <2>3 DEF ValidateReferences, LoweringStep
  <2> QED BY <1>3, <1>4, <2>4
<1>14. CASE Run
  BY <1>1, <1>14 DEF Run, NothingFound
<1>15. CASE BeginLowering \/ Preflight
  BY <1>15 DEF BeginLowering, Preflight, At, Early
<1> QED BY <1>5, <1>6, <1>7, <1>9, <1>10, <1>11, <1>12, <1>13, <1>14, <1>15
        DEF LoweringNext

\* Neither a row nor the t of something: nothing to ask.
LEMMA PlainlyFollowed ==
  ASSUME NEW d, d.pattern.is # "row", d.init.is # "t"
  PROVE  Followed(d)
BY DEF Followed

\* The first declarations can be followed,
LEMMA FirstsAreFollowed ==
  ASSUME NEW d \in Firsts
  PROVE  Followed(d)
<1>1. \A i \in ObjectInits : i.is # "t"
  BY DEF ObjectInits, Client, Server, Factory, Choice, Wrapper, Through, Other
<1>2. ASSUME NEW pattern \in {Id("o"), Pick("t"), Pick("x")}, NEW init \in ObjectInits,
             d = Declare("const", pattern, init)
      PROVE  Followed(d)
  <2>1. d.pattern = pattern /\ d.init = init
    BY <1>2 DEF Declare
  <2>2. pattern.is # "row"
    BY DEF Id, Pick
  <2> QED BY <1>1, <2>1, <2>2, PlainlyFollowed
<1>3. CASE d \in KeyDeclarations
  BY <1>3, PlainlyFollowed
     DEF KeyDeclarations, Declare, Id, CreateKey, PickNested
<1>4. CASE d \in Variables
  BY <1>4, PlainlyFollowed
     DEF Variables, Declare, Id, Pick, Client, Factory, NoInit
<1>5. CASE d = Declare("const", PickNested, Client(<<"a">>))
  BY <1>5, PlainlyFollowed DEF Declare, PickNested, Client, Factory
<1>6. CASE d = Declare("const", Id("x"), Member(Client(<<"a">>)))
  <2>1. d.pattern.is = "id" /\ d.init.of.is = "factory"
    BY <1>6 DEF Declare, Id, Member, Client, Factory
  <2> QED BY <2>1 DEF Followed
<1>7. CASE d \in RowDeclarations
  <2>1. PICK p, q, i, j : /\ d = Declare("const", Row(<<p, q>>), All(<<i, j>>))
                          /\ i.is # "choice" /\ j.is # "choice"
    <3>1. /\ Server(<<"a">>).is # "choice" /\ Server(<<"b">>).is # "choice"
          /\ Other.is # "choice"
      BY DEF Server, Factory, Other
    <3> QED BY <1>7, <3>1, Zenon DEF RowDeclarations
  <2> DEFINE each == <<p, q>>
             inits == <<i, j>>
  <2>2. d.pattern.each = each /\ d.init.each = inits /\ d.init.is = "all"
    BY <2>1 DEF Declare, Row, All
  <2>3. Len(each) = 2 /\ DOMAIN inits = 1..2
    OBVIOUS
  <2>4. \A n \in 1..2 : inits[n].is # "choice"
    BY <2>1
  <2> HIDE DEF each, inits
  <2> QED BY <2>2, <2>3, <2>4 DEF Followed
<1> QED BY <1>2, <1>3, <1>4, <1>5, <1>6, <1>7 DEF Firsts

\* and so can those that come after.
LEMMA SecondsAreFollowed ==
  ASSUME NEW first, NEW d \in Seconds(first) \cup {Third}
  PROVE  Followed(d)
<1>1. d \in {Declare("const", Pick("t"), Name("o")),
             Declare("const", Id("x"), Member(Name("o"))),
             Declare("const", Pick("x"), Choice(Name("o"), Client(<<"a">>))),
             Declare("const", Id("x"), Name("t")),
             Declare("const", Pick("x"), Name("t")),
             Declare("const", Id("x"), Choice(Name("t"), Name("t"))),
             Declare("var", Pick("t"), Client(<<"b">>))}
  BY DEF Seconds, Third
<1>2. CASE d = Declare("const", Id("x"), Member(Name("o")))
  <2>1. d.pattern.is = "id" /\ d.init.of.is = "name"
    BY <1>2 DEF Declare, Id, Member, Name
  <2> QED BY <2>1 DEF Followed
<1>3. CASE d # Declare("const", Id("x"), Member(Name("o")))
  BY <1>1, <1>3, PlainlyFollowed
     DEF Declare, Id, Pick, Name, Choice, Client, Factory
<1> QED BY <1>2, <1>3

\* One or two more declarations follow the first.
LEMMA RestsAreSequences ==
  ASSUME NEW first, NEW rest \in Rests(first)
  PROVE  <<first>> \o rest \in Seq({first} \cup Seconds(first) \cup {Third})
<1> DEFINE all == {first} \cup Seconds(first) \cup {Third}
<1>1. <<first>> \in Seq(all)
  OBVIOUS
<1>2. rest \in Seq(all)
  <2>1. CASE rest = << >>
    BY <2>1
  <2>2. CASE rest \in {<<d>> : d \in Seconds(first)}
    <3>1. PICK d \in Seconds(first) : rest = <<d>>
      BY <2>2
    <3> QED BY <3>1
  <2>3. CASE rest \in {<<d, Third>> : d \in {e \in Seconds(first) :
                                               e.pattern = Pick("t")}}
    <3>1. PICK d \in Seconds(first) : rest = <<d, Third>>
      BY <2>3
    <3> QED BY <3>1
  <2> QED BY <2>1, <2>2, <2>3 DEF Rests
<1> QED BY <1>1, <1>2

\* A source has one use, or two.
LEMMA UsesAreSequences ==
  ASSUME NEW declarations, NEW uses \in UsesOf(declarations)
  PROVE  Len(uses) \in Nat /\ DOMAIN uses = 1..Len(uses)
<1> DEFINE registering == {Call("text", Name("t"), Finite(keys)) : keys \in KeySets}
                            \cup FormUses
<1>1. \/ \E u : uses = <<u>>
      \/ uses \in registering \X registering
  BY DEF UsesOf
<1>2. CASE \E u : uses = <<u>>
  BY <1>2
<1>3. CASE uses \in registering \X registering
  <2> HIDE DEF registering
  <2>1. PICK u, w : uses = <<u, w>>
    BY <1>3
  <2> QED BY <2>1
<1> QED BY <1>1, <1>2, <1>3

\* The sources that are lowered can be followed.
LEMMA BeginSources ==
  ASSUME BeginLowering
  PROVE  Sourced(program)' /\ program' # NoSource
<1>1. PICK first, rest, late, reader, backwards, uses :
        /\ first \in Firsts
        /\ rest \in Rests(first)
        /\ reader \in {"bundler", "check"}
        /\ uses \in UsesOf(<<first>> \o rest)
        /\ program' = [declarations |-> <<first>> \o rest, late |-> late,
                       backwards |-> backwards, uses |-> uses, reader |-> reader]
  BY Zenon DEF BeginLowering
<1> DEFINE declarations == <<first>> \o rest
           known == {first} \cup Seconds(first) \cup {Third}
<1>2. declarations \in Seq(known)
  BY <1>1, RestsAreSequences
<1>3. /\ (program').declarations = declarations /\ (program').uses = uses
      /\ (program').reader = reader
  BY <1>1
<1> HIDE DEF declarations
<1>4. /\ Len(declarations) \in Nat /\ DOMAIN declarations = 1..Len(declarations)
      /\ \A d \in Range(declarations) : d \in known
  BY <1>2 DEF Range
<1>5. Len(uses) \in Nat /\ DOMAIN uses = 1..Len(uses)
  BY <1>1, UsesAreSequences
<1>6. \A d \in Range(declarations) : Followed(d)
  BY <1>1, <1>4, FirstsAreFollowed, SecondsAreFollowed
<1>7. program' # NoSource
  BY <1>1, <1>3 DEF NoSource
<1> QED BY <1>3, <1>4, <1>6, <1>7, <1>5 DEF Sourced

\* The preflight writes down what it tells, and where the analysis goes on.
LEMMA Preflighted ==
  ASSUME LoweringShape, NothingFound, UNCHANGED program,
         NEW r, NEW a \in {"skipped", "keys"},
         lowering' = [lowering EXCEPT !.required = r, !.at = a]
  PROVE  /\ LoweringShape' /\ (lowering').at = a /\ (lowering').required = r
         /\ NothingFound'
<1>1. lowering' = [at |-> a, required |-> r, objects |-> lowering.objects,
                   translators |-> lowering.translators, keys |-> lowering.keys,
                   next |-> lowering.next, replaced |-> lowering.replaced,
                   registries |-> lowering.registries]
  BY DEF LoweringShape
<1>2. LoweringShape'
  BY <1>1 DEF LoweringShape
<1>3. /\ (lowering').at = a /\ (lowering').required = r
      /\ (lowering').objects = lowering.objects
      /\ (lowering').translators = lowering.translators
      /\ (lowering').keys = lowering.keys /\ (lowering').next = lowering.next
      /\ (lowering').replaced = lowering.replaced
  BY <1>1
<1>4. NothingFound'
  BY <1>3 DEF NothingFound
<1> QED BY <1>2, <1>3, <1>4

\* and is kept by every step.
LEMMA StepsKeep ==
  ASSUME LoweringInv, LoweringNext
  PROVE  LoweringInv'
<1>1. CASE program = NoSource
  <2>1. lowering = Start /\ BeginLowering
    <3>1. lowering = Start
      BY <1>1 DEF LoweringInv
    <3>2. lowering.at = "begun"
      BY <3>1 DEF Start
    <3> QED BY <3>1, <3>2
      DEF LoweringNext, At, Visiting, Preflight, BindTranslationKeys, BindNames,
          RefuseWrapperHooks, VisitCall, VisitKeyCall, VisitParser, VisitFormErrors,
          VisitFormSchema, VisitReference, ValidateReferences, Run
  <2>2. lowering' = [lowering EXCEPT !.at = "preflight"]
    BY <2>1 DEF BeginLowering
  <2>3. lowering' = [at |-> "preflight", required |-> FALSE, objects |-> << >>,
                     translators |-> << >>, keys |-> << >>, next |-> 1,
                     replaced |-> << >>, registries |-> << >>]
    BY <2>1, <2>2 DEF Start
  <2>4. LoweringShape' /\ NothingFound' /\ ~(lowering').required
         /\ (lowering').at = "preflight"
    BY <2>3 DEF LoweringShape, NothingFound
  <2> QED BY <2>1, <2>4, BeginSources DEF LoweringInv, Early
<1>2. CASE program # NoSource /\ lowering.at \in Early
  <2>1. Preflight
    <3>1. lowering.at \in {"begun", "preflight"}
      BY <1>2 DEF Early
    <3>2. ~BindTranslationKeys /\ ~BindNames /\ ~RefuseWrapperHooks
            /\ ~ValidateReferences /\ \A is : ~Visiting(is)
      BY <3>1 DEF At, Visiting, BindTranslationKeys, BindNames, RefuseWrapperHooks,
                  ValidateReferences
    <3>3. ~VisitCall /\ ~VisitKeyCall /\ ~VisitParser /\ ~VisitFormErrors
            /\ ~VisitFormSchema /\ ~VisitReference
      BY <3>2, Zenon DEF VisitCall, VisitKeyCall, VisitParser, VisitFormErrors,
                         VisitFormSchema, VisitReference
    <3>4. ~Run /\ ~BeginLowering
      BY <1>2, <3>1 DEF Run, BeginLowering
    <3> QED BY <3>2, <3>3, <3>4 DEF LoweringNext
  <2>2. PICK a \in {"skipped", "keys"} :
          lowering' = [lowering EXCEPT !.required = RequiresAnalysis(program), !.at = a]
    BY <2>1, Zenon DEF Preflight, LoweringStep
  <2>3. UNCHANGED program
    BY <1>2, ProgramStays
  <2>4. /\ LoweringShape' /\ (lowering').at = a
        /\ (lowering').required = RequiresAnalysis(program)
        /\ NothingFound'
    BY <1>2, <2>2, <2>3, Preflighted DEF LoweringInv, Early
  <2>5. RequiresAnalysis(program)' = RequiresAnalysis(program)
          /\ (Sourced(program) => Sourced(program)')
    BY <2>3 DEF RequiresAnalysis, Expressions, Sourced
  <2>6. a \notin Early
    BY DEF Early
  <2>7. (lowering').required <=> RequiresAnalysis(program)'
    BY <2>4, <2>5, Zenon
  <2> QED BY <1>2, <2>3, <2>4, <2>5, <2>6, <2>7 DEF LoweringInv
<1>3. CASE program # NoSource /\ lowering.at \notin Early
  <2>1. Kept(lowering') /\ program' = program
    BY <1>3, LaterStepsKeep, ProgramStays DEF LoweringInv
  <2>2. Sourced(program) /\ (lowering.required <=> RequiresAnalysis(program))
    BY <1>3 DEF LoweringInv
  <2>3. /\ LoweringShape' /\ ((lowering').required <=> lowering.required)
        /\ (lowering').at \notin Early
    BY <2>1, Zenon DEF Kept, LoweringShape
  <2>4. ~lowering.required => NothingFound'
    BY <1>3, <2>2, LaterStepsFindNothing DEF LoweringInv
  <2>5. RequiresAnalysis(program)' = RequiresAnalysis(program) /\ Sourced(program)'
    BY <2>1, <2>2 DEF RequiresAnalysis, Expressions, Sourced
  <2> QED BY <1>3, <2>1, <2>2, <2>3, <2>4, <2>5 DEF LoweringInv
<1> QED BY <1>1, <1>2, <1>3

\* It holds before there is a source,
LEMMA BegunInv == LoweringInit => LoweringInv
<1> SUFFICES ASSUME LoweringInit PROVE LoweringInv
  OBVIOUS
<1>1. program = NoSource /\ lowering = Start
  BY DEF LoweringInit
<1>2. LoweringShape /\ NothingFound /\ ~lowering.required /\ lowering.at = "begun"
  BY <1>1 DEF LoweringShape, NothingFound, Start
<1> QED BY <1>1, <1>2 DEF LoweringInv, Early

\* stays as long as nothing changes,
LEMMA StutteringKeeps == LoweringInv /\ UNCHANGED lowered => LoweringInv'
<1> SUFFICES ASSUME LoweringInv, UNCHANGED lowered PROVE LoweringInv'
  OBVIOUS
<1>1. program' = program /\ lowering' = lowering
  BY DEF lowered
<1> QED BY <1>1 DEF LoweringInv, LoweringShape, Sourced, NothingFound,
                    RequiresAnalysis, Expressions

\* What the analysis finds follows what the preflight said: nothing at all, if it
\* said that the source is of no concern (transformSource).
THEOREM LoweringInvariant == LoweringSpec => []LoweringInv
<1>1. LoweringInv /\ [LoweringNext]_lowered => LoweringInv'
  BY StepsKeep, StutteringKeeps
<1> QED BY <1>1, BegunInv, PTL DEF LoweringSpec

\* Whatever syntax shows to be of no concern is accepted as it stands by the
\* whole analysis, except for a wrapper hook whose t is never called
\* (requiresMiraiIntlAnalysis; "false negatives would be a safety failure").
THEOREM PreflightIsSafe == LoweringSpec => []PreflightMissesNothing
<1>1. LoweringInv => PreflightMissesNothing
  BY DEF LoweringInv, NothingFound, PreflightMissesNothing
<1> QED BY <1>1, LoweringInvariant, PTL

----------------------------------------------------------------------------
(* What is computed one by one                                             *)

\* What holds at the start and is handed on by each step holds everywhere.
LEMMA Climb ==
  ASSUME NEW k \in Nat, NEW S, 0 \in S, \A n \in 1..k : n - 1 \in S => n \in S
  PROVE  \A n \in 0..k : n \in S
<1> DEFINE wrong == (0..k) \ S
<1>1. SUFFICES ASSUME wrong # {} PROVE FALSE
  OBVIOUS
<1>2. wrong \subseteq Nat
  OBVIOUS
<1>3. PICK x \in wrong : \A y \in wrong : ~(<<y, x>> \in OpToRel(<, Nat))
  <2> HIDE DEF wrong
  <2> QED BY <1>1, <1>2, NatIsWellFounded, WFMin
<1>4. x \in 1..k
  OBVIOUS
<1>5. x - 1 \in 0..k /\ x - 1 \in Nat /\ x \in Nat /\ x - 1 < x
  BY <1>4
<1>6. x - 1 \in S
  BY <1>3, <1>5 DEF OpToRel
<1> QED BY <1>4, <1>6

\* The declarations are bound one after the other,
LEMMA DeclarationsOneByOne ==
  ASSUME NEW l, NEW ds, Len(ds) \in Nat
  PROVE  \E f : /\ f[0] = l
                /\ \A n \in 1..Len(ds) : f[n] = BindDeclaration(f[n - 1], ds[n])
                /\ BindDeclarations(l, ds) = f[Len(ds)]
<1> DEFINE k == Len(ds)
           Upto(f, j) == f = [n \in 0..j |->
                           IF n = 0 THEN l
                           ELSE BindDeclaration(f[n - 1], ds[n])]
           S == {j \in 0..k : \E f : Upto(f, j)}
           all == CHOOSE f : Upto(f, k)
<1>1. 0 \in S
  <2>1. Upto([n \in 0..0 |-> l], 0)
    OBVIOUS
  <2> HIDE DEF Upto
  <2> QED BY <2>1
<1>2. ASSUME NEW j \in 1..k, j - 1 \in S
      PROVE  j \in S
  <2>1. PICK f : Upto(f, j - 1)
    BY <1>2
  <2> DEFINE g == [n \in 0..j |-> IF n = j THEN BindDeclaration(f[j - 1], ds[j])
                                  ELSE f[n]]
  <2>2. \A n \in 0..(j - 1) :
           f[n] = IF n = 0 THEN l ELSE BindDeclaration(f[n - 1], ds[n])
    BY <2>1
  <2>3. /\ \A n \in 0..(j - 1) : g[n] = f[n]
        /\ g[j] = BindDeclaration(f[j - 1], ds[j])
    OBVIOUS
  <2>4. /\ \A n \in 0..j : n = j \/ n \in 0..(j - 1)
        /\ \A n \in 0..(j - 1) : n # 0 => n - 1 \in 0..(j - 1)
        /\ j - 1 \in 0..(j - 1) /\ j # 0
    OBVIOUS
  <2>5. \A n \in 0..j : g[n] = IF n = 0 THEN l
                               ELSE BindDeclaration(g[n - 1], ds[n])
    <3> HIDE DEF g
    <3> QED BY <2>2, <2>3, <2>4
  <2>6. Upto(g, j)
    BY <2>5
  <2> HIDE DEF g, Upto
  <2> QED BY <2>6
<1>3. k \in S
  <2> HIDE DEF S
  <2>1. \A j \in 0..k : j \in S
    BY <1>1, <1>2, Climb
  <2> QED BY <2>1
<1>4. Upto(all, k)
  <2> HIDE DEF Upto
  <2> QED BY <1>3
<1> HIDE DEF all
<1>5. BindDeclarations(l, ds) = all[k]
  BY DEF BindDeclarations, all
<1>6. \A n \in 0..k :
        all[n] = IF n = 0 THEN l ELSE BindDeclaration(all[n - 1], ds[n])
  BY <1>4
<1>7. /\ all[0] = l
      /\ \A n \in 1..k : all[n] = BindDeclaration(all[n - 1], ds[n])
  BY <1>6
<1> HIDE DEF Upto
<1> QED BY <1>5, <1>7

\* and so are the places of a row,
LEMMA PlacesOneByOne ==
  ASSUME NEW l, NEW pattern, NEW init, Len(pattern.each) \in Nat,
         init.is = "all"
  PROVE  \E f : /\ f[0] = l
                /\ \A n \in 1..Len(pattern.each) :
                     f[n] = BindPlace(l, f[n - 1], pattern.each[n], init.each[n])
                /\ BindRow(l, pattern, init) = f[Len(pattern.each)]
<1> DEFINE k == Len(pattern.each)
           Upto(f, j) == f = [n \in 0..j |->
                           IF n = 0 THEN l
                           ELSE BindPlace(l, f[n - 1], pattern.each[n], init.each[n])]
           S == {j \in 0..k : \E f : Upto(f, j)}
           all == CHOOSE f : Upto(f, k)
<1>1. 0 \in S
  <2>1. Upto([n \in 0..0 |-> l], 0)
    OBVIOUS
  <2> HIDE DEF Upto
  <2> QED BY <2>1
<1>2. ASSUME NEW j \in 1..k, j - 1 \in S
      PROVE  j \in S
  <2>1. PICK f : Upto(f, j - 1)
    BY <1>2
  <2> DEFINE g == [n \in 0..j |->
                    IF n = j
                    THEN BindPlace(l, f[j - 1], pattern.each[j], init.each[j])
                                  ELSE f[n]]
  <2>2. \A n \in 0..(j - 1) :
           f[n] = IF n = 0 THEN l
                  ELSE BindPlace(l, f[n - 1], pattern.each[n], init.each[n])
    BY <2>1
  <2>3. /\ \A n \in 0..(j - 1) : g[n] = f[n]
        /\ g[j] = BindPlace(l, f[j - 1], pattern.each[j], init.each[j])
    OBVIOUS
  <2>4. /\ \A n \in 0..j : n = j \/ n \in 0..(j - 1)
        /\ \A n \in 0..(j - 1) : n # 0 => n - 1 \in 0..(j - 1)
        /\ j - 1 \in 0..(j - 1) /\ j # 0
    OBVIOUS
  <2>5. \A n \in 0..j : g[n] = IF n = 0 THEN l
                               ELSE BindPlace(l, g[n - 1], pattern.each[n],
                                              init.each[n])
    <3> HIDE DEF g
    <3> QED BY <2>2, <2>3, <2>4
  <2>6. Upto(g, j)
    BY <2>5
  <2> HIDE DEF g, Upto
  <2> QED BY <2>6
<1>3. k \in S
  <2> HIDE DEF S
  <2>1. \A j \in 0..k : j \in S
    BY <1>1, <1>2, Climb
  <2> QED BY <2>1
<1>4. Upto(all, k)
  <2> HIDE DEF Upto
  <2> QED BY <1>3
<1> HIDE DEF all
<1>5. BindRow(l, pattern, init) = all[k]
  BY DEF BindRow, all
<1>6. \A n \in 0..k :
        all[n] = IF n = 0 THEN l
                 ELSE BindPlace(l, all[n - 1], pattern.each[n], init.each[n])
  BY <1>4
<1>7. /\ all[0] = l
      /\ \A n \in 1..k :
           all[n] = BindPlace(l, all[n - 1], pattern.each[n], init.each[n])
  BY <1>6
<1> HIDE DEF Upto
<1> QED BY <1>5, <1>7

\* and deferred keys.
LEMMA KeysOneByOne ==
  ASSUME NEW l, NEW ds, Len(ds) \in Nat
  PROVE  \E f : /\ f[0] = l
                /\ \A n \in 1..Len(ds) : f[n] = BindKeys(f[n - 1], ds[n])
                /\ BindAllKeys(l, ds) = f[Len(ds)]
<1> DEFINE k == Len(ds)
           Upto(f, j) == f = [n \in 0..j |->
                           IF n = 0 THEN l
                           ELSE BindKeys(f[n - 1], ds[n])]
           S == {j \in 0..k : \E f : Upto(f, j)}
           all == CHOOSE f : Upto(f, k)
<1>1. 0 \in S
  <2>1. Upto([n \in 0..0 |-> l], 0)
    OBVIOUS
  <2> HIDE DEF Upto
  <2> QED BY <2>1
<1>2. ASSUME NEW j \in 1..k, j - 1 \in S
      PROVE  j \in S
  <2>1. PICK f : Upto(f, j - 1)
    BY <1>2
  <2> DEFINE g == [n \in 0..j |-> IF n = j THEN BindKeys(f[j - 1], ds[j])
                                  ELSE f[n]]
  <2>2. \A n \in 0..(j - 1) :
           f[n] = IF n = 0 THEN l ELSE BindKeys(f[n - 1], ds[n])
    BY <2>1
  <2>3. /\ \A n \in 0..(j - 1) : g[n] = f[n]
        /\ g[j] = BindKeys(f[j - 1], ds[j])
    OBVIOUS
  <2>4. /\ \A n \in 0..j : n = j \/ n \in 0..(j - 1)
        /\ \A n \in 0..(j - 1) : n # 0 => n - 1 \in 0..(j - 1)
        /\ j - 1 \in 0..(j - 1) /\ j # 0
    OBVIOUS
  <2>5. \A n \in 0..j : g[n] = IF n = 0 THEN l
                               ELSE BindKeys(g[n - 1], ds[n])
    <3> HIDE DEF g
    <3> QED BY <2>2, <2>3, <2>4
  <2>6. Upto(g, j)
    BY <2>5
  <2> HIDE DEF g, Upto
  <2> QED BY <2>6
<1>3. k \in S
  <2> HIDE DEF S
  <2>1. \A j \in 0..k : j \in S
    BY <1>1, <1>2, Climb
  <2> QED BY <2>1
<1>4. Upto(all, k)
  <2> HIDE DEF Upto
  <2> QED BY <1>3
<1> HIDE DEF all
<1>5. BindAllKeys(l, ds) = all[k]
  BY DEF BindAllKeys, all
<1>6. \A n \in 0..k :
        all[n] = IF n = 0 THEN l ELSE BindKeys(all[n - 1], ds[n])
  BY <1>4
<1>7. /\ all[0] = l
      /\ \A n \in 1..k : all[n] = BindKeys(all[n - 1], ds[n])
  BY <1>6
<1> HIDE DEF Upto
<1> QED BY <1>5, <1>7

\* When the source runs, declarations take effect one after the other,
LEMMA EffectsOneByOne ==
  ASSUME NEW ds, NEW removed, Len(ds) \in Nat
  PROVE  \E f : /\ f[0] = {<< >>}
                /\ \A n \in 1..Len(ds) : f[n] = Declared(f[n - 1], ds[n], removed)
                /\ AllDeclared(ds, removed) = f[Len(ds)]
<1> DEFINE k == Len(ds)
           Upto(f, j) == f = [n \in 0..j |->
                           IF n = 0 THEN {<< >>}
                           ELSE Declared(f[n - 1], ds[n], removed)]
           S == {j \in 0..k : \E f : Upto(f, j)}
           all == CHOOSE f : Upto(f, k)
<1>1. 0 \in S
  <2>1. Upto([n \in 0..0 |-> {<< >>}], 0)
    OBVIOUS
  <2> HIDE DEF Upto
  <2> QED BY <2>1
<1>2. ASSUME NEW j \in 1..k, j - 1 \in S
      PROVE  j \in S
  <2>1. PICK f : Upto(f, j - 1)
    BY <1>2
  <2> DEFINE g == [n \in 0..j |-> IF n = j THEN Declared(f[j - 1], ds[j], removed)
                                  ELSE f[n]]
  <2>2. \A n \in 0..(j - 1) :
           f[n] = IF n = 0 THEN {<< >>} ELSE Declared(f[n - 1], ds[n], removed)
    BY <2>1
  <2>3. /\ \A n \in 0..(j - 1) : g[n] = f[n]
        /\ g[j] = Declared(f[j - 1], ds[j], removed)
    OBVIOUS
  <2>4. /\ \A n \in 0..j : n = j \/ n \in 0..(j - 1)
        /\ \A n \in 0..(j - 1) : n # 0 => n - 1 \in 0..(j - 1)
        /\ j - 1 \in 0..(j - 1) /\ j # 0
    OBVIOUS
  <2>5. \A n \in 0..j : g[n] = IF n = 0 THEN {<< >>}
                               ELSE Declared(g[n - 1], ds[n], removed)
    <3> HIDE DEF g
    <3> QED BY <2>2, <2>3, <2>4
  <2>6. Upto(g, j)
    BY <2>5
  <2> HIDE DEF g, Upto
  <2> QED BY <2>6
<1>3. k \in S
  <2> HIDE DEF S
  <2>1. \A j \in 0..k : j \in S
    BY <1>1, <1>2, Climb
  <2> QED BY <2>1
<1>4. Upto(all, k)
  <2> HIDE DEF Upto
  <2> QED BY <1>3
<1> HIDE DEF all
<1>5. AllDeclared(ds, removed) = all[k]
  BY DEF AllDeclared, all
<1>6. \A n \in 0..k :
        all[n] = IF n = 0 THEN {<< >>} ELSE Declared(all[n - 1], ds[n], removed)
  BY <1>4
<1>7. /\ all[0] = {<< >>}
      /\ \A n \in 1..k : all[n] = Declared(all[n - 1], ds[n], removed)
  BY <1>6
<1> HIDE DEF Upto
<1> QED BY <1>5, <1>7

\* and so do the places of a row.
LEMMA RowsOneByOne ==
  ASSUME NEW envs, NEW pattern, NEW init, Len(pattern.each) \in Nat,
         init.is = "all"
  PROVE  \E f : /\ f[0] = envs
                /\ \A n \in 1..Len(pattern.each) :
                     f[n] = Given(f[n - 1], pattern.each[n], init.each[n])
                /\ GivenRow(envs, pattern, init) = f[Len(pattern.each)]
<1> DEFINE k == Len(pattern.each)
           Upto(f, j) == f = [n \in 0..j |->
                           IF n = 0 THEN envs
                           ELSE Given(f[n - 1], pattern.each[n], init.each[n])]
           S == {j \in 0..k : \E f : Upto(f, j)}
           all == CHOOSE f : Upto(f, k)
<1>1. 0 \in S
  <2>1. Upto([n \in 0..0 |-> envs], 0)
    OBVIOUS
  <2> HIDE DEF Upto
  <2> QED BY <2>1
<1>2. ASSUME NEW j \in 1..k, j - 1 \in S
      PROVE  j \in S
  <2>1. PICK f : Upto(f, j - 1)
    BY <1>2
  <2> DEFINE g == [n \in 0..j |->
                    IF n = j
                    THEN Given(f[j - 1], pattern.each[j], init.each[j])
                                  ELSE f[n]]
  <2>2. \A n \in 0..(j - 1) :
           f[n] = IF n = 0 THEN envs ELSE Given(f[n - 1], pattern.each[n], init.each[n])
    BY <2>1
  <2>3. /\ \A n \in 0..(j - 1) : g[n] = f[n]
        /\ g[j] = Given(f[j - 1], pattern.each[j], init.each[j])
    OBVIOUS
  <2>4. /\ \A n \in 0..j : n = j \/ n \in 0..(j - 1)
        /\ \A n \in 0..(j - 1) : n # 0 => n - 1 \in 0..(j - 1)
        /\ j - 1 \in 0..(j - 1) /\ j # 0
    OBVIOUS
  <2>5. \A n \in 0..j : g[n] = IF n = 0 THEN envs
                               ELSE Given(g[n - 1], pattern.each[n], init.each[n])
    <3> HIDE DEF g
    <3> QED BY <2>2, <2>3, <2>4
  <2>6. Upto(g, j)
    BY <2>5
  <2> HIDE DEF g, Upto
  <2> QED BY <2>6
<1>3. k \in S
  <2> HIDE DEF S
  <2>1. \A j \in 0..k : j \in S
    BY <1>1, <1>2, Climb
  <2> QED BY <2>1
<1>4. Upto(all, k)
  <2> HIDE DEF Upto
  <2> QED BY <1>3
<1> HIDE DEF all
<1>5. GivenRow(envs, pattern, init) = all[k]
  BY DEF GivenRow, all
<1>6. \A n \in 0..k :
        all[n] = IF n = 0 THEN envs
                 ELSE Given(all[n - 1], pattern.each[n], init.each[n])
  BY <1>4
<1>7. /\ all[0] = envs
      /\ \A n \in 1..k : all[n] = Given(all[n - 1], pattern.each[n], init.each[n])
  BY <1>6
<1> HIDE DEF Upto
<1> QED BY <1>5, <1>7

----------------------------------------------------------------------------
(* Where the bindings come from                                            *)

\* A pattern and what stands for it, in a declaration.
Binds(d, p, e) ==
  IF d.pattern.is = "row"
  THEN \E n \in 1..Len(d.pattern.each) :
         p = d.pattern.each[n] /\ e = d.init.each[n]
  ELSE p = d.pattern /\ e = d.init

Binding(source, p, e) == \E d \in Range(source.declarations) : Binds(d, p, e)

Naming(p, n) == p.is \in {"id", "pick"} /\ p.name = n

\* No namespace is mistaken for none, or for a refusal.
Proper(namespace) == namespace \notin {NoNamespace, Refused}

\* The namespaces that the sources name.
Namespaces == {Root, <<"a">>, <<"b">>}

\* An expression whose namespaces are no words of the analysis.
Legible(e) ==
  /\ \A x \in PartsOf(e) :
       x.is = "factory" => x.namespace \in Namespaces \cup {Computed, Omitted}
  /\ e.is = "t" => e.of.is # "choice"

\* The fields of an analysis.
Analysis(l) ==
  l = [at |-> l.at, required |-> l.required, objects |-> l.objects,
       translators |-> l.translators, keys |-> l.keys, next |-> l.next,
       replaced |-> l.replaced, registries |-> l.registries]

IsFunction(f) == f = [x \in DOMAIN f |-> f[x]]

\* What was found stays: names keep what they stand for, and a refusal stands.
Grows(l, m) ==
  /\ \A n \in DOMAIN l.objects :
       n \in DOMAIN m.objects /\ m.objects[n] = l.objects[n]
  /\ \A n \in DOMAIN l.translators :
       n \in DOMAIN m.translators /\ m.translators[n] = l.translators[n]
  /\ m.at \in {l.at, "refused"}
  /\ m.keys = l.keys /\ m.required = l.required /\ m.next = l.next
  /\ m.replaced = l.replaced /\ m.registries = l.registries

\* Both tables are functions.
Tabled(l) == Analysis(l) /\ IsFunction(l.objects) /\ IsFunction(l.translators)

\* What grows twice has grown.
LEMMA GrowsOn ==
  ASSUME NEW l, NEW m, NEW k, Grows(l, m), Grows(m, k)
  PROVE  Grows(l, k)
BY DEF Grows

\* An analysis that grows back into itself never changed.
LEMMA GrowsBack ==
  ASSUME NEW l, NEW m, Tabled(l), Tabled(m), Grows(l, m), Grows(m, l),
         l.at # "refused"
  PROVE  m = l
<1>1. DOMAIN m.objects = DOMAIN l.objects /\ DOMAIN m.translators = DOMAIN l.translators
  BY DEF Grows
<1>2. m.objects = l.objects /\ m.translators = l.translators
  BY <1>1 DEF Grows, Tabled, IsFunction
<1>3. m.at = l.at
  BY DEF Grows
<1> QED BY <1>2, <1>3 DEF Grows, Tabled, Analysis

\* A namespace that was found for an expression stays.
LEMMA NamespacesStay ==
  ASSUME NEW source, NEW l, NEW m, Grows(l, m), NEW e
  PROVE  /\ Proper(ObjectNamespace(l, e))
              => ObjectNamespace(m, e) = ObjectNamespace(l, e)
         /\ Proper(TextTranslator(l, e)) => TextTranslator(m, e) = TextTranslator(l, e)
<1>1. \A x : NamedObject(l, x) # NoNamespace => NamedObject(m, x) = NamedObject(l, x)
  BY DEF Grows, NamedObject
<1>2. \A x : Proper(ObjectNamespace(l, x))
        => ObjectNamespace(m, x) = ObjectNamespace(l, x)
  BY <1>1, Differ DEF ObjectNamespace, Proper
<1>3. Proper(TextTranslator(l, e)) => TextTranslator(m, e) = TextTranslator(l, e)
  <2>1. CASE e.is = "name" /\ e.name \in DOMAIN l.translators
    BY <2>1 DEF TextTranslator, Grows
  <2>2. CASE ~(e.is = "name" /\ e.name \in DOMAIN l.translators) /\ e.is = "t"
    BY <2>2, <1>2 DEF TextTranslator
  <2>3. CASE ~(e.is = "name" /\ e.name \in DOMAIN l.translators) /\ e.is # "t"
    BY <2>3 DEF TextTranslator, Proper
  <2> QED BY <2>1, <2>2, <2>3
<1> QED BY <1>2, <1>3

\* Each name stands for the namespace of what it is declared with.
ObjectTraced(source, l, n) ==
  /\ Proper(l.objects[n]) /\ l.objects[n] \in Namespaces
  /\ \E p, e : /\ Binding(source, p, e) /\ p.is = "id" /\ p.name = n
               /\ ObjectNamespace(l, e) = l.objects[n]

TranslatorTraced(source, l, n) ==
  /\ Proper(l.translators[n]) /\ l.translators[n] \in Namespaces
  /\ \E p, e : /\ Binding(source, p, e) /\ p.name = n
               /\ \/ p.is = "pick" /\ ObjectNamespace(l, e) = l.translators[n]
                  \/ p.is = "id" /\ TextTranslator(l, e) = l.translators[n]

Traced(source, l) ==
  /\ Tabled(l)
  /\ \A n \in DOMAIN l.objects : ObjectTraced(source, l, n)
  /\ \A n \in DOMAIN l.translators : TranslatorTraced(source, l, n)

\* A name keeps where it is traced to.
LEMMA TracesStay ==
  ASSUME NEW source, NEW l, NEW m, Grows(l, m), NEW n
  PROVE  /\ n \in DOMAIN l.objects /\ ObjectTraced(source, l, n)
              => ObjectTraced(source, m, n)
         /\ n \in DOMAIN l.translators /\ TranslatorTraced(source, l, n) =>
              TranslatorTraced(source, m, n)
<1>1. ASSUME n \in DOMAIN l.objects, ObjectTraced(source, l, n)
      PROVE  ObjectTraced(source, m, n)
  <2>1. /\ m.objects[n] = l.objects[n] /\ Proper(l.objects[n])
        /\ l.objects[n] \in Namespaces
    BY <1>1 DEF Grows, ObjectTraced
  <2>2. PICK p, e : /\ Binding(source, p, e) /\ p.is = "id" /\ p.name = n
                    /\ ObjectNamespace(l, e) = l.objects[n]
    BY <1>1 DEF ObjectTraced
  <2>3. ObjectNamespace(m, e) = l.objects[n]
    BY <2>1, <2>2, NamespacesStay
  <2> QED BY <2>1, <2>2, <2>3 DEF ObjectTraced
<1>2. ASSUME n \in DOMAIN l.translators, TranslatorTraced(source, l, n)
      PROVE  TranslatorTraced(source, m, n)
  <2>1. /\ m.translators[n] = l.translators[n] /\ Proper(l.translators[n])
        /\ l.translators[n] \in Namespaces
    BY <1>2 DEF Grows, TranslatorTraced
  <2>2. PICK p, e : /\ Binding(source, p, e) /\ p.name = n
                    /\ \/ p.is = "pick" /\ ObjectNamespace(l, e) = l.translators[n]
                       \/ p.is = "id" /\ TextTranslator(l, e) = l.translators[n]
    BY <1>2 DEF TranslatorTraced
  <2>3. \/ p.is = "pick" /\ ObjectNamespace(m, e) = l.translators[n]
        \/ p.is = "id" /\ TextTranslator(m, e) = l.translators[n]
    BY <2>1, <2>2, NamespacesStay
  <2> QED BY <2>1, <2>2, <2>3 DEF TranslatorTraced
<1> QED BY <1>1, <1>2

\* An expression has a namespace that the sources name.
LEMMA NamespacesAreNamed ==
  ASSUME NEW source, NEW l, Traced(source, l), NEW e, Legible(e)
  PROVE  /\ Proper(ObjectNamespace(l, e)) => ObjectNamespace(l, e) \in Namespaces
         /\ Proper(TextTranslator(l, e)) => TextTranslator(l, e) \in Namespaces
<1>1. /\ e \in PartsOf(e)
      /\ e.is = "choice" => e.one \in PartsOf(e) /\ e.other \in PartsOf(e)
      /\ e.is \in {"t", "element"} => e.of \in PartsOf(e)
  BY DEF PartsOf
<1>2. ASSUME NEW x \in PartsOf(e), Proper(NamedObject(l, x))
      PROVE  NamedObject(l, x) \in Namespaces
  <2>1. CASE x.is = "factory"
    <3>1. NamedObject(l, x) = FactoryNamespace(x)
      BY <2>1 DEF NamedObject
    <3>2. x.namespace \in Namespaces \cup {Computed, Omitted}
      BY <2>1 DEF Legible
    <3>3. Root \in Namespaces
      BY DEF Namespaces
    <3> QED BY <1>2, <3>1, <3>2, <3>3 DEF FactoryNamespace, Proper
  <2>2. CASE x.is # "factory"
    BY <1>2, <2>2 DEF NamedObject, Proper, Traced, ObjectTraced
  <2> QED BY <2>1, <2>2
<1>3. Proper(ObjectNamespace(l, e)) => ObjectNamespace(l, e) \in Namespaces
  BY <1>1, <1>2 DEF ObjectNamespace, Proper
<1>4. e.is = "t" => ObjectNamespace(l, e.of) = NamedObject(l, e.of)
  BY DEF ObjectNamespace, Legible
<1>5. Proper(TextTranslator(l, e)) => TextTranslator(l, e) \in Namespaces
  BY <1>1, <1>2, <1>4 DEF TextTranslator, Proper, Traced, TranslatorTraced
<1> QED BY <1>3, <1>5

\* What a table holds when a name is bound.
LEMMA BoundTables ==
  ASSUME NEW f, IsFunction(f), NEW n, NEW namespace
  PROVE  LET g == Bound(f, n, namespace)
         IN  /\ IsFunction(g) /\ DOMAIN g = DOMAIN f \cup {n}
             /\ \A x \in DOMAIN f : g[x] = f[x]
             /\ n \notin DOMAIN f => g[n] = namespace
             /\ g = f => n \in DOMAIN f
BY DEF Bound, IsFunction

\* A refusal keeps what was found.
LEMMA RefusalGrows ==
  ASSUME NEW source, NEW l, Traced(source, l)
  PROVE  /\ Traced(source, RefuseSource(l)) /\ Grows(l, RefuseSource(l))
         /\ RefuseSource(l).at = "refused"
<1> DEFINE m == RefuseSource(l)
<1>0. Analysis(l)
  BY DEF Traced, Tabled
<1>1. /\ Analysis(m) /\ m.at = "refused" /\ m.objects = l.objects
      /\ m.translators = l.translators /\ m.keys = l.keys
      /\ m.required = l.required /\ m.next = l.next
      /\ m.replaced = l.replaced /\ m.registries = l.registries
  BY <1>0 DEF RefuseSource, Analysis
<1> HIDE DEF m
<1>2. Grows(l, m)
  BY <1>1 DEF Grows
<1>3. Tabled(m)
  BY <1>1 DEF Traced, Tabled
<1>4. Traced(source, m)
  BY <1>1, <1>2, <1>3, TracesStay DEF Traced
<1> QED BY <1>1, <1>2, <1>4 DEF m

\* A name that is bound to the namespace of an expression is traced to it,
LEMMA ObjectIsBound ==
  ASSUME NEW source, NEW l, Traced(source, l), NEW p, NEW e, Binding(source, p, e),
         p.is = "id",
         Legible(e), Proper(ObjectNamespace(l, e))
  PROVE  LET m == [l EXCEPT !.objects = Bound(@, p.name, ObjectNamespace(l, e))]
         IN  Traced(source, m) /\ Grows(l, m) /\ (m = l => p.name \in DOMAIN l.objects)
<1> DEFINE namespace == ObjectNamespace(l, e)
           table == Bound(l.objects, p.name, namespace)
           m == [l EXCEPT !.objects = table]
<1>0. Analysis(l)
  BY DEF Traced, Tabled
<1>1. /\ Analysis(m) /\ m.at = l.at /\ m.objects = table
      /\ m.translators = l.translators /\ m.keys = l.keys
      /\ m.required = l.required /\ m.next = l.next
      /\ m.replaced = l.replaced /\ m.registries = l.registries
  BY <1>0 DEF Analysis
<1>2. /\ IsFunction(table) /\ DOMAIN table = DOMAIN l.objects \cup {p.name}
      /\ \A x \in DOMAIN l.objects : table[x] = l.objects[x]
      /\ p.name \notin DOMAIN l.objects => table[p.name] = namespace
      /\ table = l.objects => p.name \in DOMAIN l.objects
  <2> HIDE DEF namespace
  <2>1. IsFunction(l.objects)
    BY DEF Traced, Tabled
  <2> QED BY <2>1, BoundTables
<1>3. m = [l EXCEPT !.objects = Bound(@, p.name, namespace)]
  BY DEF Traced, Tabled, Analysis
<1> HIDE DEF m, table, namespace
<1>4. Grows(l, m)
  BY <1>1, <1>2 DEF Grows
<1>5. Tabled(m)
  BY <1>1, <1>2 DEF Tabled, Traced
<1>6. ASSUME NEW n \in DOMAIN m.objects
      PROVE  ObjectTraced(source, m, n)
  <2>1. CASE n \in DOMAIN l.objects
    BY <2>1, <1>4, TracesStay DEF Traced
  <2>2. CASE n \notin DOMAIN l.objects
    <3>1. n = p.name /\ m.objects[n] = namespace
      BY <1>1, <1>2, <1>6, <2>2
    <3>2. ObjectNamespace(m, e) = namespace
      BY <1>4, NamespacesStay DEF namespace
    <3>3. namespace \in Namespaces
      BY NamespacesAreNamed DEF namespace
    <3> QED BY <3>1, <3>2, <3>3 DEF ObjectTraced, namespace
  <2> QED BY <2>1, <2>2
<1>7. \A n \in DOMAIN m.translators : TranslatorTraced(source, m, n)
  BY <1>1, <1>4, TracesStay DEF Traced
<1>8. m = l => p.name \in DOMAIN l.objects
  BY <1>1, <1>2
<1> QED BY <1>3, <1>4, <1>5, <1>6, <1>7, <1>8 DEF Traced, namespace

\* and so is one that is bound to that of its translator.
LEMMA TranslatorIsBound ==
  ASSUME NEW source, NEW l, Traced(source, l), NEW p, NEW e, Binding(source, p, e),
         NEW namespace,
         Proper(namespace), namespace \in Namespaces,
         \/ p.is = "pick" /\ ObjectNamespace(l, e) = namespace
         \/ p.is = "id" /\ TextTranslator(l, e) = namespace
  PROVE  LET m == [l EXCEPT !.translators = Bound(@, p.name, namespace)]
         IN  Traced(source, m) /\ Grows(l, m)
             /\ (m = l => p.name \in DOMAIN l.translators)
<1> DEFINE table == Bound(l.translators, p.name, namespace)
           m == [l EXCEPT !.translators = table]
<1>0. Analysis(l)
  BY DEF Traced, Tabled
<1>1. /\ Analysis(m) /\ m.at = l.at /\ m.objects = l.objects
      /\ m.translators = table /\ m.keys = l.keys
      /\ m.required = l.required /\ m.next = l.next
      /\ m.replaced = l.replaced /\ m.registries = l.registries
  BY <1>0 DEF Analysis
<1>2. /\ IsFunction(table) /\ DOMAIN table = DOMAIN l.translators \cup {p.name}
      /\ \A x \in DOMAIN l.translators : table[x] = l.translators[x]
      /\ p.name \notin DOMAIN l.translators => table[p.name] = namespace
      /\ table = l.translators => p.name \in DOMAIN l.translators
  <2>1. IsFunction(l.translators)
    BY DEF Traced, Tabled
  <2> QED BY <2>1, BoundTables
<1>3. m = [l EXCEPT !.translators = Bound(@, p.name, namespace)]
  BY DEF Traced, Tabled, Analysis
<1> HIDE DEF m, table
<1>4. Grows(l, m)
  BY <1>1, <1>2 DEF Grows
<1>5. Tabled(m)
  BY <1>1, <1>2 DEF Tabled, Traced
<1>6. \A n \in DOMAIN m.objects : ObjectTraced(source, m, n)
  BY <1>1, <1>4, TracesStay DEF Traced
<1>7. ASSUME NEW n \in DOMAIN m.translators
      PROVE  TranslatorTraced(source, m, n)
  <2>1. CASE n \in DOMAIN l.translators
    BY <2>1, <1>4, TracesStay DEF Traced
  <2>2. CASE n \notin DOMAIN l.translators
    <3>1. n = p.name /\ m.translators[n] = namespace
      BY <1>1, <1>2, <1>7, <2>2
    <3>2. \/ p.is = "pick" /\ ObjectNamespace(m, e) = namespace
          \/ p.is = "id" /\ TextTranslator(m, e) = namespace
      BY <1>4, NamespacesStay
    <3> QED BY <3>1, <3>2 DEF TranslatorTraced
  <2> QED BY <2>1, <2>2
<1>8. m = l => p.name \in DOMAIN l.translators
  BY <1>1, <1>2
<1> QED BY <1>3, <1>4, <1>5, <1>6, <1>7, <1>8 DEF Traced

\* What is bound to a name by a pattern has its place in a table.
Placed(l, p, e) ==
  LET object == ObjectNamespace(l, e)
      translator == TextTranslator(l, e)
  IN  /\ object # Refused
      /\ object # NoNamespace =>
           \/ p.is = "id" /\ p.name \in DOMAIN l.objects
           \/ p.is = "pick" /\ p.name \in DOMAIN l.translators
      /\ object = NoNamespace =>
           /\ translator # Refused
           /\ translator # NoNamespace =>
                p.is = "id" /\ p.name \in DOMAIN l.translators

AllPlaced(source, l) == \A p, e : Binding(source, p, e) => Placed(l, p, e)

\* The pattern of an object,
LEMMA ObjectBinds ==
  ASSUME NEW source, NEW l, Traced(source, l), NEW p, NEW e, Binding(source, p, e),
         Legible(e), Proper(ObjectNamespace(l, e)), NEW m,
         m = BindObject(l, p, ObjectNamespace(l, e))
  PROVE  /\ Traced(source, m) /\ Grows(l, m)
         /\ m = l /\ l.at # "refused" => Placed(l, p, e)
<1>1. CASE p.is = "id"
  <2>1. m = [l EXCEPT !.objects = Bound(@, p.name, ObjectNamespace(l, e))]
    BY <1>1 DEF BindObject
  <2>2. Traced(source, m) /\ Grows(l, m) /\ (m = l => p.name \in DOMAIN l.objects)
    BY <1>1, <2>1, ObjectIsBound
  <2> QED BY <1>1, <2>2 DEF Placed, Proper
<1>2. CASE p.is = "pick"
  <2>1. m = [l EXCEPT !.translators = Bound(@, p.name, ObjectNamespace(l, e))]
    BY <1>2 DEF BindObject, BindTranslator, Id
  <2>2. Traced(source, m) /\ Grows(l, m) /\ (m = l => p.name \in DOMAIN l.translators)
    BY <1>2, <2>1, NamespacesAreNamed, TranslatorIsBound
  <2> QED BY <1>2, <2>2 DEF Placed, Proper
<1>3. CASE p.is \notin {"id", "pick"}
  <2>1. m = RefuseSource(l)
    BY <1>3 DEF BindObject
  <2> QED BY <2>1, RefusalGrows
<1> QED BY <1>1, <1>2, <1>3

\* and that of a translator.
LEMMA TranslatorBinds ==
  ASSUME NEW source, NEW l, Traced(source, l), NEW p, NEW e, Binding(source, p, e),
         Legible(e), ObjectNamespace(l, e) = NoNamespace,
         Proper(TextTranslator(l, e)), NEW m,
         m = BindTranslator(l, p, TextTranslator(l, e))
  PROVE  /\ Traced(source, m) /\ Grows(l, m)
         /\ m = l /\ l.at # "refused" => Placed(l, p, e)
<1>1. CASE p.is = "id"
  <2>1. m = [l EXCEPT !.translators = Bound(@, p.name, TextTranslator(l, e))]
    BY <1>1 DEF BindTranslator
  <2>2. Traced(source, m) /\ Grows(l, m) /\ (m = l => p.name \in DOMAIN l.translators)
    BY <1>1, <2>1, NamespacesAreNamed, TranslatorIsBound
  <2> QED BY <1>1, <2>2, Differ DEF Placed, Proper
<1>2. CASE p.is # "id"
  <2>1. m = RefuseSource(l)
    BY <1>2 DEF BindTranslator
  <2> QED BY <2>1, RefusalGrows
<1> QED BY <1>1, <1>2

\* A declaration that the analysis can follow place by place, with names that it
\* tells apart.
Readable(d) ==
  /\ d.pattern.is \in {"id", "pick", "nested", "row"}
  /\ Legible(d.init)
  /\ d.pattern.is = "row" =>
       /\ Len(d.pattern.each) \in Nat
       /\ d.init.is = "all"
       /\ \A n \in 1..Len(d.pattern.each) :
            /\ d.pattern.each[n].is \in {"id", "pick", "nested"}
            /\ \A x : Naming(d.pattern.each[n], x) => x \in {"o", "t"}
            /\ n \in DOMAIN d.init.each
            /\ d.init.each[n].is \in {"factory", "other"}
            /\ \A m \in 1..Len(d.pattern.each) : \A x :
                 Naming(d.pattern.each[n], x) /\ Naming(d.pattern.each[m], x) =>
                   m = n

\* Steps that grow, and end where they began, have changed nothing.
LEMMA RoundTrip ==
  ASSUME NEW k \in Nat, NEW f, NEW l, f[0] = l, f[k] = l, l.at # "refused",
         \A n \in 0..k : Tabled(f[n]) /\ Grows(l, f[n]),
         \A n \in 1..k : Grows(f[n - 1], f[n])
  PROVE  \A n \in 0..k : f[n] = l
<1> DEFINE T == {n \in 0..k : Grows(f[k - n], l)}
<1>1. 0 \in T
  <2>1. k - 0 = k /\ 0 \in 0..k
    OBVIOUS
  <2>2. Grows(f[k], l)
    BY DEF Grows
  <2> QED BY <2>1, <2>2
<1>2. ASSUME NEW n \in 1..k, n - 1 \in T
      PROVE  n \in T
  <2>1. Grows(f[k - (n - 1)], l)
    BY <1>2
  <2>2. k - (n - 1) \in 1..k /\ (k - (n - 1)) - 1 = k - n
    OBVIOUS
  <2>3. Grows(f[k - n], f[k - (n - 1)])
    BY <2>2
  <2> QED BY <2>1, <2>3, GrowsOn
<1>3. \A n \in 0..k : n \in T
  <2> HIDE DEF T
  <2> QED BY <1>1, <1>2, Climb
<1>4. ASSUME NEW n \in 0..k
      PROVE  f[n] = l
  <2>1. k - n \in 0..k /\ k - (k - n) = n
    OBVIOUS
  <2>2. Grows(f[n], l)
    BY <1>3, <2>1
  <2>3. 0 \in 0..k
    OBVIOUS
  <2> QED BY <2>2, <2>3, GrowsBack
<1> QED BY <1>4

\* A place of a row binds what stands in it,
LEMMA PlaceBinds ==
  ASSUME NEW source, NEW l, NEW so_far, Traced(source, l), Traced(source, so_far),
         Grows(l, so_far),
         NEW p, NEW e, Binding(source, p, e), e.is \in {"factory", "other"},
         Legible(e), NEW m,
         m = BindPlace(l, so_far, p, e)
  PROVE  /\ Traced(source, m) /\ Grows(so_far, m)
         /\ m = so_far /\ so_far = l /\ l.at # "refused" => Placed(l, p, e)
<1>1. TextTranslator(l, e) = NoNamespace
  BY DEF TextTranslator
<1>2. CASE ObjectNamespace(l, e) = Refused
  <2>1. m = RefuseSource(so_far)
    BY <1>2, Differ DEF BindPlace
  <2> QED BY <2>1, RefusalGrows
<1>3. CASE ObjectNamespace(l, e) = NoNamespace
  <2>1. m = so_far
    BY <1>3, Differ DEF BindPlace
  <2> QED BY <1>1, <1>3, <2>1, Differ DEF Placed, Grows
<1>4. CASE Proper(ObjectNamespace(l, e))
  <2>1. ObjectNamespace(so_far, e) = ObjectNamespace(l, e)
    BY <1>4, NamespacesStay
  <2>2. m = BindObject(so_far, p, ObjectNamespace(so_far, e))
    BY <1>4, <2>1 DEF BindPlace, Proper
  <2> QED BY <1>4, <2>1, <2>2, ObjectBinds
<1> QED BY <1>2, <1>3, <1>4 DEF Proper

\* a row binds all of its places,
LEMMA RowBinds ==
  ASSUME NEW source, NEW l, Traced(source, l), NEW d \in Range(source.declarations),
         Readable(d),
         d.pattern.is = "row", NEW m, m = BindRow(l, d.pattern, d.init)
  PROVE  /\ Traced(source, m) /\ Grows(l, m)
         /\ m = l /\ l.at # "refused" =>
              \A p, e : Binds(d, p, e) => Placed(l, p, e)
<1> DEFINE k == Len(d.pattern.each)
<1>1. k \in Nat /\ d.init.is = "all"
  BY DEF Readable
<1>2. PICK f : /\ f[0] = l
               /\ \A n \in 1..k :
                    f[n] = BindPlace(l, f[n - 1], d.pattern.each[n], d.init.each[n])
               /\ m = f[k]
  BY <1>1, PlacesOneByOne
<1>3. ASSUME NEW n \in 1..k
      PROVE  /\ Binds(d, d.pattern.each[n], d.init.each[n])
             /\ Binding(source, d.pattern.each[n], d.init.each[n])
             /\ d.init.each[n].is \in {"factory", "other"}
             /\ Legible(d.init.each[n])
  <2> DEFINE e == d.init.each[n]
  <2>1. e.is \in {"factory", "other"} /\ n \in DOMAIN d.init.each
    BY DEF Readable
  <2>2. e \in PartsOf(d.init)
    BY <1>1, <2>1 DEF PartsOf, Range
  <2>3. PartsOf(e) = {e}
    BY <2>1 DEF PartsOf
  <2>4. Legible(e)
    BY <2>1, <2>2, <2>3 DEF Readable, Legible
  <2> QED BY <2>1, <2>4 DEF Binds, Binding
<1> DEFINE S == {n \in 0..k : Traced(source, f[n]) /\ Grows(l, f[n])}
<1>4. 0 \in S
  BY <1>1, <1>2 DEF Grows
<1>5. ASSUME NEW n \in 1..k, Traced(source, f[n - 1]), Grows(l, f[n - 1])
      PROVE  /\ Traced(source, f[n]) /\ Grows(f[n - 1], f[n])
             /\ f[n] = f[n - 1] /\ f[n - 1] = l /\ l.at # "refused" =>
                  Placed(l, d.pattern.each[n], d.init.each[n])
  BY <1>2, <1>3, <1>5, PlaceBinds
<1>6. \A n \in 0..k : n \in S
  <2>1. \A n \in 1..k : n - 1 \in S => n \in S
    BY <1>5, GrowsOn
  <2> HIDE DEF S
  <2> QED BY <1>1, <1>4, <2>1, Climb
<1>7. \A n \in 1..k : Grows(f[n - 1], f[n])
  <2>1. \A n \in 1..k : n - 1 \in 0..k
    OBVIOUS
  <2> QED BY <1>5, <1>6, <2>1
<1>8. Traced(source, m) /\ Grows(l, m)
  <2>1. k \in 0..k
    BY <1>1
  <2> QED BY <1>2, <1>6, <2>1
<1>9. ASSUME m = l, l.at # "refused"
      PROVE  \A n \in 0..k : f[n] = l
  <2>1. \A n \in 0..k : Tabled(f[n]) /\ Grows(l, f[n])
    BY <1>6 DEF Traced
  <2>2. f[0] = l /\ f[k] = l /\ k \in Nat
    BY <1>1, <1>2, <1>9
  <2> HIDE DEF k, S
  <2> QED BY <1>7, <1>9, <2>1, <2>2, RoundTrip
<1>10. ASSUME m = l, l.at # "refused", NEW p, NEW e, Binds(d, p, e)
       PROVE  Placed(l, p, e)
  <2>1. PICK n \in 1..k : p = d.pattern.each[n] /\ e = d.init.each[n]
    BY <1>10 DEF Binds
  <2>2. n - 1 \in 0..k /\ n \in 0..k
    OBVIOUS
  <2>3. f[n - 1] = l /\ f[n] = l
    BY <1>9, <1>10, <2>2
  <2> QED BY <1>5, <1>6, <1>10, <2>1, <2>2, <2>3
<1> QED BY <1>8, <1>10

\* and a declaration what it declares.
LEMMA DeclarationBinds ==
  ASSUME NEW source, NEW l, Traced(source, l), NEW d \in Range(source.declarations),
         Readable(d),
         NEW m, m = BindDeclaration(l, d)
  PROVE  /\ Traced(source, m) /\ Grows(l, m)
         /\ m = l /\ l.at # "refused" =>
              \A p, e : Binds(d, p, e) => Placed(l, p, e)
<1>1. CASE d.pattern.is = "row"
  BY <1>1, RowBinds DEF BindDeclaration
<1>2. CASE d.pattern.is # "row"
  <2> DEFINE object == ObjectNamespace(l, d.init)
             translator == TextTranslator(l, d.init)
  <2>1. SUFFICES /\ Traced(source, m) /\ Grows(l, m)
                 /\ m = l /\ l.at # "refused" => Placed(l, d.pattern, d.init)
    BY <1>2 DEF Binds
  <2>2. Binding(source, d.pattern, d.init) /\ Legible(d.init)
    BY <1>2 DEF Binding, Binds, Readable
  <2>3. CASE Refused \in {object, translator}
    <3>1. m = RefuseSource(l)
      BY <1>2, <2>3 DEF BindDeclaration
    <3> QED BY <3>1, RefusalGrows
  <2>4. CASE Refused \notin {object, translator} /\ object # NoNamespace
    <3>1. m = BindObject(l, d.pattern, object)
      BY <1>2, <2>4 DEF BindDeclaration
    <3> QED BY <2>2, <2>4, <3>1, ObjectBinds DEF Proper
  <2>5. CASE /\ Refused \notin {object, translator} /\ object = NoNamespace
             /\ translator # NoNamespace
    <3>1. m = BindTranslator(l, d.pattern, translator)
      BY <1>2, <2>5 DEF BindDeclaration
    <3> QED BY <2>2, <2>5, <3>1, TranslatorBinds DEF Proper
  <2>6. CASE /\ Refused \notin {object, translator} /\ object = NoNamespace
             /\ translator = NoNamespace
    <3>1. m = l
      BY <1>2, <2>6 DEF BindDeclaration
    <3> QED BY <2>6, <3>1 DEF Placed, Grows
  <2> QED BY <2>3, <2>4, <2>5, <2>6
<1> QED BY <1>1, <1>2

\* A pass over all declarations traces what it finds; once it finds no more, every
\* name has its place (the fixpoint of analyzeSource).
LEMMA PassBinds ==
  ASSUME NEW source, NEW l, Traced(source, l), NEW ds, ds = source.declarations,
         Len(ds) \in Nat,
         DOMAIN ds = 1..Len(ds), \A d \in Range(ds) : Readable(d),
         NEW m, m = BindDeclarations(l, ds)
  PROVE  /\ Traced(source, m) /\ Grows(l, m)
         /\ m = l /\ l.at # "refused" => AllPlaced(source, l)
<1> DEFINE k == Len(ds)
<1>1. PICK f : /\ f[0] = l
               /\ \A n \in 1..k : f[n] = BindDeclaration(f[n - 1], ds[n])
               /\ m = f[k]
  BY DeclarationsOneByOne
<1>2. ASSUME NEW n \in 1..k
      PROVE  ds[n] \in Range(source.declarations) /\ Readable(ds[n])
  BY Places
<1> DEFINE S == {n \in 0..k : Traced(source, f[n]) /\ Grows(l, f[n])}
<1>3. 0 \in S
  BY <1>1 DEF Grows
<1>4. ASSUME NEW n \in 1..k, Traced(source, f[n - 1])
      PROVE  /\ Traced(source, f[n]) /\ Grows(f[n - 1], f[n])
             /\ f[n] = f[n - 1] /\ f[n - 1].at # "refused" =>
                  \A p, e : Binds(ds[n], p, e) => Placed(f[n - 1], p, e)
  BY <1>1, <1>2, <1>4, DeclarationBinds
<1>5. \A n \in 0..k : n \in S
  <2>1. \A n \in 1..k : n - 1 \in S => n \in S
    BY <1>4, GrowsOn
  <2> HIDE DEF S
  <2> QED BY <1>3, <2>1, Climb
<1>6. \A n \in 1..k : Grows(f[n - 1], f[n])
  <2>1. \A n \in 1..k : n - 1 \in 0..k
    OBVIOUS
  <2> QED BY <1>4, <1>5, <2>1
<1>7. Traced(source, m) /\ Grows(l, m)
  <2>1. k \in 0..k
    OBVIOUS
  <2> QED BY <1>1, <1>5, <2>1
<1>8. ASSUME m = l, l.at # "refused"
      PROVE  \A n \in 0..k : f[n] = l
  <2>1. \A n \in 0..k : Tabled(f[n]) /\ Grows(l, f[n])
    BY <1>5 DEF Traced
  <2>2. f[0] = l /\ f[k] = l /\ k \in Nat
    BY <1>1, <1>8
  <2> HIDE DEF k, S
  <2> QED BY <1>6, <1>8, <2>1, <2>2, RoundTrip
<1>9. ASSUME m = l, l.at # "refused", NEW p, NEW e, Binding(source, p, e)
      PROVE  Placed(l, p, e)
  <2>1. PICK d \in Range(ds) : Binds(d, p, e)
    BY <1>9 DEF Binding
  <2>2. PICK n \in 1..k : d = ds[n]
    BY DEF Range
  <2>3. n - 1 \in 0..k /\ n \in 0..k
    OBVIOUS
  <2>4. f[n - 1] = l /\ f[n] = l
    BY <1>8, <1>9, <2>3
  <2> QED BY <1>4, <1>9, <2>1, <2>2, <2>4
<1> QED BY <1>7, <1>9 DEF AllPlaced

----------------------------------------------------------------------------
(* What the variables are when the source runs                             *)

\* A variable keeps its value: it is declared once, and not assigned.
Steady(source, n) ==
  /\ source.late.to # n
  /\ \A i, j \in DOMAIN source.declarations :
       /\ n \in NamesOf(source.declarations[i].pattern)
       /\ n \in NamesOf(source.declarations[j].pattern)
       => i = j

\* What a variable holds is what the analysis takes it for, if it has a place.
Agrees(l, env, n) ==
  n \in DOMAIN env =>
    /\ env[n].what = "object" =>
         /\ n \notin DOMAIN l.translators
         /\ n \in DOMAIN l.objects => l.objects[n] = env[n].namespace
    /\ env[n].what = "translator" =>
         /\ n \notin DOMAIN l.objects
         /\ n \in DOMAIN l.translators => l.translators[n] = env[n].namespace

\* It has a place.
HasPlace(l, env, n) ==
  n \in DOMAIN env =>
    /\ env[n].what = "object" => n \in DOMAIN l.objects
    /\ env[n].what = "translator" => n \in DOMAIN l.translators

\* Where the analysis does not look.
Unseen == {"through", "wrapper", "parameter", "element"}

\* The namespaces that a source may give are neither none nor a refusal.
LEMMA NamedIsProper ==
  /\ \A namespace \in Namespaces \cup {Computed, Omitted} : Proper(namespace)
  /\ Root \in Namespaces
<1>1. /\ Proper(Root) /\ Proper(<<"a">>) /\ Proper(<<"b">>) /\ Proper(Computed)
      /\ Proper(Omitted)
  BY DEF Proper, Root, NoNamespace, Refused, Computed, Omitted
<1> QED BY <1>1 DEF Namespaces

\* The value of an expression without another in it.
LEMMA SimpleValues ==
  ASSUME NEW l, NEW env, NEW e, e.is = "name" => Agrees(l, env, e.name),
         NEW w, w = SimpleValue(env, e)
  PROVE  /\ w.what = "object" =>
              /\ Proper(NamedObject(l, e)) => NamedObject(l, e) = w.namespace
              /\ ~Proper(TextTranslator(l, e)) \/ e.is = "t"
         /\ w.what = "translator" =>
              /\ ~Proper(NamedObject(l, e))
              /\ Proper(TextTranslator(l, e)) /\ e.is # "t" =>
                   TextTranslator(l, e) = w.namespace
<1>1. CASE e.is = "factory"
  <2>1. w = Value("object", IF e.namespace \in {Omitted, Computed} THEN Root
                            ELSE e.namespace)
    BY <1>1 DEF SimpleValue
  <2>2. w.what = "object" /\ w.namespace = IF e.namespace \in {Omitted, Computed}
                                           THEN Root ELSE e.namespace
    BY <2>1 DEF Value
  <2>3. NamedObject(l, e) = FactoryNamespace(e)
    BY <1>1 DEF NamedObject
  <2>4. Proper(FactoryNamespace(e)) => FactoryNamespace(e) = w.namespace
    BY <2>2 DEF FactoryNamespace, Proper
  <2>5. TextTranslator(l, e) = NoNamespace
    BY <1>1 DEF TextTranslator
  <2> QED BY <2>2, <2>3, <2>4, <2>5 DEF Proper
<1>2. CASE e.is = "name" /\ e.name \in DOMAIN env
  <2>1. w = env[e.name]
    BY <1>2 DEF SimpleValue
  <2>2. NamedObject(l, e) = IF e.name \in DOMAIN l.objects THEN l.objects[e.name]
                            ELSE NoNamespace
    BY <1>2 DEF NamedObject
  <2>3. TextTranslator(l, e) =
          IF e.name \in DOMAIN l.translators THEN l.translators[e.name]
          ELSE NoNamespace
    BY <1>2 DEF TextTranslator
  <2> QED BY <1>2, <2>1, <2>2, <2>3 DEF Agrees, Proper
<1>3. CASE ~(e.is = "name" /\ e.name \in DOMAIN env)
             /\ e.is \in {"through", "wrapper", "parameter"}
  <2>1. NamedObject(l, e) = NoNamespace /\ TextTranslator(l, e) = NoNamespace
    BY <1>3 DEF NamedObject, TextTranslator
  <2> QED BY <2>1 DEF Proper
<1>4. CASE /\ ~(e.is = "name" /\ e.name \in DOMAIN env)
           /\ e.is \notin {"factory", "through", "wrapper", "parameter"}
  <2>1. w.what \in {"keys", "nought"}
    BY <1>4 DEF SimpleValue, Value, Nought
  <2> QED BY <2>1
<1> QED BY <1>1, <1>2, <1>3, <1>4

\* What an expression may be is what the analysis takes it for,
LEMMA ValuesAgree ==
  ASSUME NEW l, NEW env, NEW e, e.is = "t" => e.of.is # "choice",
         \A x \in PartsOf(e) : x.is = "name" => Agrees(l, env, x.name),
         NEW v \in Evaluate(env, e)
  PROVE  /\ v.what = "object" =>
              /\ ~Proper(TextTranslator(l, e))
              /\ Proper(ObjectNamespace(l, e)) =>
                   ObjectNamespace(l, e) = v.namespace
         /\ v.what = "translator" =>
              /\ ~Proper(ObjectNamespace(l, e))
              /\ Proper(TextTranslator(l, e)) => TextTranslator(l, e) = v.namespace
<1>1. /\ e \in PartsOf(e)
      /\ e.is = "choice" => e.one \in PartsOf(e) /\ e.other \in PartsOf(e)
      /\ e.is \in {"t", "element"} => e.of \in PartsOf(e)
  BY DEF PartsOf
<1>2. CASE e.is \in {"t", "element"}
  <2> DEFINE w == SimpleValue(env, e.of)
  <2>1. v = TranslatorOf(w)
    BY <1>2 DEF Evaluate
  <2>2. /\ v.what # "object"
        /\ v.what = "translator" => w.what = "object" /\ v.namespace = w.namespace
    BY <2>1 DEF TranslatorOf, Value, Nought
  <2>3. ObjectNamespace(l, e) = NoNamespace
    BY <1>2 DEF ObjectNamespace, NamedObject
  <2>4. TextTranslator(l, e) = IF e.is = "t" THEN NamedObject(l, e.of)
                               ELSE NoNamespace
    BY <1>2 DEF TextTranslator, ObjectNamespace
  <2>5. w.what = "object" /\ Proper(NamedObject(l, e.of)) =>
          NamedObject(l, e.of) = w.namespace
    BY <1>1, <1>2, SimpleValues
  <2> QED BY <2>2, <2>3, <2>4, <2>5 DEF Proper
<1>3. CASE e.is = "choice"
  <2>1. v = SimpleValue(env, e.one) \/ v = SimpleValue(env, e.other)
    BY <1>3 DEF Evaluate
  <2>2. TextTranslator(l, e) = NoNamespace
    BY <1>3 DEF TextTranslator
  <2>3. ObjectNamespace(l, e) =
          IF NamedObject(l, e.one) = NamedObject(l, e.other)
          THEN NamedObject(l, e.one) ELSE Refused
    BY <1>3 DEF ObjectNamespace
  <2>4. /\ v.what = "object" /\ v = SimpleValue(env, e.one)
             /\ Proper(NamedObject(l, e.one)) => NamedObject(l, e.one) = v.namespace
        /\ v.what = "object" /\ v = SimpleValue(env, e.other)
             /\ Proper(NamedObject(l, e.other)) =>
             NamedObject(l, e.other) = v.namespace
        /\ v.what = "translator" /\ v = SimpleValue(env, e.one) =>
             ~Proper(NamedObject(l, e.one))
        /\ v.what = "translator" /\ v = SimpleValue(env, e.other) =>
             ~Proper(NamedObject(l, e.other))
    BY <1>1, <1>3, SimpleValues
  <2> QED BY <2>1, <2>2, <2>3, <2>4 DEF Proper
<1>4. CASE e.is \notin {"t", "element", "choice"}
  <2>1. v = SimpleValue(env, e)
    BY <1>4 DEF Evaluate
  <2>2. ObjectNamespace(l, e) = NamedObject(l, e)
    BY <1>4 DEF ObjectNamespace
  <2> QED BY <1>1, <1>4, <2>1, <2>2, SimpleValues
<1> QED BY <1>2, <1>3, <1>4

\* and it is taken for something, where the analysis looks.
LEMMA ValuesAreSeen ==
  ASSUME NEW source, NEW l, Traced(source, l), NEW env, NEW e, Legible(e),
         \A x \in PartsOf(e) : x.is \notin Unseen,
         \A x \in PartsOf(e) : x.is = "name" => HasPlace(l, env, x.name),
         e.is = "choice" => NamesIn(e) \cap DOMAIN l.translators = {},
         NEW v \in Evaluate(env, e)
  PROVE  /\ v.what = "object" => ObjectNamespace(l, e) # NoNamespace
         /\ v.what = "translator" => TextTranslator(l, e) # NoNamespace
<1>1. /\ e \in PartsOf(e)
      /\ e.is = "choice" => e.one \in PartsOf(e) /\ e.other \in PartsOf(e)
      /\ e.is \in {"t", "element"} => e.of \in PartsOf(e)
  BY DEF PartsOf
<1>2. ASSUME NEW x \in PartsOf(e)
      PROVE  LET w == SimpleValue(env, x)
             IN  /\ w.what = "object" => NamedObject(l, x) # NoNamespace
                 /\ w.what = "translator" =>
                      x.is = "name" /\ x.name \in DOMAIN l.translators
  <2> DEFINE w == SimpleValue(env, x)
  <2>1. CASE x.is = "factory"
    <3>1. w.what = "object"
      BY <2>1 DEF SimpleValue, Value
    <3>2. NamedObject(l, x) = FactoryNamespace(x) /\ Proper(x.namespace)
      BY <2>1, <1>2, NamedIsProper DEF NamedObject, Legible
    <3>3. FactoryNamespace(x) # NoNamespace
      BY <3>2, NamedIsProper, Differ DEF FactoryNamespace, Proper
    <3> QED BY <3>1, <3>2, <3>3
  <2>2. CASE x.is = "name" /\ x.name \in DOMAIN env
    <3>1. w = env[x.name] /\ HasPlace(l, env, x.name)
      BY <2>2, <1>2 DEF SimpleValue
    <3>2. x.name \in DOMAIN l.objects => NamedObject(l, x) # NoNamespace
      BY <2>2 DEF NamedObject, Traced, ObjectTraced, Proper
    <3> QED BY <2>2, <3>1, <3>2 DEF HasPlace
  <2>3. CASE ~(x.is = "name" /\ x.name \in DOMAIN env) /\ x.is # "factory"
    <3>1. x.is \notin {"through", "wrapper", "parameter"}
      BY <1>2 DEF Unseen
    <3>2. w.what \in {"keys", "nought"}
      BY <2>3, <3>1 DEF SimpleValue, Value, Nought
    <3> QED BY <3>2
  <2> QED BY <2>1, <2>2, <2>3
<1>3. CASE e.is = "t"
  <2>1. v = TranslatorOf(SimpleValue(env, e.of))
    BY <1>3 DEF Evaluate
  <2>2. v.what # "object" /\ (v.what = "translator" =>
                                SimpleValue(env, e.of).what = "object")
    BY <2>1 DEF TranslatorOf, Value, Nought
  <2>3. TextTranslator(l, e) = NamedObject(l, e.of)
    BY <1>3 DEF TextTranslator, ObjectNamespace, Legible
  <2> QED BY <1>1, <1>2, <1>3, <2>2, <2>3
<1>4. CASE e.is = "choice"
  <2>1. v = SimpleValue(env, e.one) \/ v = SimpleValue(env, e.other)
    BY <1>4 DEF Evaluate
  <2>2. v.what # "translator"
    <3>1. ASSUME NEW x \in {e.one, e.other}, v = SimpleValue(env, x),
                 v.what = "translator"
          PROVE  FALSE
      <4>1. x \in PartsOf(e) /\ x.is = "name" /\ x.name \in DOMAIN l.translators
        BY <1>1, <1>2, <1>4, <3>1
      <4>2. x.name \in NamesIn(e)
        BY <4>1 DEF NamesIn
      <4> QED BY <1>4, <4>1, <4>2
    <3> QED BY <2>1, <3>1
  <2>3. ObjectNamespace(l, e) =
          IF NamedObject(l, e.one) = NamedObject(l, e.other)
          THEN NamedObject(l, e.one) ELSE Refused
    BY <1>4 DEF ObjectNamespace
  <2>4. v.what = "object" => \/ NamedObject(l, e.one) # NoNamespace
                             \/ NamedObject(l, e.other) # NoNamespace
    BY <1>1, <1>2, <1>4, <2>1
  <2> QED BY <2>2, <2>3, <2>4, Differ
<1>5. CASE e.is \notin {"t", "choice"}
  <2>1. e.is # "element"
    BY <1>1 DEF Unseen
  <2>2. v = SimpleValue(env, e)
    BY <1>5, <2>1 DEF Evaluate
  <2>3. ObjectNamespace(l, e) = NamedObject(l, e)
    BY <1>5 DEF ObjectNamespace
  <2>4. e.is = "name" /\ e.name \in DOMAIN l.translators =>
          TextTranslator(l, e) # NoNamespace
    BY DEF TextTranslator, Traced, TranslatorTraced, Proper
  <2> QED BY <1>1, <1>2, <2>2, <2>3, <2>4
<1> QED BY <1>3, <1>4, <1>5

\* A name that a pattern gives is one that its declaration gives.
LEMMA NamedByDeclaration ==
  ASSUME NEW d, Readable(d), NEW p, NEW e, Binds(d, p, e), NEW n, Naming(p, n)
  PROVE  n \in NamesOf(d.pattern)
<1>1. CASE d.pattern.is = "row"
  BY <1>1 DEF Readable, Binds, NamesOf
<1>2. CASE d.pattern.is # "row"
  BY <1>2 DEF Binds, Naming, NamesOf
<1> QED BY <1>1, <1>2

\* What keeps its value is bound in one place.
LEMMA BoundOnce ==
  ASSUME NEW source, \A d \in Range(source.declarations) : Readable(d),
         NEW n, Steady(source, n), NEW p, NEW e, NEW q, NEW f, Binding(source, p, e),
         Binding(source, q, f),
         Naming(p, n), Naming(q, n)
  PROVE  p = q /\ e = f
<1> DEFINE ds == source.declarations
<1>1. PICK i \in DOMAIN ds : Binds(ds[i], p, e)
  BY DEF Binding, Range
<1>2. PICK j \in DOMAIN ds : Binds(ds[j], q, f)
  BY DEF Binding, Range
<1>3. Readable(ds[i]) /\ Readable(ds[j])
  BY DEF Range
<1>4. n \in NamesOf(ds[i].pattern) /\ n \in NamesOf(ds[j].pattern)
  BY <1>1, <1>2, <1>3, NamedByDeclaration
<1>5. i = j
  BY <1>4 DEF Steady
<1> DEFINE d == ds[i]
<1>6. Readable(d) /\ Binds(d, p, e) /\ Binds(d, q, f)
  BY <1>1, <1>2, <1>3, <1>5
<1> HIDE DEF d
<1>7. CASE d.pattern.is = "row"
  <2>1. PICK k \in 1..Len(d.pattern.each) :
          p = d.pattern.each[k] /\ e = d.init.each[k]
    BY <1>6, <1>7 DEF Binds
  <2>2. PICK m \in 1..Len(d.pattern.each) :
          q = d.pattern.each[m] /\ f = d.init.each[m]
    BY <1>6, <1>7 DEF Binds
  <2>3. k = m
    BY <1>6, <1>7, <2>1, <2>2 DEF Readable
  <2> QED BY <2>1, <2>2, <2>3
<1>8. CASE d.pattern.is # "row"
  BY <1>6, <1>8 DEF Binds
<1> QED BY <1>7, <1>8

\* The variable that a pattern binds then holds what the analysis takes it for,
LEMMA BoundAgrees ==
  ASSUME NEW source, \A d \in Range(source.declarations) : Readable(d),
         NEW l, Traced(source, l), NEW env, NEW p, NEW e, Binding(source, p, e),
         Legible(e),
         NEW n, Steady(source, n), Naming(p, n),
         \A x \in PartsOf(e) : x.is = "name" => Agrees(l, env, x.name),
         NEW v \in Evaluate(env, e)
  PROVE  Agrees(l, Destructure(env, p, v), n)
<1> DEFINE after == Destructure(env, p, v)
<1>1. n \in DOMAIN l.objects =>
        /\ p.is = "id" /\ ObjectNamespace(l, e) = l.objects[n]
        /\ Proper(ObjectNamespace(l, e))
  <2>1. SUFFICES ASSUME n \in DOMAIN l.objects
                 PROVE  /\ p.is = "id" /\ ObjectNamespace(l, e) = l.objects[n]
                        /\ Proper(ObjectNamespace(l, e))
    OBVIOUS
  <2>2. ObjectTraced(source, l, n)
    BY <2>1 DEF Traced
  <2>3. PICK q, f : /\ Binding(source, q, f) /\ q.is = "id" /\ q.name = n
                    /\ ObjectNamespace(l, f) = l.objects[n]
    BY <2>2 DEF ObjectTraced
  <2>4. q = p /\ f = e
    BY <2>3, BoundOnce DEF Naming
  <2> QED BY <2>2, <2>3, <2>4 DEF ObjectTraced
<1>2. n \in DOMAIN l.translators =>
        \/ /\ p.is = "pick" /\ ObjectNamespace(l, e) = l.translators[n]
           /\ Proper(ObjectNamespace(l, e))
        \/ /\ p.is = "id" /\ TextTranslator(l, e) = l.translators[n]
           /\ Proper(TextTranslator(l, e))
  <2>1. SUFFICES ASSUME n \in DOMAIN l.translators
                 PROVE  \/ /\ p.is = "pick" /\ ObjectNamespace(l, e) = l.translators[n]
                           /\ Proper(ObjectNamespace(l, e))
                        \/ /\ p.is = "id" /\ TextTranslator(l, e) = l.translators[n]
                           /\ Proper(TextTranslator(l, e))
    OBVIOUS
  <2>2. TranslatorTraced(source, l, n)
    BY <2>1 DEF Traced
  <2>3. PICK q, f : /\ Binding(source, q, f) /\ q.name = n
                    /\ \/ q.is = "pick" /\ ObjectNamespace(l, f) = l.translators[n]
                       \/ q.is = "id" /\ TextTranslator(l, f) = l.translators[n]
    BY <2>2 DEF TranslatorTraced
  <2>4. q = p /\ f = e
    BY <2>3, BoundOnce DEF Naming
  <2> QED BY <2>2, <2>3, <2>4 DEF TranslatorTraced
<1>3. /\ v.what = "object" =>
              /\ ~Proper(TextTranslator(l, e))
              /\ Proper(ObjectNamespace(l, e)) => ObjectNamespace(l, e) = v.namespace
      /\ v.what = "translator" =>
              /\ ~Proper(ObjectNamespace(l, e))
              /\ Proper(TextTranslator(l, e)) => TextTranslator(l, e) = v.namespace
  BY ValuesAgree DEF Legible
<1>4. CASE p.is = "id"
  <2>1. after[n] = v
    BY <1>4 DEF Destructure, Assign, Naming
  <2> QED BY <1>1, <1>2, <1>3, <1>4, <2>1 DEF Agrees
<1>5. CASE p.is = "pick"
  <2>1. after[n] = TranslatorOf(v)
    BY <1>5 DEF Destructure, Assign, Naming
  <2>2. /\ after[n].what # "object"
        /\ after[n].what = "translator" =>
             v.what = "object" /\ after[n].namespace = v.namespace
    BY <2>1 DEF TranslatorOf, Value, Nought
  <2> QED BY <1>1, <1>2, <1>3, <1>5, <2>2 DEF Agrees
<1> QED BY <1>4, <1>5 DEF Naming

\* and it has a place, if the analysis looks at what is bound.
LEMMA BoundHasPlace ==
  ASSUME NEW source, NEW l, Traced(source, l), NEW env, NEW p, NEW e,
         Placed(l, p, e), Legible(e),
         NEW n, Naming(p, n),
         \A x \in PartsOf(e) : x.is = "name" => Agrees(l, env, x.name),
         \A x \in PartsOf(e) : x.is = "name" => HasPlace(l, env, x.name),
         \A x \in PartsOf(e) : x.is \notin Unseen,
         e.is = "choice" => NamesIn(e) \cap DOMAIN l.translators = {},
         NEW v \in Evaluate(env, e)
  PROVE  HasPlace(l, Destructure(env, p, v), n)
<1> DEFINE after == Destructure(env, p, v)
<1>1. /\ v.what = "object" => ObjectNamespace(l, e) # NoNamespace
      /\ v.what = "translator" => TextTranslator(l, e) # NoNamespace
  BY ValuesAreSeen
<1>2. v.what = "translator" => ~Proper(ObjectNamespace(l, e))
  BY ValuesAgree DEF Legible
<1>3. CASE p.is = "id"
  <2>1. after[n] = v
    BY <1>3 DEF Destructure, Assign, Naming
  <2>2. v.what = "object" => n \in DOMAIN l.objects
    BY <1>1, <1>3 DEF Placed, Naming
  <2>3. v.what = "translator" => n \in DOMAIN l.translators
    BY <1>1, <1>2, <1>3 DEF Placed, Naming, Proper
  <2> QED BY <2>1, <2>2, <2>3 DEF HasPlace
<1>4. CASE p.is = "pick"
  <2>1. after[n] = TranslatorOf(v)
    BY <1>4 DEF Destructure, Assign, Naming
  <2>2. after[n].what # "object" /\ (after[n].what = "translator" => v.what = "object")
    BY <2>1 DEF TranslatorOf, Value, Nought
  <2>3. v.what = "object" => n \in DOMAIN l.translators
    BY <1>1, <1>4 DEF Placed, Naming
  <2> QED BY <2>2, <2>3 DEF HasPlace
<1> QED BY <1>3, <1>4 DEF Naming

\* All other variables hold what they did.
LEMMA OthersStay ==
  ASSUME NEW env, NEW p, NEW v, NEW n, ~Naming(p, n), NEW l
  PROVE  /\ Agrees(l, env, n) => Agrees(l, Destructure(env, p, v), n)
         /\ HasPlace(l, env, n) => HasPlace(l, Destructure(env, p, v), n)
<1> DEFINE after == Destructure(env, p, v)
<1>1. n \in DOMAIN after => n \in DOMAIN env /\ after[n] = env[n]
  BY DEF Destructure, Assign, Naming
<1> HIDE DEF after
<1>2. Agrees(l, env, n) => Agrees(l, after, n)
  BY <1>1, Zenon DEF Agrees
<1>3. HasPlace(l, env, n) => HasPlace(l, after, n)
  BY <1>1, Zenon DEF HasPlace
<1> QED BY <1>2, <1>3 DEF after

\* The variables among some expressions fit the analysis, in all environments; of
\* a plain value each has a place.
Fit(l, envs, expressions, plain) ==
  \A env \in envs : \A x \in expressions :
    x.is = "name" =>
      Agrees(l, env, x.name) /\ (plain => HasPlace(l, env, x.name))

\* Nothing among them is out of sight of the analysis.
Seen(expressions) == \A x \in expressions : x.is \notin Unseen

\* No translator stands in a condition.
Unchosen(source, l) ==
  \A e \in Expressions(source) :
    e.is = "choice" => NamesIn(e) \cap DOMAIN l.translators = {}

\* Fewer expressions fit as well.
LEMMA FewerFit ==
  ASSUME NEW l, NEW envs, NEW all, NEW some, some \subseteq all, NEW plain,
         Fit(l, envs, all, plain)
  PROVE  Fit(l, envs, some, plain)
BY DEF Fit

\* A pattern is given its value,
LEMMA GivenFits ==
  ASSUME NEW source, \A d \in Range(source.declarations) : Readable(d),
         NEW l, Traced(source, l), NEW p, NEW e, Binding(source, p, e),
         Placed(l, p, e), Legible(e),
         NEW plain, NEW inner, \A x \in inner : x.is = "name" => Steady(source, x.name),
         NEW envs, Fit(l, envs, inner, plain),
         (\E x \in inner : x.is = "name" /\ Naming(p, x.name)) =>
            /\ Fit(l, envs, PartsOf(e), plain)
            /\ plain => /\ Seen(PartsOf(e))
                        /\ e.is = "choice" => NamesIn(e) \cap DOMAIN l.translators = {}
  PROVE  Fit(l, Given(envs, p, e), inner, plain)
<1> SUFFICES ASSUME NEW after \in Given(envs, p, e), NEW x \in inner, x.is = "name"
             PROVE  /\ Agrees(l, after, x.name)
                    /\ plain => HasPlace(l, after, x.name)
  BY DEF Fit
<1>1. PICK env \in envs : \E v \in Evaluate(env, e) : after = Destructure(env, p, v)
  BY DEF Given
<1>2. PICK v \in Evaluate(env, e) : after = Destructure(env, p, v)
  BY <1>1
<1>3. CASE ~Naming(p, x.name)
  <2>1. Agrees(l, env, x.name) /\ (plain => HasPlace(l, env, x.name))
    BY <1>1 DEF Fit
  <2> QED BY <1>2, <1>3, <2>1, OthersStay
<1>4. CASE Naming(p, x.name)
  <2>1. /\ \A y \in PartsOf(e) : y.is = "name" => Agrees(l, env, y.name)
        /\ plain =>
             /\ \A y \in PartsOf(e) : y.is = "name" => HasPlace(l, env, y.name)
             /\ \A y \in PartsOf(e) : y.is \notin Unseen
             /\ e.is = "choice" => NamesIn(e) \cap DOMAIN l.translators = {}
    BY <1>1, <1>4 DEF Fit, Seen
  <2>2. Agrees(l, after, x.name)
    BY <1>2, <1>4, <2>1, BoundAgrees
  <2>3. ASSUME plain PROVE HasPlace(l, after, x.name)
    BY <1>2, <1>4, <2>1, <2>3, BoundHasPlace
  <2> QED BY <2>2, <2>3
<1> QED BY <1>3, <1>4

\* in each place of a row,
LEMMA RowFits ==
  ASSUME NEW source, \A d \in Range(source.declarations) : Readable(d),
         NEW l, Traced(source, l), AllPlaced(source, l),
         NEW d \in Range(source.declarations),
         d.pattern.is = "row", NEW plain,
         NEW inner, \A x \in inner : x.is = "name" => Steady(source, x.name),
         NEW envs, Fit(l, envs, inner, plain)
  PROVE  Fit(l, GivenRow(envs, d.pattern, d.init), inner, plain)
<1> DEFINE k == Len(d.pattern.each)
<1>1. k \in Nat /\ d.init.is = "all" /\ Readable(d)
  BY DEF Readable
<1>2. PICK f : /\ f[0] = envs
               /\ \A n \in 1..k :
                    f[n] = Given(f[n - 1], d.pattern.each[n], d.init.each[n])
               /\ GivenRow(envs, d.pattern, d.init) = f[k]
  BY <1>1, RowsOneByOne
<1> DEFINE S == {n \in 0..k : Fit(l, f[n], inner, plain)}
<1>3. 0 \in S
  BY <1>1, <1>2
<1>4. ASSUME NEW n \in 1..k, n - 1 \in S
      PROVE  n \in S
  <2> DEFINE p == d.pattern.each[n]
             e == d.init.each[n]
  <2>1. Binding(source, p, e)
    BY <1>1 DEF Binding, Binds
  <2>2. e.is \in {"factory", "other"} /\ e \in PartsOf(d.init)
    BY <1>1 DEF Readable, PartsOf, Range
  <2>3. PartsOf(e) = {e}
    BY <2>2 DEF PartsOf
  <2>4. Legible(e)
    BY <1>1, <2>2, <2>3 DEF Legible, Readable
  <2>5. Fit(l, f[n - 1], PartsOf(e), plain) /\ Seen(PartsOf(e)) /\ e.is # "choice"
    BY <2>2, <2>3 DEF Fit, Seen, Unseen
  <2>6. Fit(l, f[n - 1], inner, plain)
    BY <1>4
  <2>7. Placed(l, p, e)
    BY <2>1 DEF AllPlaced
  <2>8. Fit(l, Given(f[n - 1], p, e), inner, plain)
    <3> HIDE DEF p, e
    <3> QED BY <2>1, <2>4, <2>5, <2>6, <2>7, GivenFits
  <2> QED BY <1>2, <2>8
<1>5. k \in S
  <2> HIDE DEF S
  <2>1. \A n \in 0..k : n \in S
    BY <1>1, <1>3, <1>4, Climb
  <2> QED BY <1>1, <2>1
<1> QED BY <1>2, <1>5

\* and with each declaration that takes effect.
LEMMA DeclaredFits ==
  ASSUME NEW source, \A d \in Range(source.declarations) : Readable(d),
         NEW l, Traced(source, l), AllPlaced(source, l),
         NEW d \in Range(source.declarations),
         NEW inner, NEW outer, outer = inner \cup BehindNames(source, inner),
         \A x \in outer : x.is = "name" => Steady(source, x.name),
         NEW plain, plain => Seen(outer) /\ Unchosen(source, l),
         NEW envs, Fit(l, envs, outer, plain), NEW removed
  PROVE  Fit(l, Declared(envs, d, removed), inner, plain)
<1>1. Fit(l, envs, inner, plain)
  BY FewerFit
<1>2. CASE d.pattern.is = "row"
  BY <1>1, <1>2, RowFits DEF Declared
<1>3. CASE d.pattern.is # "row" /\ Declared(envs, d, removed) = envs
  BY <1>1, <1>3
<1>4. CASE d.pattern.is # "row" /\ Declared(envs, d, removed) # envs
  <2>1. Declared(envs, d, removed) = Given(envs, d.pattern, d.init)
    BY <1>4 DEF Declared
  <2>2. Binds(d, d.pattern, d.init) /\ Binding(source, d.pattern, d.init)
    BY <1>4 DEF Binding, Binds
  <2>3. Legible(d.init)
    BY DEF Legible, Readable
  <2>4. ASSUME NEW x \in inner, x.is = "name", Naming(d.pattern, x.name)
        PROVE  /\ Fit(l, envs, PartsOf(d.init), plain)
               /\ plain => /\ Seen(PartsOf(d.init))
                           /\ d.init.is = "choice" =>
                                NamesIn(d.init) \cap DOMAIN l.translators = {}
    <3>1. x.name \in NamesOf(d.pattern)
      BY <2>2, <2>4, NamedByDeclaration
    <3>2. d.init \in InitsOf(source, x.name)
      BY <3>1 DEF InitsOf
    <3>3. PartsOf(d.init) \subseteq outer
      BY <2>4, <3>2 DEF BehindNames
    <3>4. Fit(l, envs, PartsOf(d.init), plain)
      BY <3>3, FewerFit
    <3>5. plain => Seen(PartsOf(d.init))
      BY <3>3 DEF Seen
    <3>6. d.init \in Expressions(source)
      BY DEF Expressions, PartsOf
    <3> QED BY <3>4, <3>5, <3>6 DEF Unchosen
  <2>5. Placed(l, d.pattern, d.init)
    BY <2>2 DEF AllPlaced
  <2> QED BY <1>1, <2>1, <2>2, <2>3, <2>4, <2>5, GivenFits
<1> QED BY <1>2, <1>3, <1>4

\* The expressions a value comes from are found in waves.
Wave(source, e, b) ==
  /\ b[0] = PartsOf(e)
  /\ \A n \in 1..4 : b[n] = b[n - 1] \cup BehindNames(source, b[n - 1])
  /\ \A n \in 0..4 : PartsOf(e) \subseteq b[n] /\ b[n] \subseteq b[4]
  /\ OriginsOf(source, e) = b[4]

\* They are: each wave adds what is behind the names of the one before.
LEMMA Waves ==
  ASSUME NEW source, NEW e
  PROVE  \E b : Wave(source, e, b)
<1> DEFINE P(f) == f = [n \in 0..4 |-> IF n = 0 THEN PartsOf(e)
                          ELSE f[n - 1] \cup BehindNames(source, f[n - 1])]
           w0 == PartsOf(e)
           w1 == w0 \cup BehindNames(source, w0)
           w2 == w1 \cup BehindNames(source, w1)
           w3 == w2 \cup BehindNames(source, w2)
           w4 == w3 \cup BehindNames(source, w3)
           g == [n \in 0..4 |-> CASE n = 0 -> w0 [] n = 1 -> w1 [] n = 2 -> w2
                                  [] n = 3 -> w3 [] n = 4 -> w4]
           before == CHOOSE f : P(f)
<1>1. g[0] = w0 /\ g[1] = w1 /\ g[2] = w2 /\ g[3] = w3 /\ g[4] = w4
  OBVIOUS
<1>2. \A n \in 0..4 : g[n] = IF n = 0 THEN PartsOf(e)
                             ELSE g[n - 1] \cup BehindNames(source, g[n - 1])
  <2>1. /\ g[0] = PartsOf(e) /\ g[1] = g[0] \cup BehindNames(source, g[0])
        /\ g[2] = g[1] \cup BehindNames(source, g[1])
        /\ g[3] = g[2] \cup BehindNames(source, g[2])
        /\ g[4] = g[3] \cup BehindNames(source, g[3])
    BY <1>1
  <2> HIDE DEF g
  <2> SUFFICES ASSUME NEW n \in 0..4
               PROVE  g[n] = IF n = 0 THEN PartsOf(e)
                             ELSE g[n - 1] \cup BehindNames(source, g[n - 1])
    OBVIOUS
  <2>2. n = 0 \/ n = 1 \/ n = 2 \/ n = 3 \/ n = 4
    OBVIOUS
  <2>3. 1 - 1 = 0 /\ 2 - 1 = 1 /\ 3 - 1 = 2 /\ 4 - 1 = 3
    OBVIOUS
  <2>4. CASE n = 0
    BY <2>1, <2>4
  <2>5. CASE n # 0
    <3>1. g[n] = g[n - 1] \cup BehindNames(source, g[n - 1])
      BY <2>1, <2>2, <2>3, <2>5, Zenon
    <3> QED BY <2>5, <3>1, Zenon
  <2> QED BY <2>4, <2>5
<1>3. P(g)
  BY <1>2
<1>4. P(before)
  <2> HIDE DEF g, P
  <2> QED BY <1>3
<1>5. OriginsOf(source, e) = before[4]
  BY DEF OriginsOf
<1> HIDE DEF before
<1>6. /\ before[0] = PartsOf(e)
      /\ \A n \in 1..4 :
           before[n] = before[n - 1] \cup BehindNames(source, before[n - 1])
  BY <1>4
<1>7. \A n \in 0..4 : PartsOf(e) \subseteq before[n] /\ before[n] \subseteq before[4]
  <2>1. 1 - 1 = 0 /\ 2 - 1 = 1 /\ 3 - 1 = 2 /\ 4 - 1 = 3
          /\ 1 \in 1..4 /\ 2 \in 1..4 /\ 3 \in 1..4 /\ 4 \in 1..4
    OBVIOUS
  <2>2. \A n \in 1..4 : before[n - 1] \subseteq before[n]
    BY <1>6
  <2>3. /\ before[0] \subseteq before[1] /\ before[1] \subseteq before[2]
        /\ before[2] \subseteq before[3] /\ before[3] \subseteq before[4]
    BY <2>1, <2>2
  <2>4. \A n \in 0..4 : n = 0 \/ n = 1 \/ n = 2 \/ n = 3 \/ n = 4
    OBVIOUS
  <2> QED BY <1>6, <2>3, <2>4
<1>8. Wave(source, e, before)
  BY <1>5, <1>6, <1>7 DEF Wave
<1> QED BY <1>8

\* The parts of an expression are among them.
LEMMA PartsAreOrigins ==
  ASSUME NEW source, NEW e
  PROVE  PartsOf(e) \subseteq OriginsOf(source, e)
<1>1. 0 \in 0..4
  OBVIOUS
<1> QED BY <1>1, Waves DEF Wave

\* The declarations of a source, few enough for the waves.
ReadableDeclarations(source) ==
  /\ source.declarations \in Seq(Range(source.declarations))
  /\ Len(source.declarations) <= 3
  /\ \A d \in Range(source.declarations) : Readable(d)

\* The order of evaluation has the same declarations.
LEMMA OrderIsOfDeclarations ==
  ASSUME NEW source, ReadableDeclarations(source)
  PROVE  LET order == Ordered(source)
         IN  /\ Len(order) \in 0..3
             /\ \A n \in 1..Len(order) : order[n] \in Range(source.declarations)
<1> DEFINE ds == source.declarations
           R == Range(source.declarations)
<1>1. ds \in Seq(R) /\ Len(ds) \in 0..3
  <2>1. ds \in Seq(R) /\ Len(ds) <= 3
    BY DEF ReadableDeclarations
  <2> HIDE DEF R, ds
  <2>2. Len(ds) \in Nat
    BY <2>1
  <2>3. \A n \in Nat : n <= 3 => n \in 0..3
    OBVIOUS
  <2>4. Len(ds) \in 0..3
    BY <2>1, <2>2, <2>3, Zenon
  <2> QED BY <2>1, <2>4, Zenon
<1>2. \A n \in 1..Len(ds) : ds[n] \in R
  BY <1>1
<1>3. CASE source.backwards
  <2> DEFINE r == [i \in 1..Len(ds) |-> ds[(Len(ds) - i) + 1]]
  <2>1. Ordered(source) = r
    BY <1>3 DEF Ordered, Reverse
  <2>2. \A i \in 1..Len(ds) : (Len(ds) - i) + 1 \in 1..Len(ds)
    BY <1>1
  <2>3. r \in Seq(R) /\ Len(r) = Len(ds)
    <3> HIDE DEF R
    <3> QED BY <1>1, <1>2, <2>2
  <2> HIDE DEF r, R
  <2>4. \A n \in 1..Len(r) : r[n] \in R
    BY <2>3
  <2> QED BY <1>1, <2>1, <2>3, <2>4 DEF R
<1>4. CASE ~source.backwards
  BY <1>1, <1>2, <1>4 DEF Ordered
<1> QED BY <1>3, <1>4

\* When all declarations have taken effect, the variables that an expression uses
\* fit the analysis.
LEMMA AllDeclaredFit ==
  ASSUME NEW source, ReadableDeclarations(source), NEW l, Traced(source, l),
         AllPlaced(source, l), NEW e,
         \A x \in OriginsOf(source, e) : x.is = "name" => Steady(source, x.name),
         NEW plain, plain => Seen(OriginsOf(source, e)) /\ Unchosen(source, l),
         NEW removed
  PROVE  Fit(l, AllDeclared(Ordered(source), removed), PartsOf(e), plain)
<1> DEFINE order == Ordered(source)
           k == Len(order)
<1>1. k \in 0..3 /\ \A n \in 1..k : order[n] \in Range(source.declarations)
  BY OrderIsOfDeclarations
<1> HIDE DEF order
<1>2. PICK f : /\ f[0] = {<< >>}
               /\ \A n \in 1..k : f[n] = Declared(f[n - 1], order[n], removed)
               /\ AllDeclared(order, removed) = f[k]
  <2>1. Len(order) \in Nat
    BY <1>1
  <2> QED BY <2>1, EffectsOneByOne
<1>3. PICK b : Wave(source, e, b)
  BY Waves
<1> HIDE DEF k
<1> DEFINE S == {n \in 0..k : Fit(l, f[n], b[4 - n], plain)}
<1>5. 0 \in S
  <2>1. \A x : Agrees(l, << >>, x) /\ HasPlace(l, << >>, x)
    BY DEF Agrees, HasPlace
  <2>2. Fit(l, f[0], b[4 - 0], plain)
    BY <1>2, <2>1 DEF Fit
  <2> QED BY <1>1, <2>2
<1>6. ASSUME NEW n \in 1..k, n - 1 \in S
      PROVE  n \in S
  <2> DEFINE inner == b[4 - n]
             outer == b[4 - (n - 1)]
             d == order[n]
             envs == f[n - 1]
  <2>1. 4 - (n - 1) \in 1..4 /\ (4 - (n - 1)) - 1 = 4 - n /\ 4 - (n - 1) \in 0..4
    BY <1>1
  <2>2. outer = inner \cup BehindNames(source, inner) /\ outer \subseteq b[4]
    BY <1>3, <2>1 DEF Wave
  <2>3. Fit(l, envs, outer, plain)
    BY <1>6
  <2>4. \A x \in outer : x.is = "name" => Steady(source, x.name)
    BY <1>3, <2>2 DEF Wave
  <2>5. plain => Seen(outer) /\ Unchosen(source, l)
    BY <1>3, <2>2 DEF Seen, Wave
  <2>6. d \in Range(source.declarations)
    BY <1>1
  <2>7. f[n] = Declared(envs, d, removed)
    BY <1>2
  <2>8. \A c \in Range(source.declarations) : Readable(c)
    BY DEF ReadableDeclarations
  <2>9. Fit(l, f[n], inner, plain)
    <3> HIDE DEF inner, outer, d, envs
    <3> QED BY <2>2, <2>3, <2>4, <2>5, <2>6, <2>7, <2>8, DeclaredFits
  <2> QED BY <2>9
<1>7. k \in S
  <2> HIDE DEF S
  <2>1. \A n \in 0..k : n \in S
    BY <1>1, <1>5, <1>6, Climb
  <2> QED BY <1>1, <2>1
<1>8. Fit(l, f[k], b[4 - k], plain) /\ PartsOf(e) \subseteq b[4 - k]
  BY <1>1, <1>3, <1>7 DEF Wave
<1> QED BY <1>2, <1>3, <1>8, FewerFit DEF order, Wave

\* The late assignment changes none of them.
LEMMA EnvironmentsFit ==
  ASSUME NEW source, ReadableDeclarations(source), NEW l, Traced(source, l),
         AllPlaced(source, l), NEW e,
         \A x \in OriginsOf(source, e) : x.is = "name" => Steady(source, x.name),
         NEW plain, plain => Seen(OriginsOf(source, e)) /\ Unchosen(source, l),
         NEW removed
  PROVE  Fit(l, Environments(source, removed), PartsOf(e), plain)
<1> DEFINE declared == AllDeclared(Ordered(source), removed)
           late == Id(source.late.to)
<1>1. Fit(l, declared, PartsOf(e), plain)
  BY AllDeclaredFit
<1>2. PartsOf(e) \subseteq OriginsOf(source, e)
  BY PartsAreOrigins
<1>3. CASE Environments(source, removed) = declared
  BY <1>1, <1>3
<1>4. CASE Environments(source, removed) # declared
  <2>1. Environments(source, removed) = Given(declared, late, source.late.from)
    BY <1>4 DEF Environments
  <2>2. SUFFICES ASSUME NEW after \in Given(declared, late, source.late.from),
                        NEW x \in PartsOf(e), x.is = "name"
                 PROVE  /\ Agrees(l, after, x.name)
                        /\ plain => HasPlace(l, after, x.name)
    BY <2>1 DEF Fit
  <2>3. PICK env \in declared : \E v \in Evaluate(env, source.late.from) :
                                  after = Destructure(env, late, v)
    BY DEF Given
  <2>4. ~Naming(late, x.name)
    BY <1>2, <2>2 DEF Naming, Id, Steady
  <2>5. Agrees(l, env, x.name) /\ (plain => HasPlace(l, env, x.name))
    BY <1>1, <2>2, <2>3 DEF Fit
  <2> QED BY <2>3, <2>4, <2>5, OthersStay
<1> QED BY <1>3, <1>4

\* What does not change is bound once.
LEMMA UnchangedIsSteady ==
  ASSUME NEW source, ReadableDeclarations(source), NEW e, ~Changes(source, e),
         NEW x \in OriginsOf(source, e),
         x.is = "name"
  PROVE  Steady(source, x.name)
<1> DEFINE ds == source.declarations
           S == {n \in DOMAIN ds : x.name \in NamesOf(ds[n].pattern)}
<1>1. source.late.to # x.name /\ ~(Cardinality(S) > 1)
  BY DEF Changes
<1>2. ASSUME NEW i \in S, NEW j \in S, i # j
      PROVE  FALSE
  <2>1. DOMAIN ds = 1..Len(ds) /\ Len(ds) \in Nat
    BY DEF ReadableDeclarations
  <2>2. IsFiniteSet(1..Len(ds))
    BY <2>1, FS_Interval
  <2>3. IsFiniteSet(S)
    BY <2>1, <2>2, FS_Subset
  <2> HIDE DEF S
  <2>4. Cardinality({i, j}) = 2
    <3>1. IsFiniteSet({i}) /\ Cardinality({i}) = 1 /\ j \notin {i}
      BY <1>2, FS_Singleton
    <3>2. {i, j} = {i} \cup {j}
      OBVIOUS
    <3>3. Cardinality({i} \cup {j}) = Cardinality({i}) + 1
      BY <3>1, FS_AddElement
    <3> QED BY <3>1, <3>2, <3>3
  <2>5. Cardinality({i, j}) <= Cardinality(S)
    BY <1>2, <2>3, FS_Subset
  <2>6. Cardinality(S) \in Nat
    BY <2>3, FS_CardinalityType
  <2> QED BY <1>1, <2>4, <2>5, <2>6
<1> QED BY <1>1, <1>2 DEF Steady

\* The translator that is called when the source runs is that of the namespace
\* that the analysis found, and it found one where it looks.
LEMMA CalleesFit ==
  ASSUME NEW source, ReadableDeclarations(source), NEW l, Traced(source, l),
         AllPlaced(source, l), Unchosen(source, l),
         NEW e \in Expressions(source), Legible(e), ~Changes(source, e), NEW removed,
         NEW env \in Environments(source, removed), NEW v \in Evaluate(env, e),
         v.what = "translator"
  PROVE  /\ Proper(TextTranslator(l, e)) => TextTranslator(l, e) = v.namespace
         /\ ~Hidden(source, e) => TextTranslator(l, e) # NoNamespace
<1> DEFINE plain == ~Hidden(source, e)
<1>1. \A x \in OriginsOf(source, e) : x.is = "name" => Steady(source, x.name)
  BY UnchangedIsSteady
<1>2. plain => Seen(OriginsOf(source, e))
  BY DEF Hidden, Seen, Unseen
<1> HIDE DEF plain
<1>3. Fit(l, Environments(source, removed), PartsOf(e), plain)
  BY <1>1, <1>2, EnvironmentsFit
<1>4. \A x \in PartsOf(e) : x.is = "name" =>
        Agrees(l, env, x.name) /\ (plain => HasPlace(l, env, x.name))
  BY <1>3 DEF Fit
<1>5. Proper(TextTranslator(l, e)) => TextTranslator(l, e) = v.namespace
  BY <1>4, ValuesAgree DEF Legible
<1>6. PartsOf(e) \subseteq OriginsOf(source, e)
  BY PartsAreOrigins
<1>7. ASSUME plain PROVE TextTranslator(l, e) # NoNamespace
  <2>1. \A x \in PartsOf(e) : x.is \notin Unseen
    BY <1>2, <1>6, <1>7 DEF Seen
  <2>2. e.is = "choice" => NamesIn(e) \cap DOMAIN l.translators = {}
    BY DEF Unchosen
  <2>3. \A x \in PartsOf(e) : x.is = "name" => HasPlace(l, env, x.name)
    BY <1>4, <1>7
  <2> QED BY <2>1, <2>2, <2>3, ValuesAreSeen
<1> QED BY <1>5, <1>7 DEF plain

----------------------------------------------------------------------------
(* The sources that are lowered                                            *)

\* Parts of an expression that has one or two others in it.
LEMMA PartsInside ==
  ASSUME NEW e
  PROVE  /\ e.is \notin {"t", "element", "choice", "all"} => PartsOf(e) = {e}
         /\ e.is = "t" => PartsOf(e) = {e, e.of}
         /\ e.is = "choice" => PartsOf(e) = {e, e.one, e.other}
         /\ e.is = "all" => PartsOf(e) = {e} \cup Range(e.each)
BY DEF PartsOf

\* What is no factory and has no other in it is legible, and so is a factory that
\* names its namespace.
LEMMA PlainlyLegible ==
  ASSUME NEW e,
         \/ e.is \notin {"factory", "t", "element", "choice", "all"}
         \/ e.is = "factory" /\ e.namespace \in Namespaces \cup {Computed, Omitted}
  PROVE  Legible(e)
<1>1. PartsOf(e) = {e}
  BY PartsInside
<1> QED BY <1>1 DEF Legible

\* A choice or a t of such expressions is legible.
LEMMA ChoiceLegible ==
  ASSUME NEW one, NEW other,
         \A x \in {one, other} :
           x.is = "factory" => x.namespace \in Namespaces \cup {Computed, Omitted}
  PROVE  Legible(Choice(one, other))
<1>1. PartsOf(Choice(one, other)) = {Choice(one, other), one, other}
  BY PartsInside DEF Choice
<1>2. Choice(one, other).is = "choice"
  BY DEF Choice
<1> QED BY <1>1, <1>2 DEF Legible

\* So is the t of one.
LEMMA MemberLegible ==
  ASSUME NEW e, e.is # "choice",
         e.is = "factory" => e.namespace \in Namespaces \cup {Computed, Omitted}
  PROVE  Legible(Member(e))
<1>1. PartsOf(Member(e)) = {Member(e), e}
  BY PartsInside DEF Member
<1>2. Member(e).is = "t" /\ Member(e).of = e
  BY DEF Member
<1> QED BY <1>1, <1>2 DEF Legible

\* The factories of the sources.
LEMMA FactoriesAreLegible ==
  /\ \A e \in {Client(<<"a">>), Client(<<"b">>), Client(Root), Client(Computed),
               Server(Omitted), Server(<<"a">>), Server(<<"b">>)} :
       e.is = "factory" /\ e.namespace \in Namespaces \cup {Computed, Omitted}
  /\ Other.is = "other"
BY DEF Client, Server, Factory, Namespaces, Other

\* A declaration that is no row is read by its expression.
LEMMA PlainlyReadable ==
  ASSUME NEW d, d.pattern.is \in {"id", "pick", "nested"}, Legible(d.init)
  PROVE  Readable(d)
BY DEF Readable

\* What objects are initialised with is legible.
LEMMA ObjectInitsAreLegible ==
  ASSUME NEW e \in ObjectInits
  PROVE  Legible(e)
<1>1. CASE e \in {Client(<<"a">>), Client(Root), Client(Computed), Server(Omitted)}
  BY <1>1, FactoriesAreLegible, PlainlyLegible
<1>2. CASE e \in {Choice(Client(<<"a">>), Server(<<"a">>)),
                  Choice(Client(<<"a">>), Client(<<"b">>)),
                  Choice(Client(<<"a">>), Other)}
  BY <1>2, FactoriesAreLegible, ChoiceLegible
<1>3. CASE e \in {Wrapper("useAppTranslations"), Wrapper("useApp"),
                  Through(<<"a">>), Other}
  <2>1. e.is \in {"wrapper", "through", "other"}
    BY <1>3 DEF Wrapper, Through, Other
  <2> QED BY <2>1, PlainlyLegible
<1> QED BY <1>1, <1>2, <1>3 DEF ObjectInits

\* The first declarations can be read,
LEMMA FirstsAreReadable ==
  ASSUME NEW d \in Firsts
  PROVE  Readable(d)
<1>1. ASSUME NEW pattern \in {Id("o"), Pick("t"), Pick("x")}, NEW init \in ObjectInits,
             d = Declare("const", pattern, init)
      PROVE  Readable(d)
  <2>1. d.pattern = pattern /\ d.init = init
    BY <1>1 DEF Declare
  <2>2. pattern.is \in {"id", "pick"}
    BY DEF Id, Pick
  <2> QED BY <2>1, <2>2, ObjectInitsAreLegible, PlainlyReadable
<1>2. CASE d \in KeyDeclarations
  <2>1. d.pattern.is \in {"id", "nested"} /\ d.init.is = "keys"
    BY <1>2 DEF KeyDeclarations, Declare, Id, CreateKey, PickNested
  <2> QED BY <2>1, PlainlyLegible, PlainlyReadable
<1>3. CASE d \in Variables
  <2>1. d.pattern.is \in {"id", "pick"} /\ d.init \in {Client(<<"a">>), NoInit}
    BY <1>3 DEF Variables, Declare, Id, Pick
  <2>2. NoInit.is = "nothing"
    BY DEF NoInit
  <2> QED BY <2>1, <2>2, FactoriesAreLegible, PlainlyLegible, PlainlyReadable
<1>4. CASE d = Declare("const", PickNested, Client(<<"a">>))
  <2>1. d.pattern.is = "nested" /\ d.init = Client(<<"a">>)
    BY <1>4 DEF Declare, PickNested
  <2> QED BY <2>1, FactoriesAreLegible, PlainlyLegible, PlainlyReadable
<1>5. CASE d = Declare("const", Id("x"), Member(Client(<<"a">>)))
  <2>1. d.pattern.is = "id" /\ d.init = Member(Client(<<"a">>))
    BY <1>5 DEF Declare, Id
  <2> QED BY <2>1, FactoriesAreLegible, MemberLegible, PlainlyReadable
<1>6. CASE d \in RowDeclarations
  <2>1. PICK q \in {Pick("t"), PickNested}, i \in {Server(<<"b">>), Other} :
          d = Declare("const", Row(<<Id("o"), q>>), All(<<i, Server(<<"a">>)>>))
    BY <1>6, Zenon DEF RowDeclarations
  <2> DEFINE each == <<Id("o"), q>>
             inits == <<i, Server(<<"a">>)>>
  <2>2. /\ d.pattern.is = "row" /\ d.pattern.each = each
        /\ d.init.is = "all" /\ d.init.each = inits
    BY <2>1 DEF Declare, Row, All
  <2>3. /\ Len(each) = 2 /\ DOMAIN inits = 1..2
        /\ each[1] = Id("o") /\ each[2] = q
        /\ inits[1] = i /\ inits[2] = Server(<<"a">>)
    OBVIOUS
  <2> HIDE DEF each, inits
  <2>4. /\ each[1].is = "id" /\ each[1].name = "o"
        /\ each[2].is \in {"pick", "nested"}
        /\ each[2].is = "pick" => each[2].name = "t"
    BY <2>3 DEF Id, Pick, PickNested
  <2>5. \A n \in 1..2 : n = 1 \/ n = 2
    OBVIOUS
  <2>6. \A n \in 1..2 :
          /\ inits[n].is \in {"factory", "other"}
          /\ inits[n].is = "factory" =>
               inits[n].namespace \in Namespaces \cup {Computed, Omitted}
    BY <2>3, <2>5, FactoriesAreLegible
  <2>7. Range(inits) = {inits[n] : n \in 1..2}
    BY <2>3 DEF Range
  <2>8. Legible(d.init)
    <3>1. PartsOf(d.init) = {d.init} \cup Range(inits)
      BY <2>2, PartsInside
    <3> QED BY <2>2, <2>6, <2>7, <3>1 DEF Legible
  <2>9. \A n \in 1..2 : \A x : Naming(each[n], x) =>
          IF n = 1 THEN x = "o" ELSE x = "t"
    BY <2>4, <2>5 DEF Naming
  <2> QED BY <2>2, <2>3, <2>4, <2>5, <2>6, <2>8, <2>9 DEF Readable
<1> QED BY <1>1, <1>2, <1>3, <1>4, <1>5, <1>6 DEF Firsts

\* and so can those that come after.
LEMMA SecondsAreReadable ==
  ASSUME NEW first, NEW d \in Seconds(first) \cup {Third}
  PROVE  Readable(d)
<1>1. \E p, e : /\ d.pattern = p /\ d.init = e
                /\ p.is \in {"id", "pick"}
                /\ e \in {Name("o"), Member(Name("o")),
                          Choice(Name("o"), Client(<<"a">>)),
                          Name("t"), Choice(Name("t"), Name("t")), Client(<<"b">>)}
  BY DEF Seconds, Third, Declare, Id, Pick
<1>2. \A n : Name(n).is = "name"
  BY DEF Name
<1>3. Legible(d.init)
  <2>1. CASE d.init \in {Name("o"), Name("t")}
    BY <1>2, <2>1, PlainlyLegible
  <2>2. CASE d.init = Client(<<"b">>)
    BY <2>2, FactoriesAreLegible, PlainlyLegible
  <2>3. CASE d.init \in {Member(Name("o")), Choice(Name("o"), Client(<<"a">>)),
                         Choice(Name("t"), Name("t"))}
    BY <1>2, <2>3, FactoriesAreLegible, ChoiceLegible, MemberLegible
  <2> QED BY <1>1, <2>1, <2>2, <2>3
<1> QED BY <1>1, <1>3, PlainlyReadable

\* A path of a catalog has words, and the path of a deferred key has two.
Words == {"a", "b", "e", "error", "form", "k", "n", "r", "z"}
Worded(path) == path \in Seq(Words) /\ path # << >>

Told(key) ==
  /\ Worded(key.key)
  /\ key.deferred => key.key \in {<<"a", "k">>, <<"b", "k">>}

Asked(keys) == keys # {} /\ \A key \in keys : Told(key)

\* What each kind of use may ask for.
Usable(u) ==
  /\ u.keys.is = "wide" => u.keys.keys = {}
  /\ u.keys.is = "literal" => \E k : Worded(k) /\ u.keys.keys = {Plainly(k)}
  /\ \/ /\ u.is = "call" /\ Legible(u.callee)
        /\ u.keys.is \in {"literal", "finite", "wide"}
        /\ u.keys.is = "finite" /\ u.op # "map" => Asked(u.keys.keys)
     \/ /\ u.is = "key" /\ u.op # "map" /\ u.callee.is \in {"keys", "name"}
        /\ u.callee.is = "keys" => u.callee.namespace # NoNamespace
        /\ u.keys.is \in {"literal", "wide"}
     \/ /\ u.is \in {"parse", "formError"} /\ u.op # "map" /\ Worded(u.namespace)
        /\ u.keys.is = "finite" /\ Asked(u.keys.keys)
     \/ /\ u.is = "formSchema" /\ u.op # "map" /\ Worded(u.namespace)
        /\ u.keys.is # "wide" => u.keys.keys # {}
        /\ \A key \in u.keys.keys : Told(key) /\ ~key.deferred
     \/ u.is = "refer" /\ u.op # "map" /\ u.keys.is = "wide"

\* The namespaces and keys of the sources have words only.
LEMMA WordsAreWorded ==
  /\ Worded(<<"a">>) /\ Worded(<<"b">>) /\ Worded(<<"z">>) /\ Worded(<<"error">>)
  /\ Worded(<<"k">>) /\ Worded(<<"n">>) /\ Worded(<<"r">>) /\ Worded(<<"e">>)
  /\ Worded(<<"a", "k">>) /\ Worded(<<"b", "k">>)
  /\ Worded(<<"error", "form", "e">>)
<1>1. /\ "a" \in Words /\ "b" \in Words /\ "e" \in Words /\ "error" \in Words
      /\ "form" \in Words /\ "k" \in Words /\ "n" \in Words /\ "r" \in Words
      /\ "z" \in Words
  BY DEF Words
<1> HIDE DEF Words
<1>2. \A x \in Words : Worded(<<x>>)
  BY DEF Worded
<1>3. \A x, y \in Words : Worded(<<x, y>>)
  BY DEF Worded
<1>4. \A x, y, z \in Words : Worded(<<x, y, z>>)
  BY DEF Worded
<1> QED BY <1>1, <1>2, <1>3, <1>4

\* So have the keys that are known when the source runs.
LEMMA InputsAreTold ==
  Asked(Inputs) /\ \A keys \in KeySets : Asked(keys)
<1>1. /\ \A k : Worded(k) => Told(Plainly(k))
      /\ Told(Deferred(<<"a", "k">>)) /\ Told(Deferred(<<"b", "k">>))
  BY WordsAreWorded DEF Told, Plainly, Deferred
<1>2. Inputs # {} /\ \A key \in Inputs : Told(key)
  BY <1>1, WordsAreWorded DEF Inputs
<1>3. \A keys \in KeySets : keys # {} /\ \A key \in keys : Told(key)
  BY <1>1, WordsAreWorded DEF KeySets
<1> QED BY <1>2, <1>3 DEF Asked

\* The fields of the uses, kind by kind.
LEMMA FieldsOfUses ==
  /\ \A op, callee, keys :
       LET u == Call(op, callee, keys)
       IN  u.is = "call" /\ u.op = op /\ u.callee = callee /\ u.keys = keys
  /\ \A callee, keys :
       LET u == KeyCall(callee, keys)
       IN  u.is = "key" /\ u.op = "key" /\ u.callee = callee /\ u.keys = keys
  /\ \A namespace, keys :
       LET u == Parse(namespace, keys)
       IN  u.is = "parse" /\ u.op = "parse" /\ u.namespace = namespace
             /\ u.keys = Finite(keys)
  /\ \A namespace, callee, keys :
       LET u == FormErrors(namespace, callee, keys)
       IN  u.is = "formError" /\ u.op = "formError" /\ u.namespace = namespace
             /\ u.callee = callee /\ u.keys = Finite(keys)
  /\ \A namespace, keys :
       LET u == FormSchema(namespace, keys)
       IN  u.is = "formSchema" /\ u.op = "formSchema" /\ u.namespace = namespace
             /\ u.keys = keys
  /\ \A how, n :
       LET u == Refer(how, n)
       IN  u.is = "refer" /\ u.op = how /\ u.keys = Wide /\ u.callee = Name(n)
BY DEF Call, KeyCall, Parse, FormErrors, FormSchema, Refer, Use

\* The fields of keys, kind by kind.
LEMMA KindsOfKeys ==
  /\ Wide.is = "wide" /\ Wide.keys = {}
  /\ \A keys : Finite(keys).is = "finite" /\ Finite(keys).keys = keys
  /\ \A k : Literal(k).is = "literal" /\ Literal(k).keys = {Plainly(k)}
BY DEF Wide, Finite, Literal

\* A call can be used by its callee and its keys.
LEMMA CallIsUsable ==
  ASSUME NEW op, NEW callee, Legible(callee), NEW keys,
         \/ keys = Wide
         \/ \E k : Worded(k) /\ keys = Literal(k)
         \/ /\ \E all : keys = Finite(all)
            /\ op # "map" => Asked(keys.keys)
  PROVE  Usable(Call(op, callee, keys))
<1> DEFINE u == Call(op, callee, keys)
<1>1. u.is = "call" /\ u.op = op /\ u.callee = callee /\ u.keys = keys
  BY FieldsOfUses
<1> HIDE DEF u
<1>2. Usable(u)
  BY <1>1, KindsOfKeys DEF Usable
<1> QED BY <1>2 DEF u

\* What the sources call is legible.
LEMMA CalleesAreLegible ==
  \A e \in Callees \cup {Element(Name("o")), Member(Client(<<"a">>)),
                         Parameter(TRUE), Parameter(FALSE), Instance,
                         Choice(Name("t"), Name("t"))} : Legible(e)
<1>1. \A n : Name(n).is = "name"
  BY DEF Name
<1>2. Legible(Name("t")) /\ Legible(Name("x"))
  BY <1>1, PlainlyLegible
<1>3. Legible(Member(Name("o"))) /\ Legible(Choice(Name("t"), Name("t")))
  BY <1>1, MemberLegible, ChoiceLegible
<1>4. Legible(Member(Client(<<"a">>)))
  BY FactoriesAreLegible, MemberLegible
<1>5. Legible(Parameter(TRUE)) /\ Legible(Parameter(FALSE)) /\ Legible(Instance)
  <2>1. Parameter(TRUE).is = "parameter" /\ Parameter(FALSE).is = "parameter"
          /\ Instance.is = "i18next"
    BY DEF Parameter, Instance
  <2> QED BY <2>1, PlainlyLegible
<1>6. Legible(Element(Name("o")))
  <2>1. Element(Name("o")).is = "element" /\ Element(Name("o")).of = Name("o")
    BY DEF Element
  <2>2. PartsOf(Element(Name("o"))) = {Element(Name("o")), Name("o")}
    BY <2>1 DEF PartsOf
  <2> QED BY <1>1, <2>1, <2>2 DEF Legible
<1> QED BY <1>2, <1>3, <1>4, <1>5, <1>6 DEF Callees

\* The calls of the sources can be used,
LEMMA CallsAreUsable ==
  ASSUME NEW u \in CallUses \cup {Call("text", Name("t"), Finite(keys)) :
                                    keys \in KeySets}
  PROVE  Usable(u) /\ u.is = "call"
<1>1. Name("t") \in Callees /\ Member(Name("o")) \in Callees
  BY DEF Callees
<1> DEFINE all_callees == Callees \cup {Element(Name("o")), Member(Client(<<"a">>)),
                             Parameter(TRUE), Parameter(FALSE), Instance,
                             Choice(Name("t"), Name("t"))}
           Fits(op, callee, keys) ==
             /\ u = Call(op, callee, keys) /\ callee \in all_callees
             /\ \/ keys = Wide
                \/ keys \in {Literal(<<"k">>), Literal(<<"r">>), Literal(<<"z">>)}
                \/ \E all : keys = Finite(all) /\ (op = "map" \/ all \in KeySets)
<1>2. PICK op, callee, keys : Fits(op, callee, keys)
  <2>1. {Plainly(<<"k">>)} \in KeySets
    BY DEF KeySets
  <2> DEFINE texts == {Call("text", callee, Literal(<<"k">>)) : callee \in all_callees}
             others == {Call(op, Name("t"), Literal(key)) :
                          op \in {"text", "rich"}, key \in {<<"r">>, <<"z">>}}
             wides == {Call("rich", Parameter(TRUE), Literal(<<"r">>)),
                       Call("rich", Name("t"), Wide), Call("text", Name("t"), Wide),
                       Call("dynamic", Name("t"), Wide), Call("map", Name("t"), Wide)}
             maps == {Call("map", callee, Finite(keys)) :
                        callee \in Callees,
                        keys \in {{Plainly(<<"k">>), Plainly(<<"a", "k">>)},
                                  {Plainly(<<"n">>)}, {Plainly(<<"r">>)}}}
             finites == {Call("text", Name("t"), Finite(keys)) : keys \in KeySets}
             member == Call("text", Member(Name("o")), Finite({Plainly(<<"k">>)}))
  <2>2. CASE u \in texts
    <3>1. PICK callee \in all_callees : u = Call("text", callee, Literal(<<"k">>))
      BY <2>2
    <3> QED BY <3>1
  <2>3. CASE u \in others
    <3>1. PICK op \in {"text", "rich"}, key \in {<<"r">>, <<"z">>} :
            u = Call(op, Name("t"), Literal(key))
      BY <2>3
    <3> QED BY <1>1, <3>1
  <2>4. CASE u \in wides
    BY <1>1, <2>4
  <2>5. CASE u \in maps
    <3>1. PICK callee, keys :
            callee \in Callees /\ u = Call("map", callee, Finite(keys))
      BY <2>5
    <3> QED BY <3>1
  <2>6. CASE u \in finites
    <3>1. PICK keys \in KeySets : u = Call("text", Name("t"), Finite(keys))
      BY <2>6
    <3> QED BY <1>1, <3>1
  <2>7. CASE u = member
    <3>1. Member(Name("o")) \in all_callees
      BY <1>1
    <3> HIDE DEF all_callees
    <3> QED BY <2>1, <2>7, <3>1
  <2>8. CallUses = texts \cup others \cup wides \cup maps \cup finites \cup {member}
    BY DEF CallUses
  <2>9. u \in CallUses \cup finites
    OBVIOUS
  <2> HIDE DEF texts, others, wides, maps, finites, member, Fits
  <2> QED BY <2>2, <2>3, <2>4, <2>5, <2>6, <2>7, <2>8, <2>9
<1>3. Legible(callee)
  BY <1>2, CalleesAreLegible
<1>4. \/ keys = Wide
      \/ \E k : Worded(k) /\ keys = Literal(k)
      \/ /\ \E all : keys = Finite(all)
         /\ op # "map" => Asked(keys.keys)
  <2>1. CASE keys \in {Literal(<<"k">>), Literal(<<"r">>), Literal(<<"z">>)}
    BY <2>1, WordsAreWorded
  <2>2. CASE \E all : keys = Finite(all) /\ (op = "map" \/ all \in KeySets)
    <3>1. PICK all : keys = Finite(all) /\ (op = "map" \/ all \in KeySets)
      BY <2>2
    <3>2. keys.keys = all
      BY <3>1, KindsOfKeys
    <3> QED BY <3>1, <3>2, InputsAreTold
  <2> QED BY <1>2, <2>1, <2>2
<1>5. Usable(Call(op, callee, keys))
  <2> HIDE DEF Usable
  <2> QED BY <1>3, <1>4, CallIsUsable
<1> QED BY <1>2, <1>5, FieldsOfUses

\* and so can the calls of deferred keys, the parsers and the forms, and references.
LEMMA OthersAreUsable ==
  ASSUME NEW u \in KeyUses \cup FormUses \cup References
  PROVE  /\ Usable(u)
         /\ u.is = "key" => u.callee \in {Name("q"), CreateKey(<<"a">>)}
         /\ u.is = "formError" => u.callee = Name("t")
<1>1. CASE u \in KeyUses
  <2>1. PICK callee \in {Name("q"), CreateKey(<<"a">>)},
             keys \in {Literal(<<"k">>), Literal(<<"n">>), Literal(<<"r">>), Wide} :
          u = KeyCall(callee, keys)
    BY <1>1 DEF KeyUses
  <2>2. u.is = "key" /\ u.op = "key" /\ u.callee = callee /\ u.keys = keys
    BY <2>1, FieldsOfUses
  <2>3. callee.is \in {"keys", "name"}
          /\ (callee.is = "keys" => callee.namespace # NoNamespace)
    BY DEF Name, CreateKey, NoNamespace
  <2> QED BY <2>2, <2>3, KindsOfKeys, WordsAreWorded DEF Usable
<1>2. CASE u \in {Parse(namespace, Inputs) : namespace \in {<<"a">>, <<"z">>}}
  <2>1. PICK namespace \in {<<"a">>, <<"z">>} : u = Parse(namespace, Inputs)
    BY <1>2
  <2>2. u.is = "parse" /\ u.op = "parse" /\ u.namespace = namespace
          /\ u.keys = Finite(Inputs)
    BY <2>1, FieldsOfUses
  <2> QED BY <2>2, KindsOfKeys, InputsAreTold, WordsAreWorded DEF Usable
<1>3. CASE u \in {FormErrors(namespace, Name("t"), Inputs) :
                    namespace \in {<<"a">>, <<"error">>}}
  <2>1. PICK namespace \in {<<"a">>, <<"error">>} :
          u = FormErrors(namespace, Name("t"), Inputs)
    BY <1>3
  <2>2. u.is = "formError" /\ u.op = "formError" /\ u.namespace = namespace
          /\ u.callee = Name("t") /\ u.keys = Finite(Inputs)
    BY <2>1, FieldsOfUses
  <2> QED BY <2>2, KindsOfKeys, InputsAreTold, WordsAreWorded DEF Usable
<1>4. CASE u \in FormUses /\ \E namespace, keys : u = FormSchema(namespace, keys)
  <2>1. PICK namespace, keys :
          /\ u = FormSchema(namespace, keys)
          /\ namespace \in {<<"a">>, <<"b">>, <<"error">>}
          /\ keys \in {Literal(<<"e">>), Finite({Plainly(<<"e">>)}),
                       Literal(<<"z">>), Wide}
    <3>1. u.is = "formSchema"
      BY <1>4, FieldsOfUses
    <3>2. /\ u \notin {Parse(namespace, Inputs) : namespace \in {<<"a">>, <<"z">>}}
          /\ u \notin {FormErrors(namespace, Name("t"), Inputs) :
                         namespace \in {<<"a">>, <<"error">>}}
      BY <3>1, FieldsOfUses
    <3>3. CASE u \in {FormSchema(namespace, keys) :
                         namespace \in {<<"a">>, <<"b">>, <<"error">>},
                         keys \in {Literal(<<"e">>), Finite({Plainly(<<"e">>)})}}
      BY <3>3
    <3>4. CASE u \in {FormSchema(<<"a">>, Literal(<<"z">>)), FormSchema(<<"a">>, Wide)}
      BY <3>4
    <3> QED BY <1>4, <3>2, <3>3, <3>4 DEF FormUses
  <2>2. u.is = "formSchema" /\ u.op = "formSchema" /\ u.namespace = namespace
          /\ u.keys = keys
    BY <2>1, FieldsOfUses
  <2>3. \A k : Worded(k) => Told(Plainly(k)) /\ ~Plainly(k).deferred
    BY DEF Told, Plainly
  <2> QED BY <2>1, <2>2, <2>3, KindsOfKeys, WordsAreWorded DEF Usable
<1>5. CASE u \in References
  <2>1. PICK how \in {"escape", "dependency", "typeof"}, n \in {"o", "t", "q"} :
          u = Refer(how, n)
    BY <1>5 DEF References
  <2>2. u.is = "refer" /\ u.op = how /\ u.keys = Wide
    BY <2>1, FieldsOfUses
  <2> QED BY <2>2, KindsOfKeys DEF Usable
<1>6. ASSUME u \in {FormSchema(namespace, keys) :
                       namespace \in {<<"a">>, <<"b">>, <<"error">>},
                       keys \in {Literal(<<"e">>), Finite({Plainly(<<"e">>)})}}
                      \cup {FormSchema(<<"a">>, Literal(<<"z">>)),
                            FormSchema(<<"a">>, Wide)}
      PROVE  \E namespace, keys : u = FormSchema(namespace, keys)
  BY <1>6
<1>7. \/ u \in KeyUses \/ u \in References
      \/ u \in {Parse(namespace, Inputs) : namespace \in {<<"a">>, <<"z">>}}
      \/ u \in {FormErrors(namespace, Name("t"), Inputs) :
                  namespace \in {<<"a">>, <<"error">>}}
      \/ u \in FormUses /\ \E namespace, keys : u = FormSchema(namespace, keys)
  BY <1>6 DEF FormUses
<1> QED BY <1>1, <1>2, <1>3, <1>4, <1>5, <1>7

\* The sources whose deferred keys have a name,
Keyed(source, n) ==
  /\ n # "" /\ source.late.to = ""
  /\ \E kind, namespace :
       /\ namespace # NoNamespace
       /\ source.declarations = <<Declare(kind, Id(n), CreateKey(namespace))>>

\* and those with forms.
Usual(source) ==
  /\ source.late.to = "" /\ ~source.backwards
  /\ source.declarations = <<Declare("const", Pick("t"), Client(<<"a">>))>>

\* A source that can be read as a whole.
ReadableSource(source) ==
  /\ ReadableDeclarations(source)
  /\ Len(source.uses) \in Nat /\ DOMAIN source.uses = 1..Len(source.uses)
  /\ \A u \in Range(source.uses) :
       /\ Usable(u)
       /\ u.is = "key" /\ u.callee.is = "name" => Keyed(source, u.callee.name)
       /\ u.is = "formError" => u.callee = Name("t") /\ Usual(source)

\* The declarations of a source can be read, and are few enough.
LEMMA DeclarationsAreReadable ==
  ASSUME NEW first \in Firsts, NEW rest \in Rests(first), NEW source,
         source.declarations = <<first>> \o rest
  PROVE  ReadableDeclarations(source)
<1> DEFINE known == {first} \cup Seconds(first) \cup {Third}
           ds == <<first>> \o rest
<1>1. ds \in Seq(known)
  BY RestsAreSequences
<1>2. Len(rest) <= 2 /\ rest \in Seq(known)
  <2>1. CASE rest = << >>
    BY <2>1
  <2>2. CASE rest \in {<<d>> : d \in Seconds(first)}
    <3>1. PICK d \in Seconds(first) : rest = <<d>>
      BY <2>2
    <3> QED BY <3>1
  <2>3. CASE rest \in {<<d, Third>> : d \in {e \in Seconds(first) :
                                               e.pattern = Pick("t")}}
    <3>1. PICK d \in Seconds(first) : rest = <<d, Third>>
      BY <2>3
    <3> QED BY <3>1
  <2> QED BY <2>1, <2>2, <2>3 DEF Rests
<1>3. Len(ds) <= 3
  <2> HIDE DEF known
  <2>1. Len(<<first>>) = 1 /\ <<first>> \in Seq(known)
    BY DEF known
  <2>2. Len(ds) = 1 + Len(rest) /\ Len(rest) \in Nat
    BY <1>2, <2>1
  <2> QED BY <1>2, <2>2
<1>4. \A d \in known : Readable(d)
  BY FirstsAreReadable, SecondsAreReadable
<1> HIDE DEF ds, known
<1>5. \A d \in Range(ds) : d \in known
  BY <1>1 DEF Range
<1>6. ds \in Seq(Range(ds))
  <2>1. Len(ds) \in Nat /\ DOMAIN ds = 1..Len(ds) /\ ds = [n \in 1..Len(ds) |-> ds[n]]
    BY <1>1
  <2>2. \A n \in 1..Len(ds) : ds[n] \in Range(ds)
    BY <2>1 DEF Range
  <2> QED BY <2>1, <2>2
<1> QED BY <1>3, <1>4, <1>5, <1>6 DEF ReadableDeclarations, ds

\* What comes after the first declaration names no key.
LEMMA KeysComeFirst ==
  ASSUME NEW first \in Firsts, NEW d \in {first} \cup Seconds(first) \cup {Third},
         "q" \in NamesOf(d.pattern)
  PROVE  /\ d = first /\ first.kind \in {"const", "let"}
         /\ \E namespace :
              /\ namespace # NoNamespace
              /\ first = Declare(first.kind, Id("q"), CreateKey(namespace))
<1>1. \A n : NamesOf(Id(n)) = {n} /\ NamesOf(Pick(n)) = {n}
  BY DEF NamesOf, Id, Pick
<1>2. ASSUME NEW p, d.pattern = p,
             p \in {Id("o"), Id("x"), Id("t"), Pick("t"), Pick("x")}
      PROVE  FALSE
  BY <1>1, <1>2
<1>3. NamesOf(PickNested) = {} /\ \A each : NamesOf(Row(each)) = {"o", "t"}
  BY DEF NamesOf, PickNested, Row
<1>4. d \notin Seconds(first) \cup {Third}
  <2>1. d \in Seconds(first) \cup {Third} =>
          d.pattern \in {Id("x"), Pick("t"), Pick("x")}
    BY DEF Seconds, Third, Declare
  <2> QED BY <1>2, <2>1
<1>5. d = first
  BY <1>4
<1>6. CASE first \in KeyDeclarations
  <2>1. \/ \E namespace :
              /\ namespace # NoNamespace
              /\ first = Declare("const", Id("q"), CreateKey(namespace))
        \/ first = Declare("let", Id("q"), CreateKey(<<"a">>))
        \/ first = Declare("const", PickNested, CreateKey(<<"a">>))
    BY <1>6 DEF KeyDeclarations, NoNamespace, Root
  <2>3. <<"a">> # NoNamespace
    BY DEF NoNamespace
  <2>2. \A kind, pattern, init :
          Declare(kind, pattern, init).kind = kind
            /\ Declare(kind, pattern, init).pattern = pattern
    BY DEF Declare
  <2> QED BY <1>3, <1>5, <2>1, <2>2, <2>3
<1>7. CASE first \notin KeyDeclarations
  <2>1. CASE first \in RowDeclarations
    <3>1. \E each : first.pattern = Row(each)
      BY <2>1 DEF RowDeclarations, Declare
    <3> QED BY <1>3, <1>5, <3>1
  <2>2. CASE first \notin RowDeclarations
    <3>1. first.pattern \in {Id("o"), Id("t"), Pick("t"), Pick("x"), PickNested,
                             Id("x")}
      BY <1>7, <2>2 DEF Firsts, Variables, Declare
    <3> QED BY <1>2, <1>3, <1>5, <3>1
  <2> QED BY <2>1, <2>2
<1> QED BY <1>5, <1>6, <1>7

\* A source that names its deferred key declares nothing else.
LEMMA KeysAreAlone ==
  ASSUME NEW first \in Firsts, NEW rest \in Rests(first), NEW late \in Lates(first),
         NEW d \in Range(<<first>> \o rest), "q" \in NamesOf(d.pattern),
         NEW source, source.declarations = <<first>> \o rest, source.late = late
  PROVE  Keyed(source, "q")
<1> DEFINE known == {first} \cup Seconds(first) \cup {Third}
<1>1. d \in known
  <2>1. <<first>> \o rest \in Seq(known)
    BY RestsAreSequences
  <2> HIDE DEF known
  <2> QED BY <2>1 DEF Range
<1>2. PICK namespace : /\ namespace # NoNamespace
                       /\ first = Declare(first.kind, Id("q"), CreateKey(namespace))
                       /\ first.kind \in {"const", "let"}
  BY <1>1, KeysComeFirst
<1>3. first.pattern = Id("q") /\ NamesOf(first.pattern) = {"q"}
  <2>1. first.pattern = Id("q")
    BY <1>2 DEF Declare
  <2> QED BY <2>1 DEF NamesOf, Id
<1>4. Seconds(first) = {}
  BY <1>2, <1>3 DEF Seconds
<1>5. rest = << >>
  BY <1>4 DEF Rests
<1>6. <<first>> \o rest = <<first>>
  BY <1>5
<1>7. first \notin Variables
  <2>1. Id("q") \notin {Id("o"), Id("t"), Pick("t")}
    BY DEF Id, Pick
  <2>2. first \in Variables => first.pattern \in {Id("o"), Id("t"), Pick("t")}
    BY DEF Variables, Declare
  <2> QED BY <1>3, <2>1, <2>2
<1>8. source.late.to = ""
  <2>1. late = NotLate
    BY <1>7 DEF Lates
  <2>2. NotLate.to = ""
    BY DEF NotLate
  <2> QED BY <2>1, <2>2
<1> QED BY <1>2, <1>6, <1>8 DEF Keyed

\* So does one with forms.
LEMMA FormsAreAlone ==
  ASSUME NEW first \in Firsts, NEW rest \in Rests(first), NEW late \in Lates(first),
         NEW backwards \in {FALSE} \cup {rest # << >>},
         <<first>> \o rest = <<Declare("const", Pick("t"), Client(<<"a">>))>>,
         NEW source, source.declarations = <<first>> \o rest, source.late = late,
         source.backwards = backwards
  PROVE  Usual(source)
<1> DEFINE known == {first} \cup Seconds(first) \cup {Third}
<1>1. rest \in Seq(known)
  <2>1. CASE rest = << >>
    BY <2>1
  <2>2. CASE rest \in {<<d>> : d \in Seconds(first)}
    <3>1. PICK d \in Seconds(first) : rest = <<d>>
      BY <2>2
    <3> QED BY <3>1
  <2>3. CASE rest \in {<<d, Third>> : d \in {e \in Seconds(first) :
                                               e.pattern = Pick("t")}}
    <3>1. PICK d \in Seconds(first) : rest = <<d, Third>>
      BY <2>3
    <3> QED BY <3>1
  <2> QED BY <2>1, <2>2, <2>3 DEF Rests
<1>2. rest = << >> /\ first = Declare("const", Pick("t"), Client(<<"a">>))
  <2> DEFINE usual == Declare("const", Pick("t"), Client(<<"a">>))
  <2>1. <<first>> \in Seq(known) /\ Len(<<first>>) = 1
    OBVIOUS
  <2> HIDE DEF known, usual
  <2>2. Len(<<first>> \o rest) = 1 + Len(rest) /\ Len(rest) \in Nat
    BY <1>1, <2>1
  <2>3. Len(<<usual>>) = 1 /\ <<usual>>[1] = usual /\ <<first>>[1] = first
    OBVIOUS
  <2>4. Len(rest) = 0
    BY <2>2, <2>3 DEF usual
  <2>5. rest = << >>
    BY <1>1, <2>4
  <2>6. <<first>> \o rest = <<first>>
    BY <2>5
  <2> QED BY <2>3, <2>5, <2>6 DEF usual
<1>3. first \notin Variables
  <2>1. first.kind = "const"
    BY <1>2 DEF Declare
  <2>2. first \in Variables => first.kind \in {"let", "var"}
    BY DEF Variables, Declare
  <2> QED BY <2>1, <2>2
<1>4. source.late.to = ""
  <2>1. late = NotLate
    BY <1>3 DEF Lates
  <2>2. NotLate.to = ""
    BY DEF NotLate
  <2> QED BY <2>1, <2>2
<1> QED BY <1>2, <1>4 DEF Usual

\* The sources that are lowered can be read.
LEMMA BeginReadable ==
  ASSUME BeginLowering
  PROVE  ReadableSource(program')
<1>1. PICK first, rest, late, reader, backwards, uses :
        /\ first \in Firsts
        /\ rest \in Rests(first) /\ late \in Lates(first)
        /\ backwards \in {FALSE} \cup {rest # << >>}
        /\ uses \in UsesOf(<<first>> \o rest)
        /\ program' = [declarations |-> <<first>> \o rest, late |-> late,
                       backwards |-> backwards, uses |-> uses, reader |-> reader]
  BY Zenon DEF BeginLowering
<1> DEFINE ds == <<first>> \o rest
           source == program'
           registering == {Call("text", Name("t"), Finite(keys)) : keys \in KeySets}
                            \cup FormUses
           usual == << Declare("const", Pick("t"), Client(<<"a">>)) >>
<1>2. /\ source.declarations = ds /\ source.uses = uses /\ source.late = late
      /\ source.backwards = backwards
  BY <1>1
<1> HIDE DEF source
<1>3. ReadableDeclarations(source)
  BY <1>1, <1>2, DeclarationsAreReadable
<1>4. Len(uses) \in Nat /\ DOMAIN uses = 1..Len(uses)
  BY <1>1, UsesAreSequences
<1>5. ASSUME NEW u \in CallUses \cup KeyUses \cup References,
             NamesIn(u.callee) \subseteq UNION {NamesOf(d.pattern) : d \in Range(ds)}
      PROVE  /\ Usable(u) /\ u.is # "formError"
             /\ u.is = "key" /\ u.callee.is = "name" => Keyed(source, u.callee.name)
  <2>1. Usable(u)
    BY CallsAreUsable, OthersAreUsable
  <2>2. u.is # "formError"
    <3>1. \A w \in KeyUses : w.is = "key"
      BY FieldsOfUses DEF KeyUses
    <3>2. \A w \in References : w.is = "refer"
      BY FieldsOfUses DEF References
    <3> QED BY <3>1, <3>2, CallsAreUsable
  <2>3. ASSUME u.is = "key", u.callee.is = "name"
        PROVE  Keyed(source, u.callee.name)
    <3>1. u \in KeyUses \cup References
      BY <2>3, CallsAreUsable
    <3>2. u.callee = Name("q")
      <4>1. CreateKey(<<"a">>).is = "keys"
        BY DEF CreateKey
      <4> QED BY <2>3, <3>1, <4>1, OthersAreUsable
    <3>3. "q" \in NamesIn(u.callee) /\ u.callee.name = "q"
      BY <3>2 DEF NamesIn, PartsOf, Name
    <3>4. PICK d \in Range(ds) : "q" \in NamesOf(d.pattern)
      BY <1>5, <3>3
    <3>5. Keyed(source, "q")
      BY <1>1, <1>2, <3>4, KeysAreAlone
    <3> QED BY <3>3, <3>5
  <2> QED BY <2>1, <2>2, <2>3
<1>6. ASSUME NEW u \in registering, ds = usual
      PROVE  /\ Usable(u) /\ u.is # "key"
             /\ u.is = "formError" => u.callee = Name("t") /\ Usual(source)
  <2>1. Usable(u)
    BY CallsAreUsable, OthersAreUsable
  <2>2. \A w \in FormUses : w.is # "key"
    BY FieldsOfUses DEF FormUses
  <2>3. \A w \in registering : w.is # "key" /\ (w.is = "formError" => w \in FormUses)
    BY <2>2, CallsAreUsable
  <2>4. Usual(source)
    BY <1>1, <1>2, <1>6, FormsAreAlone
  <2> QED BY <2>1, <2>3, <2>4, OthersAreUsable
<1>7. ASSUME NEW u \in Range(uses)
      PROVE  /\ Usable(u)
             /\ u.is = "key" /\ u.callee.is = "name" => Keyed(source, u.callee.name)
             /\ u.is = "formError" => u.callee = Name("t") /\ Usual(source)
  <2> DEFINE possible == {w \in CallUses \cup KeyUses \cup References :
                            NamesIn(w.callee) \subseteq
                              UNION {NamesOf(d.pattern) : d \in Range(ds)}}
  <2>1. \/ uses \in {<<w>> : w \in possible}
        \/ uses \in registering \X registering /\ ds = usual
    BY <1>1 DEF UsesOf
  <2>2. CASE uses \in {<<w>> : w \in possible}
    <3> HIDE DEF possible
    <3>1. PICK w \in possible : uses = <<w>>
      BY <2>2
    <3>2. u = w
      BY <1>7, <3>1 DEF Range
    <3> QED BY <1>5, <3>2 DEF possible
  <2>3. CASE uses \in registering \X registering /\ ds = usual
    <3> HIDE DEF registering
    <3>1. PICK v \in registering, w \in registering : uses = <<v, w>>
      BY <2>3
    <3>2. u = v \/ u = w
      BY <1>7, <3>1 DEF Range
    <3> QED BY <1>6, <2>3, <3>2
  <2> QED BY <2>1, <2>2, <2>3
<1> QED BY <1>2, <1>3, <1>4, <1>7 DEF ReadableSource, source

----------------------------------------------------------------------------
(* Paths and texts                                                         *)

\* The texts that a registry of a namespace may hold.
Texts(namespace) == Paths({m \in MessagesUnder(namespace) : ArgumentFree(m)})

\* A path begins with another if it has the same words in the same places.
LEMMA PrefixByPlaces ==
  ASSUME NEW S, NEW s \in Seq(S), NEW t \in Seq(S)
  PROVE  IsPrefix(s, t) <=> Len(s) <= Len(t) /\ \A i \in 1..Len(s) : s[i] = t[i]
<1>1. Len(s) \in Nat /\ Len(t) \in Nat
  OBVIOUS
<1>2. ASSUME Len(s) <= Len(t)
      PROVE  SubSeq(s, 1, Len(s)) = SubSeq(t, 1, Len(s)) <=>
               \A i \in 1..Len(s) : s[i] = t[i]
  <2>1. /\ SubSeq(s, 1, Len(s)) = [i \in 1..Len(s) |-> s[i]]
        /\ SubSeq(t, 1, Len(s)) = [i \in 1..Len(s) |-> t[i]]
    BY <1>1, <1>2
  <2> QED BY <2>1
<1> QED BY <1>1, <1>2 DEF IsPrefix

\* The paths of the catalog.
LEMMA PathsOfMessages ==
  ASSUME NEW m \in Messages
  PROVE  m.path \in {<<"a", "k">>, <<"a", "n">>, <<"a", "r">>, <<"a", "a", "k">>,
                     <<"a", "error", "form", "e">>, <<"b", "k">>,
                     <<"error", "error", "form", "e">>}
<1>1. \A path, kind, args : Message(path, kind, args).path = path
  BY DEF Message
<1>2. PICK path, kind, args :
        /\ m = Message(path, kind, args)
        /\ path \in {<<"a", "k">>, <<"a", "n">>, <<"a", "r">>, <<"a", "a", "k">>,
                     <<"a", "error", "form", "e">>, <<"b", "k">>,
                     <<"error", "error", "form", "e">>}
  BY Zenon DEF Messages
<1> QED BY <1>1, <1>2

\* They have words only,
LEMMA PathsAreWorded == \A m \in Messages : Worded(m.path)
<1>1. /\ "a" \in Words /\ "b" \in Words /\ "e" \in Words /\ "error" \in Words
      /\ "form" \in Words /\ "k" \in Words /\ "n" \in Words /\ "r" \in Words
  BY DEF Words
<1> HIDE DEF Words
<1>2. \A x, y \in Words : Worded(<<x, y>>)
  BY DEF Worded
<1>3. \A x, y, z \in Words : Worded(<<x, y, z>>)
  BY DEF Worded
<1>4. \A x, y, z, w \in Words : Worded(<<x, y, z, w>>)
  BY DEF Worded
<1>5. /\ Worded(<<"a", "k">>) /\ Worded(<<"a", "n">>) /\ Worded(<<"a", "r">>)
      /\ Worded(<<"b", "k">>) /\ Worded(<<"a", "a", "k">>)
  BY <1>1, <1>2, <1>3
<1>6. /\ Worded(<<"a", "error", "form", "e">>)
      /\ Worded(<<"error", "error", "form", "e">>)
  BY <1>1, <1>4
<1> HIDE DEF Worded
<1> QED BY <1>5, <1>6, PathsOfMessages

\* and so has the part of forms.
LEMMA FormPartIsWorded == Worded(FormPart)
<1>1. "error" \in Words /\ "form" \in Words
  BY DEF Words
<1> HIDE DEF Words
<1> QED BY <1>1 DEF Worded, FormPart

\* A path begins with what it was put behind.
LEMMA JoinedIsWorded ==
  ASSUME NEW s, NEW t, Worded(s), Worded(t)
  PROVE  /\ Worded(s \o t) /\ IsStrictPrefix(s, s \o t)
         /\ Len(s \o t) = Len(s) + Len(t)
         /\ \A i \in 1..Len(s) : (s \o t)[i] = s[i]
         /\ \A i \in 1..Len(t) : (s \o t)[Len(s) + i] = t[i]
<1> HIDE DEF Words
<1>1. /\ s \in Seq(Words) /\ t \in Seq(Words) /\ Len(s) \in Nat \ {0}
      /\ Len(t) \in Nat \ {0}
  BY DEF Worded
<1>2. /\ s \o t \in Seq(Words) /\ Len(s \o t) = Len(s) + Len(t)
      /\ \A i \in 1..Len(s) : (s \o t)[i] = s[i]
      /\ \A i \in 1..Len(t) : (s \o t)[Len(s) + i] = t[i]
  BY <1>1
<1>3. IsPrefix(s, s \o t)
  <2> DEFINE u == s \o t
  <2>1. u \in Seq(Words) /\ Len(s) <= Len(u) /\ \A i \in 1..Len(s) : s[i] = u[i]
    BY <1>1, <1>2
  <2> HIDE DEF u
  <2>2. IsPrefix(s, u)
    BY <1>1, <2>1, PrefixByPlaces
  <2> QED BY <2>2 DEF u
<1>4. s # s \o t /\ s \o t # << >>
  BY <1>1, <1>2
<1> QED BY <1>2, <1>3, <1>4 DEF Worded, IsStrictPrefix

\* What begins with the longer of two paths begins with the shorter.
LEMMA PrefixesGoOn ==
  ASSUME NEW s, NEW t, NEW p, Worded(s), Worded(t), Worded(p),
         IsStrictPrefix(s, t), IsStrictPrefix(t, p)
  PROVE  IsStrictPrefix(s, p)
<1> HIDE DEF Words
<1>1. s \in Seq(Words) /\ t \in Seq(Words) /\ p \in Seq(Words)
  BY DEF Worded
<1>2. Len(s) \in Nat /\ Len(t) \in Nat /\ Len(p) \in Nat
  BY <1>1
<1>3. /\ Len(s) <= Len(t) /\ \A i \in 1..Len(s) : s[i] = t[i]
      /\ Len(t) <= Len(p) /\ \A i \in 1..Len(t) : t[i] = p[i]
  BY <1>1, PrefixByPlaces DEF IsStrictPrefix
<1>4. Len(s) # Len(t)
  <2>1. s # t
    BY DEF IsStrictPrefix
  <2> QED BY <1>1, <1>3, <2>1, SeqEqual
<1>5. Len(s) <= Len(p) /\ Len(s) # Len(p) /\ \A i \in 1..Len(s) : s[i] = p[i]
  BY <1>2, <1>3, <1>4
<1> QED BY <1>1, <1>5, PrefixByPlaces DEF IsStrictPrefix

\* No path of the catalog is a namespace with a deferred key behind it, unless the
\* key begins with the namespace.
LEMMA DeferredKeysAreWhole ==
  ASSUME NEW namespace, Worded(namespace),
         NEW key \in {<<"a", "k">>, <<"b", "k">>},
         NEW m \in Messages, m.path = namespace \o key
  PROVE  IsStrictPrefix(namespace, key)
<1> DEFINE p == namespace \o key
<1>1. Worded(key) /\ Len(key) = 2 /\ key[2] = "k"
  <2>1. Worded(key)
    BY WordsAreWorded
  <2>2. CASE key = <<"a", "k">>
    BY <2>1, <2>2
  <2>3. CASE key = <<"b", "k">>
    BY <2>1, <2>3
  <2> QED BY <2>2, <2>3
<1>2. /\ Len(p) = Len(namespace) + 2
      /\ \A i \in 1..Len(namespace) : p[i] = namespace[i]
      /\ p[Len(namespace) + 1] = key[1] /\ p[Len(namespace) + 2] = "k"
  <2> HIDE DEF p
  <2>0. ASSUME NEW s, NEW t, Worded(s), Worded(t), p = s \o t
        PROVE  /\ Len(p) = Len(s) + Len(t)
               /\ \A i \in 1..Len(s) : p[i] = s[i]
               /\ \A i \in 1..Len(t) : p[Len(s) + i] = t[i]
    BY <2>0, JoinedIsWorded
  <2>1. /\ Len(p) = Len(namespace) + Len(key)
        /\ \A i \in 1..Len(namespace) : p[i] = namespace[i]
        /\ \A i \in 1..Len(key) : p[Len(namespace) + i] = key[i]
    <3>1. p = namespace \o key /\ Worded(namespace) /\ Worded(key)
      BY <1>1 DEF p
    <3>2. Len(p) = Len(namespace) + Len(key)
      BY <2>0, <3>1
    <3>3. \A i \in 1..Len(namespace) : p[i] = namespace[i]
      BY <2>0, <3>1
    <3>4. \A i \in 1..Len(key) : p[Len(namespace) + i] = key[i]
      BY <2>0, <3>1
    <3> QED BY <3>2, <3>3, <3>4
  <2>2. 1 \in 1..2 /\ 2 \in 1..2
    OBVIOUS
  <2> HIDE DEF p
  <2> QED BY <1>1, <2>1, <2>2
<1>3. Len(namespace) \in Nat \ {0}
  <2> HIDE DEF Words
  <2> QED BY DEF Worded
<1>4. p \in {<<"a", "k">>, <<"a", "n">>, <<"a", "r">>, <<"a", "a", "k">>,
             <<"a", "error", "form", "e">>, <<"b", "k">>,
             <<"error", "error", "form", "e">>}
  BY PathsOfMessages
<1>5. p = <<"a", "a", "k">>
  <2> HIDE DEF p
  <2>1. CASE p \in {<<"a", "k">>, <<"a", "n">>, <<"a", "r">>, <<"b", "k">>}
    <3>1. Len(p) = 2
      <4>1. \A x, y : Len(<<x, y>>) = 2
        OBVIOUS
      <4> QED BY <2>1, <4>1
    <3>2. Len(p) = Len(namespace) + 2
      BY <1>2
    <3> QED BY <1>3, <3>1, <3>2
  <2>2. CASE p \in {<<"a", "error", "form", "e">>, <<"error", "error", "form", "e">>}
    <3>1. Len(p) = 4 /\ p[4] = "e"
      BY <2>2
    <3>2. Len(namespace) + 2 = 4
      BY <1>2, <3>1
    <3> QED BY <1>2, <3>1, <3>2
  <2> QED BY <1>4, <2>1, <2>2
<1> HIDE DEF p
<1>6. Len(p) = 3 /\ p[1] = "a" /\ p[2] = "a"
  BY <1>5
<1>7. Len(namespace) = 1
  <2>1. Len(p) = Len(namespace) + 2 /\ Len(p) = 3
    BY <1>2, <1>6
  <2>2. \A n \in Nat : n + 2 = 3 => n = 1
    OBVIOUS
  <2>3. Len(namespace) + 2 = 3
    BY <2>1, Zenon
  <2>4. Len(namespace) \in Nat
    BY <1>3
  <2> QED BY <2>2, <2>3, <2>4, Zenon
<1>8. namespace[1] = "a" /\ key[1] = "a"
  BY <1>2, <1>6, <1>7
<1>9. IsPrefix(namespace, key)
  <2> HIDE DEF Words
  <2>1. namespace \in Seq(Words) /\ key \in Seq(Words)
    BY <1>1 DEF Worded
  <2>2. \A i \in 1..1 : i = 1
    OBVIOUS
  <2> QED BY <1>1, <1>7, <1>8, <2>1, <2>2, PrefixByPlaces
<1>10. namespace # key
  BY <1>1, <1>7
<1> QED BY <1>9, <1>10 DEF IsStrictPrefix

\* What a key is taken for in a registry is what it means, as far as it is there.
Means(namespace, key) == IF key.deferred THEN key.key ELSE namespace \o key.key

\* Only a key that begins with the namespace is taken for something else.
LEMMA KeysAreFound ==
  ASSUME NEW namespace, Worded(namespace), NEW key, Told(key),
         NEW registry, registry \subseteq Texts(namespace),
         key.deferred \/ ~IsStrictPrefix(namespace, key.key)
  PROVE  {Normalized(namespace, key.key)} \cap registry
           = {Means(namespace, key)} \cap registry
<1>1. CASE ~key.deferred
  BY <1>1 DEF Normalized, Means
<1>2. CASE key.deferred
  <2>1. key.key \in {<<"a", "k">>, <<"b", "k">>} /\ Means(namespace, key) = key.key
    BY <1>2 DEF Told, Means
  <2>2. CASE IsStrictPrefix(namespace, key.key)
    BY <2>1, <2>2 DEF Normalized
  <2>3. CASE ~IsStrictPrefix(namespace, key.key)
    <3>1. Normalized(namespace, key.key) = namespace \o key.key
      BY <2>3 DEF Normalized
    <3>2. namespace \o key.key \notin registry
      <4>1. SUFFICES ASSUME NEW m \in MessagesUnder(namespace),
                            m.path = namespace \o key.key
                     PROVE  FALSE
        BY DEF Texts, Paths
      <4> QED BY <2>1, <2>3, <4>1, DeferredKeysAreWhole DEF MessagesUnder
    <3>3. key.key \notin registry
      <4>1. SUFFICES ASSUME NEW m \in MessagesUnder(namespace), m.path = key.key
                     PROVE  FALSE
        BY DEF Texts, Paths
      <4> QED BY <2>3, <4>1 DEF MessagesUnder
    <3> QED BY <2>1, <3>1, <3>2, <3>3
  <2> QED BY <2>2, <2>3
<1> QED BY <1>1, <1>2

\* A key that names a text of its namespace, or a whole path, is one of its texts.
LEMMA NamedTexts ==
  ASSUME NEW namespace, Worded(namespace), NEW key, Worded(key),
         NEW m \in MessagesAt(Normalized(namespace, key)), ArgumentFree(m)
  PROVE  Normalized(namespace, key) \in Texts(namespace)
<1>1. IsStrictPrefix(namespace, Normalized(namespace, key))
  BY JoinedIsWorded DEF Normalized
<1>2. m \in Messages /\ m.path = Normalized(namespace, key)
  BY DEF MessagesAt
<1>3. m \in MessagesUnder(namespace)
  BY <1>1, <1>2 DEF MessagesUnder, Root, Worded
<1> QED BY <1>2, <1>3 DEF Texts, Paths

\* The texts of a form are those of its namespace that stand under its part.
LEMMA FormTexts ==
  ASSUME NEW namespace, Worded(namespace)
  PROVE  Paths(FormMessages(namespace))
           = {p \in Texts(namespace) : IsStrictPrefix(namespace \o FormPart, p)}
<1> DEFINE form == namespace \o FormPart
<1>1. Worded(form) /\ IsStrictPrefix(namespace, form)
  BY FormPartIsWorded, JoinedIsWorded
<1>2. namespace # Root /\ form # Root
  BY <1>1 DEF Worded, Root
<1> HIDE DEF form
<1>3. FormMessages(namespace) = {m \in MessagesUnder(form) : ArgumentFree(m)}
  BY <1>2 DEF FormMessages, form
<1>4. ASSUME NEW m \in Messages
      PROVE  m \in MessagesUnder(form) <=>
               m \in MessagesUnder(namespace) /\ IsStrictPrefix(form, m.path)
  <2>1. Worded(m.path)
    BY PathsAreWorded
  <2>2. IsStrictPrefix(form, m.path) => IsStrictPrefix(namespace, m.path)
    BY <1>1, <2>1, PrefixesGoOn
  <2> QED BY <1>2, <2>2 DEF MessagesUnder
<1>5. MessagesUnder(form) \subseteq Messages
        /\ MessagesUnder(namespace) \subseteq Messages
  BY DEF MessagesUnder
<1> QED BY <1>3, <1>4, <1>5 DEF Texts, Paths, form

----------------------------------------------------------------------------
(* Deferred keys and forms                                                 *)

\* A sequence of one.
LEMMA RangeOfOne == ASSUME NEW x PROVE Range(<<x>>) = {x}
<1>1. DOMAIN <<x>> = {1} /\ <<x>>[1] = x
  OBVIOUS
<1> QED BY <1>1, Zenon DEF Range

\* The places of the waves.
LEMMA FourSteps ==
  /\ 1 - 1 = 0 /\ 2 - 1 = 1 /\ 3 - 1 = 2 /\ 4 - 1 = 3
  /\ 1 \in 1..4 /\ 2 \in 1..4 /\ 3 \in 1..4 /\ 4 \in 1..4
OBVIOUS

\* The only declaration is that of a deferred key.
KeyDeclared(source, n, namespace) ==
  \E kind : source.declarations = <<Declare(kind, Id(n), CreateKey(namespace))>>

\* The namespace of a deferred key that has a name is found among what the name
\* comes from, and nowhere else.
LEMMA KeysComeFrom ==
  ASSUME NEW source, NEW e, e.is = "name", e.name # "", source.late.to = "",
         NEW namespace, KeyDeclared(source, e.name, namespace)
  PROVE  \A x : x \in OriginsOf(source, e) /\ x.is = "keys" <=>
                x = CreateKey(namespace)
<1>0. PICK kind :
        source.declarations = <<Declare(kind, Id(e.name), CreateKey(namespace))>>
  BY DEF KeyDeclared
<1> DEFINE key == CreateKey(namespace)
           d == Declare(kind, Id(e.name), key)
<1>1. PartsOf(e) = {e} /\ PartsOf(key) = {key} /\ key.is = "keys"
  BY DEF PartsOf, CreateKey
<1>2. InitsOf(source, e.name) = {key}
  <2>1. Range(source.declarations) = {d}
    <3>1. source.declarations = <<d>>
      BY <1>0
    <3> HIDE DEF d
    <3> QED BY <3>1, RangeOfOne
  <2>2. NamesOf(d.pattern) = {e.name} /\ d.init = key
    BY DEF NamesOf, Declare, Id
  <2> HIDE DEF d, key
  <2> QED BY <2>1, <2>2 DEF InitsOf
<1> HIDE DEF key
<1>3. ASSUME NEW some, some \in {{e}, {e, key}}
      PROVE  some \cup BehindNames(source, some) = {e, key}
  <2>1. {y \in some : y.is = "name"} = {e}
    BY <1>1, <1>3
  <2>2. UNION {PartsOf(i) : i \in InitsOf(source, e.name)} = {key}
    BY <1>1, <1>2
  <2>3. BehindNames(source, some)
          = UNION {UNION {PartsOf(i) : i \in InitsOf(source, x.name)} : x \in {e}}
    BY <2>1, Zenon DEF BehindNames
  <2>4. BehindNames(source, some) = {key}
    BY <2>2, <2>3
  <2> QED BY <1>3, <2>4
<1>4. PICK b : Wave(source, e, b)
  BY Waves
<1>5. /\ b[0] = {e} /\ b[1] = b[0] \cup BehindNames(source, b[0])
      /\ b[2] = b[1] \cup BehindNames(source, b[1])
      /\ b[3] = b[2] \cup BehindNames(source, b[2])
      /\ b[4] = b[3] \cup BehindNames(source, b[3])
  <2>1. \A n \in 1..4 : b[n] = b[n - 1] \cup BehindNames(source, b[n - 1])
    BY <1>4 DEF Wave
  <2> QED BY <1>1, <1>4, <2>1, FourSteps DEF Wave
<1>6. b[1] = {e, key}
  BY <1>3, <1>5
<1>7. b[2] = {e, key}
  BY <1>3, <1>5, <1>6
<1>8. b[3] = {e, key}
  BY <1>3, <1>5, <1>7
<1>9. b[4] = {e, key}
  BY <1>3, <1>5, <1>8
<1>10. OriginsOf(source, e) = {e, key}
  BY <1>4, <1>9 DEF Wave
<1>11. \A x : x \in OriginsOf(source, e) /\ x.is = "keys" <=> x = key
  BY <1>1, <1>10
<1> QED BY <1>11 DEF key

\* It is the one that the analysis binds (translationKeyFactoryNamespace).
LEMMA NamedKeyIsBound ==
  ASSUME NEW l, Analysis(l), l.keys = << >>, l.at # "refused",
         NEW n, NEW kind, NEW namespace, namespace # NoNamespace, NEW ds,
         ds = <<Declare(kind, Id(n), CreateKey(namespace))>>,
         BindAllKeys(l, ds).at # "refused"
  PROVE  LET keys == BindAllKeys(l, ds).keys
         IN  n \in DOMAIN keys /\ keys[n] = namespace
<1> DEFINE d == Declare(kind, Id(n), CreateKey(namespace))
<1>1. Len(ds) = 1 /\ ds[1] = d /\ 1 \in 1..1 /\ 1 - 1 = 0
  OBVIOUS
<1>2. BindAllKeys(l, ds) = BindKeys(l, d)
  <2> HIDE DEF d
  <2>1. PICK f : /\ f[0] = l
                 /\ \A i \in 1..Len(ds) : f[i] = BindKeys(f[i - 1], ds[i])
                 /\ BindAllKeys(l, ds) = f[Len(ds)]
    BY <1>1, KeysOneByOne
  <2> QED BY <1>1, <2>1
<1>3. /\ d.init.is = "keys" /\ d.init.namespace = namespace
      /\ d.pattern.is = "id" /\ d.pattern.name = n
  BY DEF Declare, Id, CreateKey
<1> HIDE DEF d
<1>4. KeyNamespace(d.init) \in {namespace, Refused}
  BY <1>3 DEF KeyNamespace
<1>5. KeyNamespace(d.init) # NoNamespace
  BY <1>4, Differ
<1>6. RefuseSource(l).at = "refused"
  BY DEF RefuseSource, Analysis
<1>7. KeyNamespace(d.init) # Refused /\ d.pattern.is = "id" /\ d.kind = "const"
  BY <1>2, <1>5, <1>6 DEF BindKeys
<1>8. BindKeys(l, d) = [l EXCEPT !.keys = Bound(@, n, namespace)]
  BY <1>3, <1>4, <1>5, <1>7 DEF BindKeys
<1>9. BindKeys(l, d).keys = Bound(<< >>, n, namespace)
  BY <1>8 DEF Analysis
<1>10. n \in DOMAIN Bound(<< >>, n, namespace)
        /\ Bound(<< >>, n, namespace)[n] = namespace
  <2>1. DOMAIN << >> = {}
    OBVIOUS
  <2> QED BY <2>1 DEF Bound
<1> QED BY <1>2, <1>9, <1>10

\* The form factories are given a translator.
LEMMA UsualTranslates ==
  ASSUME NEW source, Usual(source), NEW removed,
         NEW env \in Environments(source, removed),
         NEW v \in Evaluate(env, Name("t"))
  PROVE  v.what = "translator"
<1> DEFINE d == Declare("const", Pick("t"), Client(<<"a">>))
           ds == source.declarations
<1>1. Len(ds) = 1 /\ ds[1] = d /\ 1 \in 1..1 /\ 1 - 1 = 0
  <2>1. ds = <<d>>
    BY DEF Usual
  <2> HIDE DEF ds, d
  <2> QED BY <2>1
<1>2. Environments(source, removed) = AllDeclared(ds, removed)
  BY DEF Usual, Environments, Ordered
<1>3. AllDeclared(ds, removed) = Declared({<< >>}, d, removed)
  <2> HIDE DEF d, ds
  <2>1. PICK f : /\ f[0] = {<< >>}
                 /\ \A i \in 1..Len(ds) : f[i] = Declared(f[i - 1], ds[i], removed)
                 /\ AllDeclared(ds, removed) = f[Len(ds)]
    <3>1. Len(ds) \in Nat
      BY <1>1
    <3> QED BY <3>1, EffectsOneByOne
  <2> QED BY <1>1, <2>1
<1>4. /\ d.pattern.is = "pick" /\ d.pattern.name = "t" /\ d.init = Client(<<"a">>)
      /\ d.init.is = "factory"
  BY DEF Declare, Pick, Client, Factory
<1> HIDE DEF d, ds
<1>5. env \in Given({<< >>}, d.pattern, d.init)
  BY <1>2, <1>3, <1>4 DEF Declared
<1>6. PICK w \in Evaluate(<< >>, d.init) : env = Destructure(<< >>, d.pattern, w)
  BY <1>5 DEF Given
<1>7. w.what = "object"
  BY <1>4, <1>6 DEF Evaluate, SimpleValue, Value
<1>8. env = Assign(<< >>, "t", TranslatorOf(w))
  BY <1>4, <1>6 DEF Destructure
<1>9. "t" \in DOMAIN env /\ env["t"] = TranslatorOf(w)
  BY <1>8 DEF Assign
<1>10. v = env["t"]
  <2>1. Name("t").is = "name" /\ Name("t").name = "t"
    BY DEF Name
  <2> QED BY <1>9, <2>1 DEF Evaluate, SimpleValue
<1> QED BY <1>7, <1>9, <1>10 DEF TranslatorOf, Value

\* There is a value for each expression.
LEMMA SomeValue ==
  ASSUME NEW env, NEW e
  PROVE  (CHOOSE x \in Evaluate(env, e) : TRUE) \in Evaluate(env, e)
<1>1. Evaluate(env, e) # {}
  BY DEF Evaluate
<1> QED BY <1>1

\* No path of the catalog begins with a refusal.
LEMMA RefusedNamesNothing ==
  ASSUME NEW key, Worded(key)
  PROVE  MessagesAt(Refused \o key) = {}
<1>1. SUFFICES ASSUME NEW m \in Messages, m.path = Refused \o key
               PROVE  FALSE
  BY DEF MessagesAt
<1>2. Worded(m.path)
  BY PathsAreWorded
<1>3. (Refused \o key)[1] = "!" /\ "!" \notin Words
  <2>1. key \in Seq(Words)
    BY DEF Worded
  <2>2. "!" \notin Words
    BY DEF Words
  <2> HIDE DEF Words
  <2>3. <<"!">> \in Seq(Words \cup {"!"}) /\ key \in Seq(Words \cup {"!"})
    BY <2>1
  <2> QED BY <2>2, <2>3 DEF Refused
<1>4. m.path[1] \in Words
  <2> HIDE DEF Words
  <2> QED BY <1>2 DEF Worded
<1> QED BY <1>1, <1>3, <1>4

\* In a source of no concern, nothing stands for a translator.
LEMMA NothingToFind ==
  ASSUME NEW source, ReadableDeclarations(source), ~RequiresAnalysis(source),
         NEW l, Analysis(l), l.objects = << >>, l.translators = << >>
  PROVE  /\ Traced(source, l) /\ AllPlaced(source, l) /\ Unchosen(source, l)
         /\ \A u \in Range(source.uses) :
              u.is = "call" => TextTranslator(l, u.callee) = NoNamespace
<1>1. DOMAIN << >> = {} /\ << >> = [x \in DOMAIN << >> |-> << >>[x]]
  OBVIOUS
<1>2. Traced(source, l) /\ Unchosen(source, l)
  BY <1>1 DEF Traced, Tabled, IsFunction, Unchosen
<1>3. ASSUME NEW p, NEW e, Binding(source, p, e)
      PROVE  Placed(l, p, e)
  <2>1. PICK d \in Range(source.declarations) : Binds(d, p, e)
    BY <1>3 DEF Binding
  <2>2. \A x \in PartsOf(d.init) : x.is # "factory"
    BY <2>1, Unconcerned
  <2>3. Readable(d)
    BY <2>1 DEF ReadableDeclarations
  <2>4. (\A x \in PartsOf(e) : x.is # "factory") /\ (e.is = "t" => e.of.is # "choice")
    <3>1. CASE d.pattern.is # "row"
      BY <2>1, <2>2, <2>3, <3>1 DEF Binds, Readable, Legible
    <3>2. CASE d.pattern.is = "row"
      <4>1. PICK n \in 1..Len(d.pattern.each) : e = d.init.each[n]
        BY <2>1, <3>2 DEF Binds
      <4>2. e.is \in {"factory", "other"} /\ n \in DOMAIN d.init.each
              /\ d.init.is = "all"
        BY <2>3, <3>2, <4>1 DEF Readable
      <4>3. e \in PartsOf(d.init)
        BY <4>1, <4>2 DEF PartsOf, Range
      <4>4. PartsOf(e) = {e}
        BY <4>2 DEF PartsOf
      <4> QED BY <2>2, <4>2, <4>3, <4>4
    <3> QED BY <3>1, <3>2
  <2>5. ObjectNamespace(l, e) = NoNamespace /\ TextTranslator(l, e) = NoNamespace
    BY <2>4, NoObject, NoTranslator
  <2> QED BY <2>5, Differ DEF Placed
<1>4. ASSUME NEW u \in Range(source.uses), u.is = "call"
      PROVE  TextTranslator(l, u.callee) = NoNamespace
  <2>1. ~IsTranslatorCallTarget(u.callee)
    BY <1>4, Unused
  <2> QED BY <1>1, <2>1 DEF TextTranslator, IsTranslatorCallTarget
<1> QED BY <1>2, <1>3, <1>4 DEF AllPlaced

----------------------------------------------------------------------------
(* What has been made of the uses                                          *)

\* A registry has been made, with all of some paths.
Holds(l, namespace, paths) ==
  namespace \in DOMAIN l.registries /\ paths \subseteq l.registries[namespace]

\* Registries hold texts of their namespaces only.
Registered(l) ==
  \A namespace \in DOMAIN l.registries :
    l.registries[namespace] \subseteq Texts(namespace)

\* The namespace of a deferred key.
KeyOf(l, u) ==
  IF u.callee.is = "name" THEN l.keys[u.callee.name] ELSE u.callee.namespace

\* A call stays if it is that of no translator, and is replaced by what its keys
\* name, or by a call with the registry of its namespace.
CallAnswered(l, u, r) ==
  LET namespace == TextTranslator(l, u.callee)
  IN  \/ namespace = NoNamespace /\ r = Left
      \/ /\ Proper(namespace)
         /\ r.kind = IF u.op = "map" THEN "map" ELSE "message"
         /\ u.op = "map" \/ u.keys.is = "literal"
         /\ r.paths = {namespace \o key.key : key \in u.keys.keys}
      \/ /\ Proper(namespace) /\ Worded(namespace)
         /\ u.op = "text" /\ u.keys.is = "finite"
         /\ r.kind = "dynamic" /\ r.namespace = namespace
         /\ Holds(l, namespace,
                  {Normalized(namespace, key.key) : key \in u.keys.keys})

\* What a parser or a form may find.
FormPaths(u) ==
  IF u.is = "parse" THEN Texts(u.namespace) ELSE Paths(FormMessages(u.namespace))

UseAnswered(l, u, r) ==
  \/ u.is = "call" /\ CallAnswered(l, u, r)
  \/ /\ u.is = "key" /\ r.kind = "literal" /\ u.keys.is = "literal"
     /\ r.paths = {KeyOf(l, u) \o key.key : key \in u.keys.keys}
  \/ /\ u.is \in {"parse", "formError", "formSchema"} /\ u.keys.is # "wide"
     /\ r.kind = u.is /\ r.namespace = u.namespace
     /\ Holds(l, u.namespace, FormPaths(u))
  \/ u.is = "refer"

\* Each use that has been visited has its answer.
Answered(source, l) ==
  /\ l.next \in Nat \ {0} /\ l.replaced \in Seq(Range(l.replaced))
  /\ Len(l.replaced) = l.next - 1
  /\ \A n \in 1..Len(l.replaced) : UseAnswered(l, source.uses[n], l.replaced[n])
  /\ Registered(l)

\* The deferred keys that have a name have been found.
KeysAreNamed(source, l) ==
  \A u \in Range(source.uses) :
    u.is = "key" /\ u.callee.is = "name" =>
      LET n == u.callee.name
      IN  /\ n # "" /\ source.late.to = ""
          /\ n \in DOMAIN l.keys /\ l.keys[n] # NoNamespace
          /\ KeyDeclared(source, n, l.keys[n])

SameTables(l, m) ==
  /\ m.objects = l.objects /\ m.translators = l.translators /\ m.keys = l.keys

\* What a visit leads to.
Continues(source, l, m) ==
  \/ m.at = "refused"
  \/ m.at = l.at /\ SameTables(l, m) /\ Analysis(m) /\ Answered(source, m)

\* The same tables give the same namespaces.
LEMMA SameNamespaces ==
  ASSUME NEW l, NEW m, SameTables(l, m), NEW e
  PROVE  /\ ObjectNamespace(m, e) = ObjectNamespace(l, e)
         /\ TextTranslator(m, e) = TextTranslator(l, e)
<1>1. \A x : NamedObject(m, x) = NamedObject(l, x)
  BY DEF SameTables, NamedObject
<1>2. \A x : ObjectNamespace(m, x) = ObjectNamespace(l, x)
  BY <1>1, Zenon DEF ObjectNamespace
<1>3. TextTranslator(m, e) = TextTranslator(l, e)
  BY <1>2 DEF SameTables, TextTranslator
<1> QED BY <1>2, <1>3

\* Answers stay when registries grow.
LEMMA AnswersStay ==
  ASSUME NEW l, NEW m, SameTables(l, m),
         \A namespace, paths : Holds(l, namespace, paths) => Holds(m, namespace, paths),
         NEW u, NEW r, UseAnswered(l, u, r)
  PROVE  UseAnswered(m, u, r)
<1>1. TextTranslator(m, u.callee) = TextTranslator(l, u.callee)
  BY SameNamespaces
<1>2. KeyOf(m, u) = KeyOf(l, u)
  BY DEF KeyOf, SameTables
<1>3. CASE u.is = "call"
  <2>1. CallAnswered(l, u, r)
    BY <1>3 DEF UseAnswered
  <2>2. CallAnswered(m, u, r)
    BY <1>1, <2>1, Zenon DEF CallAnswered
  <2> QED BY <1>3, <2>2 DEF UseAnswered
<1>4. CASE u.is # "call"
  BY <1>2, <1>4 DEF UseAnswered
<1> QED BY <1>3, <1>4

\* A sequence with one more element.
LEMMA AppendedSequence ==
  ASSUME NEW s, s \in Seq(Range(s)), NEW x
  PROVE  LET t == Append(s, x)
         IN  /\ t \in Seq(Range(t)) /\ Len(t) = Len(s) + 1
             /\ t[Len(s) + 1] = x /\ \A i \in 1..Len(s) : t[i] = s[i]
<1> DEFINE S == Range(s) \cup {x}
           t == Append(s, x)
<1>1. s \in Seq(S)
  <2>1. s \in Seq(Range(s)) /\ Range(s) \subseteq S
    OBVIOUS
  <2> HIDE DEF S
  <2> DEFINE R == Range(s)
  <2>2. s \in Seq(R) /\ R \subseteq S
    BY <2>1
  <2> HIDE DEF R
  <2> QED BY <2>2
<1>2. x \in S
  OBVIOUS
<1> HIDE DEF S
<1>3. /\ t \in Seq(S) /\ Len(t) = Len(s) + 1 /\ t[Len(s) + 1] = x
      /\ \A i \in 1..Len(s) : t[i] = s[i]
  BY <1>1, <1>2
<1> HIDE DEF t
<1>4. t \in Seq(Range(t))
  <2>1. Len(t) \in Nat /\ DOMAIN t = 1..Len(t) /\ t = [n \in 1..Len(t) |-> t[n]]
    BY <1>3
  <2>2. \A n \in 1..Len(t) : t[n] \in Range(t)
    BY <2>1 DEF Range
  <2> QED BY <2>1, <2>2
<1> QED BY <1>3, <1>4 DEF t

\* One more use has its answer.
LEMMA OneMore ==
  ASSUME NEW source, NEW l, Answered(source, l), NEW m, SameTables(l, m),
         \A namespace, paths : Holds(l, namespace, paths) => Holds(m, namespace, paths),
         NEW r, m.next = l.next + 1, m.replaced = Append(l.replaced, r),
         Registered(m), UseAnswered(m, source.uses[l.next], r)
  PROVE  Answered(source, m)
<1> DEFINE s == l.replaced
           t == m.replaced
<1>1. s \in Seq(Range(s)) /\ l.next \in Nat \ {0} /\ Len(s) = l.next - 1
  BY DEF Answered
<1>2. /\ t \in Seq(Range(t)) /\ Len(t) = Len(s) + 1
      /\ t[Len(s) + 1] = r /\ \A i \in 1..Len(s) : t[i] = s[i]
  BY <1>1, AppendedSequence
<1> HIDE DEF s, t
<1>3. Len(t) = l.next /\ m.next \in Nat \ {0} /\ Len(t) = m.next - 1
  BY <1>1, <1>2
<1>4. ASSUME NEW n \in 1..Len(t)
      PROVE  UseAnswered(m, source.uses[n], t[n])
  <2>1. CASE n = l.next
    BY <1>1, <1>2, <2>1
  <2>2. CASE n # l.next
    <3>1. n \in 1..Len(s)
      BY <1>1, <1>3, <2>2
    <3>2. UseAnswered(l, source.uses[n], s[n])
      BY <3>1 DEF Answered, s
    <3>3. UseAnswered(m, source.uses[n], s[n])
      BY <3>2, AnswersStay
    <3> QED BY <1>2, <3>1, <3>3
  <2> QED BY <2>1, <2>2
<1> QED BY <1>2, <1>3, <1>4 DEF Answered, t

\* The fields of an analysis that has replaced a use.
LEMMA RewrittenFields ==
  ASSUME NEW l, Analysis(l), NEW r, NEW m, m = Rewrite(l, r)
  PROVE  /\ Analysis(m) /\ m.at = l.at /\ SameTables(l, m)
         /\ m.registries = l.registries
         /\ m.next = l.next + 1 /\ m.replaced = Append(l.replaced, r)
<1> DEFINE x == Append(l.replaced, r)
           y == l.next + 1
<1>1. m = [[l EXCEPT !.replaced = x] EXCEPT !.next = y]
  BY DEF Rewrite
<1> HIDE DEF x, y
<1>2. m = [at |-> l.at, required |-> l.required, objects |-> l.objects,
           translators |-> l.translators, keys |-> l.keys, next |-> y,
           replaced |-> x, registries |-> l.registries]
  BY <1>1 DEF Analysis
<1> QED BY <1>2 DEF Analysis, SameTables, x, y

\* A use is replaced by what needs no registry,
LEMMA RewriteContinues ==
  ASSUME NEW source, NEW l, Analysis(l), Answered(source, l), NEW r,
         UseAnswered(l, source.uses[l.next], r), NEW m, m = Rewrite(l, r)
  PROVE  Continues(source, l, m)
<1>1. /\ Analysis(m) /\ m.at = l.at /\ SameTables(l, m)
      /\ m.registries = l.registries
      /\ m.next = l.next + 1 /\ m.replaced = Append(l.replaced, r)
  BY RewrittenFields
<1>2. \A namespace, paths : Holds(l, namespace, paths) => Holds(m, namespace, paths)
  BY <1>1 DEF Holds
<1>3. Registered(m)
  BY <1>1 DEF Answered, Registered
<1>4. UseAnswered(m, source.uses[l.next], r)
  BY <1>1, <1>2, AnswersStay
<1>5. Answered(source, m)
  BY <1>1, <1>2, <1>3, <1>4, OneMore
<1> QED BY <1>1, <1>5 DEF Continues

\* or by what needs one.
LEMMA RegisterContinues ==
  ASSUME NEW source, NEW l, Analysis(l), Answered(source, l), NEW r,
         NEW namespace, NEW paths, paths \subseteq Texts(namespace),
         \A k : SameTables(l, k) /\ Holds(k, namespace, paths) =>
                  UseAnswered(k, source.uses[l.next], r),
         NEW m, m = Register(Rewrite(l, r), namespace, paths)
  PROVE  Continues(source, l, m)
<1> DEFINE k == Rewrite(l, r)
           table == [n \in DOMAIN k.registries \cup {namespace} |->
                       RegistryOf(k, n) \cup IF n = namespace THEN paths ELSE {}]
<1>1. /\ Analysis(k) /\ k.at = l.at /\ SameTables(l, k)
      /\ k.registries = l.registries
      /\ k.next = l.next + 1 /\ k.replaced = Append(l.replaced, r)
  BY RewrittenFields
<1>2. m = [k EXCEPT !.registries = table]
  BY <1>1, Zenon DEF Register
<1>3. /\ DOMAIN table = DOMAIN l.registries \cup {namespace}
      /\ \A n \in DOMAIN l.registries : l.registries[n] \subseteq table[n]
      /\ paths \subseteq table[namespace]
      /\ \A n \in DOMAIN table :
           table[n] \subseteq RegistryOf(l, n) \cup IF n = namespace THEN paths ELSE {}
  <2> HIDE DEF k
  <2>1. \A n : RegistryOf(k, n) = RegistryOf(l, n)
    BY <1>1 DEF RegistryOf
  <2> QED BY <1>1, <2>1 DEF RegistryOf
<1> HIDE DEF k, table
<1>4. /\ Analysis(m) /\ m.at = l.at /\ SameTables(l, m) /\ m.registries = table
      /\ m.next = l.next + 1 /\ m.replaced = Append(l.replaced, r)
  BY <1>1, <1>2 DEF Analysis, SameTables
<1>5. \A n, some : Holds(l, n, some) => Holds(m, n, some)
  BY <1>3, <1>4 DEF Holds
<1>6. Holds(m, namespace, paths)
  BY <1>3, <1>4 DEF Holds
<1>7. Registered(m)
  <2>1. \A n \in DOMAIN l.registries : l.registries[n] \subseteq Texts(n)
    BY DEF Answered, Registered
  <2>2. \A n : RegistryOf(l, n) \subseteq Texts(n)
    BY <2>1 DEF RegistryOf
  <2> QED BY <1>3, <1>4, <2>2 DEF Registered
<1>8. UseAnswered(m, source.uses[l.next], r)
  BY <1>4, <1>6
<1>9. Answered(source, m)
  BY <1>4, <1>5, <1>7, <1>8, OneMore
<1> QED BY <1>4, <1>9 DEF Continues

\* A refusal is the end.
LEMMA RefusalContinues ==
  ASSUME NEW source, NEW l, Analysis(l), NEW m, m = RefuseSource(l)
  PROVE  Continues(source, l, m)
BY DEF RefuseSource, Analysis, Continues

\* A visit finds a use of the source.
LEMMA VisitedIsUsable ==
  ASSUME ReadableSource(program), Answered(program, lowering), NEW is, Visiting(is)
  PROVE  /\ Visited \in Range(program.uses) /\ Usable(Visited) /\ Visited.is = is
         /\ Visited = program.uses[lowering.next]
<1>1. /\ lowering.next \in Nat \ {0} /\ lowering.next <= Len(program.uses)
      /\ Len(program.uses) \in Nat /\ DOMAIN program.uses = 1..Len(program.uses)
  BY DEF Answered, Visiting, ReadableSource
<1>2. lowering.next \in DOMAIN program.uses
  BY <1>1
<1>3. Visited \in Range(program.uses)
  BY <1>2 DEF Visited, Range
<1> QED BY <1>3 DEF ReadableSource, Visiting, Visited

\* The fields of a replacement.
LEMMA ReplacementFields ==
  ASSUME NEW kind, NEW namespace, NEW paths
  PROVE  LET r == Replacement(kind, namespace, paths)
         IN  r.kind = kind /\ r.namespace = namespace /\ r.paths = paths
BY DEF Replacement

\* A call is answered (analyzeSource, visit).
LEMMA CallContinues ==
  ASSUME ReadableSource(program), Analysis(lowering), Traced(program, lowering),
         Answered(program, lowering), VisitCall
  PROVE  Continues(program, lowering, lowering')
<1> DEFINE u == Visited
           namespace == TextTranslator(lowering, u.callee)
<1>1. /\ Usable(u) /\ u.is = "call" /\ u = program.uses[lowering.next]
      /\ Legible(u.callee) /\ u.keys.is \in {"literal", "finite", "wide"}
      /\ u.keys.is = "finite" /\ u.op # "map" => Asked(u.keys.keys)
  <2>1. Visiting("call")
    BY DEF VisitCall
  <2>2. Usable(u) /\ u.is = "call" /\ u = program.uses[lowering.next]
    BY <2>1, VisitedIsUsable
  <2> QED BY <2>2 DEF Usable
<1>2. lowering' = IF namespace = NoNamespace
            THEN IF u.callee \in {Instance, Parameter(TRUE)}
                 THEN RefuseSource(lowering) ELSE Rewrite(lowering, Left)
            ELSE IF namespace = Refused \/ u.op = "dynamic"
            THEN RefuseSource(lowering)
            ELSE IF u.op = "map" THEN Mapped(u, namespace)
            ELSE IF u.keys.is = "literal" THEN Exact(u, namespace)
            ELSE Named(u, namespace)
  BY Zenon DEF VisitCall, LoweringStep
<1>3. Proper(namespace) => namespace \in Namespaces
  BY <1>1, NamespacesAreNamed
<1>4. ASSUME NEW r, CallAnswered(lowering, u, r)
      PROVE  UseAnswered(lowering, program.uses[lowering.next], r)
  BY <1>1, <1>4 DEF UseAnswered
<1> HIDE DEF u
<1>5. CASE lowering' = RefuseSource(lowering)
  BY <1>5, RefusalContinues
<1>6. CASE namespace = NoNamespace /\ lowering' = Rewrite(lowering, Left)
  <2>1. CallAnswered(lowering, u, Left)
    BY <1>6 DEF CallAnswered
  <2> QED BY <1>4, <1>6, <2>1, RewriteContinues
<1>7. CASE /\ Proper(namespace) /\ lowering' # RefuseSource(lowering)
           /\ lowering' = Mapped(u, namespace) /\ u.op = "map"
  <2> DEFINE paths == {namespace \o key.key : key \in u.keys.keys}
             r == Replacement("map", namespace, paths)
  <2>1. lowering' = Rewrite(lowering, r)
    BY <1>7 DEF Mapped
  <2>2. r.kind = "map" /\ r.paths = paths
    <3> HIDE DEF paths
    <3> QED BY ReplacementFields
  <2> HIDE DEF r
  <2>3. CallAnswered(lowering, u, r)
    BY <1>7, <2>2 DEF CallAnswered
  <2> QED BY <1>4, <2>1, <2>3, RewriteContinues
<1>8. CASE /\ Proper(namespace) /\ lowering' # RefuseSource(lowering)
           /\ lowering' = Exact(u, namespace) /\ u.op # "map"
           /\ u.keys.is = "literal"
  <2> DEFINE paths == {namespace \o key.key : key \in u.keys.keys}
             r == Replacement("message", namespace, paths)
  <2>1. lowering' = Rewrite(lowering, r)
    BY <1>8 DEF Exact
  <2>2. r.kind = "message" /\ r.paths = paths
    <3> HIDE DEF paths
    <3> QED BY ReplacementFields
  <2> HIDE DEF r
  <2>3. CallAnswered(lowering, u, r)
    BY <1>8, <2>2 DEF CallAnswered
  <2> QED BY <1>4, <2>1, <2>3, RewriteContinues
<1>9. CASE /\ Proper(namespace) /\ lowering' # RefuseSource(lowering)
           /\ lowering' = Named(u, namespace) /\ u.op # "map"
           /\ u.keys.is # "literal"
  <2> DEFINE paths == {Normalized(namespace, key.key) : key \in u.keys.keys}
             r == Replacement("dynamic", namespace, {})
  <2>1. /\ u.op = "text" /\ namespace # Root /\ u.keys.is # "wide"
        /\ \A path \in paths : \E m \in MessagesAt(path) : ArgumentFree(m)
        /\ lowering' = Register(Rewrite(lowering, r), namespace, paths)
    BY <1>9, Zenon DEF Named
  <2>2. r.kind = "dynamic" /\ r.namespace = namespace
    BY ReplacementFields
  <2>3. Worded(namespace)
    <3>1. namespace \in {<<"a">>, <<"b">>}
      BY <1>3, <1>9, <2>1 DEF Namespaces
    <3> QED BY <3>1, WordsAreWorded
  <2>4. u.keys.is = "finite" /\ \A key \in u.keys.keys : Worded(key.key)
    BY <1>1, <1>9, <2>1 DEF Asked, Told
  <2>5. paths \subseteq Texts(namespace)
    <3> HIDE DEF namespace
    <3>1. SUFFICES ASSUME NEW key \in u.keys.keys
                   PROVE  Normalized(namespace, key.key) \in Texts(namespace)
      OBVIOUS
    <3>2. \E m \in MessagesAt(Normalized(namespace, key.key)) : ArgumentFree(m)
      BY <2>1
    <3> QED BY <2>3, <2>4, <3>2, NamedTexts
  <2> HIDE DEF r
  <2>6. ASSUME NEW k, SameTables(lowering, k), Holds(k, namespace, paths)
        PROVE  UseAnswered(k, program.uses[lowering.next], r)
    <3>1. TextTranslator(k, u.callee) = namespace
      BY <2>6, SameNamespaces
    <3>2. CallAnswered(k, u, r)
      <4> HIDE DEF namespace
      <4> QED BY <1>9, <2>1, <2>2, <2>3, <2>4, <2>6, <3>1 DEF CallAnswered
    <3> QED BY <1>1, <3>2 DEF UseAnswered
  <2> HIDE DEF namespace, paths
  <2> QED BY <2>1, <2>5, <2>6, RegisterContinues
<1> HIDE DEF namespace
<1> QED BY <1>2, <1>5, <1>6, <1>7, <1>8, <1>9 DEF Proper

\* The call of a deferred key is,
LEMMA KeyCallContinues ==
  ASSUME ReadableSource(program), Analysis(lowering), KeysAreNamed(program, lowering),
         Answered(program, lowering), VisitKeyCall
  PROVE  Continues(program, lowering, lowering')
<1> DEFINE u == Visited
           namespace == IF u.callee.is = "name"
                        THEN IF u.callee.name \in DOMAIN lowering.keys
                             THEN lowering.keys[u.callee.name] ELSE NoNamespace
                        ELSE KeyNamespace(u.callee)
           paths == {namespace \o key.key : key \in u.keys.keys}
           r == Replacement("literal", namespace, paths)
<1>1. /\ Usable(u) /\ u.is = "key" /\ u = program.uses[lowering.next]
      /\ u \in Range(program.uses) /\ u.callee.is \in {"keys", "name"}
      /\ u.callee.is = "keys" => u.callee.namespace # NoNamespace
      /\ u.keys.is = "literal" => \E k : Worded(k) /\ u.keys.keys = {Plainly(k)}
  <2>1. Visiting("key")
    BY DEF VisitKeyCall
  <2>2. /\ Usable(u) /\ u.is = "key" /\ u = program.uses[lowering.next]
        /\ u \in Range(program.uses)
    BY <2>1, VisitedIsUsable
  <2> QED BY <2>2 DEF Usable
<1>2. lowering' = IF namespace = NoNamespace THEN Rewrite(lowering, Left)
            ELSE IF \/ u.keys.is # "literal"
                    \/ \E path \in paths : ~\E m \in MessagesAt(path) : ArgumentFree(m)
            THEN RefuseSource(lowering) ELSE Rewrite(lowering, r)
  BY Zenon DEF VisitKeyCall, LoweringStep
<1>3. namespace # NoNamespace /\ namespace \in {KeyOf(lowering, u), Refused}
  <2> HIDE DEF u
  <2>1. CASE u.callee.is = "name"
    <3>1. /\ u.callee.name \in DOMAIN lowering.keys
          /\ lowering.keys[u.callee.name] # NoNamespace
      BY <1>1, <2>1 DEF KeysAreNamed
    <3> QED BY <2>1, <3>1 DEF KeyOf
  <2>2. CASE u.callee.is = "keys"
    <3>1. namespace = KeyNamespace(u.callee)
      BY <2>2
    <3>2. KeyNamespace(u.callee) \in {u.callee.namespace, Refused}
      BY <2>2 DEF KeyNamespace
    <3>3. KeyOf(lowering, u) = u.callee.namespace
      BY <2>2 DEF KeyOf
    <3> QED BY <1>1, <2>2, <3>1, <3>2, <3>3, Differ
  <2> QED BY <1>1, <2>1, <2>2
<1> HIDE DEF namespace, u
<1>4. CASE lowering' = RefuseSource(lowering)
  BY <1>4, RefusalContinues
<1>5. CASE lowering' # RefuseSource(lowering)
  <2>1. /\ u.keys.is = "literal" /\ lowering' = Rewrite(lowering, r)
        /\ \A path \in paths : \E m \in MessagesAt(path) : ArgumentFree(m)
    BY <1>2, <1>3, <1>5
  <2>2. PICK k : Worded(k) /\ u.keys.keys = {Plainly(k)}
    BY <1>1, <2>1
  <2>3. namespace \o k \in paths
    BY <2>2 DEF Plainly
  <2>4. namespace = KeyOf(lowering, u)
    <3>1. namespace # Refused
      BY <2>1, <2>2, <2>3, RefusedNamesNothing
    <3> QED BY <1>3, <3>1
  <2>5. r.kind = "literal" /\ r.paths = paths
    BY ReplacementFields
  <2> HIDE DEF r
  <2>6. UseAnswered(lowering, u, r)
    BY <1>1, <2>1, <2>4, <2>5 DEF UseAnswered
  <2> QED BY <1>1, <2>1, <2>6, RewriteContinues
<1> QED BY <1>4, <1>5

\* and so are parsers, forms and references.
LEMMA OthersContinue ==
  ASSUME ReadableSource(program), Analysis(lowering), Answered(program, lowering),
         VisitParser \/ VisitFormErrors \/ VisitFormSchema \/ VisitReference
  PROVE  Continues(program, lowering, lowering')
<1> DEFINE u == Visited
           namespace == u.namespace
<1>1. ASSUME NEW is, Visiting(is), is \in {"parse", "formError", "formSchema"}
      PROVE  /\ Usable(u) /\ u.is = is /\ u = program.uses[lowering.next]
             /\ Worded(namespace) /\ (u.is # "formSchema" => u.keys.is = "finite")
  <2>1. Usable(u) /\ u.is = is /\ u = program.uses[lowering.next]
    BY <1>1, VisitedIsUsable
  <2> QED BY <1>1, <2>1 DEF Usable
<1>2. ASSUME NEW is, is \in {"parse", "formError", "formSchema"}, Visiting(is),
             u.keys.is # "wide",
             lowering' = Register(Rewrite(lowering, Replacement(is, namespace, {})),
                                  namespace, FormPaths(u))
      PROVE  Continues(program, lowering, lowering')
  <2> DEFINE r == Replacement(is, namespace, {})
             paths == FormPaths(u)
  <2>1. r.kind = is /\ r.namespace = namespace
    BY ReplacementFields
  <2>2. u.is = is /\ u = program.uses[lowering.next] /\ Worded(namespace)
    BY <1>1, <1>2
  <2>3. paths \subseteq Texts(namespace)
    BY <2>2, FormTexts DEF FormPaths
  <2> HIDE DEF r, paths, u
  <2>4. ASSUME NEW k, SameTables(lowering, k), Holds(k, namespace, paths)
        PROVE  UseAnswered(k, program.uses[lowering.next], r)
    BY <1>2, <2>1, <2>2, <2>4 DEF UseAnswered, paths
  <2>5. lowering' = Register(Rewrite(lowering, r), namespace, paths)
    BY <1>2 DEF r, paths
  <2> QED BY <2>3, <2>4, <2>5, RegisterContinues
<1>3. CASE lowering' = RefuseSource(lowering)
  BY <1>3, RefusalContinues
<1>4. CASE VisitParser /\ lowering' # RefuseSource(lowering)
  <2>1. Visiting("parse")
    BY <1>4 DEF VisitParser
  <2>2. u.is = "parse" /\ u.keys.is = "finite"
    BY <1>1, <2>1
  <2>3. FormPaths(u) = Paths({m \in MessagesUnder(namespace) : ArgumentFree(m)})
    BY <2>2 DEF FormPaths, Texts
  <2>4. lowering' = Register(Rewrite(lowering, Replacement("parse", namespace, {})),
                             namespace, FormPaths(u))
    BY <1>4, <2>3, Zenon DEF VisitParser, LoweringStep
  <2> QED BY <1>2, <2>1, <2>2, <2>4
<1>5. CASE VisitFormErrors /\ lowering' # RefuseSource(lowering)
  <2>1. Visiting("formError")
    BY <1>5 DEF VisitFormErrors
  <2>2. u.is = "formError" /\ u.keys.is = "finite"
    BY <1>1, <2>1
  <2>3. FormPaths(u) = Paths(FormMessages(namespace))
    BY <2>2 DEF FormPaths
  <2>4. lowering' = Register(Rewrite(lowering, Replacement("formError", namespace, {})),
                             namespace, FormPaths(u))
    BY <1>5, <2>3, Zenon DEF VisitFormErrors, LoweringStep
  <2> QED BY <1>2, <2>1, <2>2, <2>4
<1>6. CASE VisitFormSchema /\ lowering' # RefuseSource(lowering)
  <2>1. Visiting("formSchema")
    BY <1>6 DEF VisitFormSchema
  <2>2. u.is = "formSchema"
    BY <1>1, <2>1
  <2>3. FormPaths(u) = Paths(FormMessages(namespace))
    BY <2>2 DEF FormPaths
  <2>4. /\ u.keys.is # "wide"
        /\ lowering' = Register(
             Rewrite(lowering, Replacement("formSchema", namespace, {})),
             namespace, FormPaths(u))
    BY <1>6, <2>3, Zenon DEF VisitFormSchema, LoweringStep
  <2> QED BY <1>2, <2>1, <2>4
<1>7. CASE VisitReference
  <2>1. Visiting("refer") /\ lowering' = Rewrite(lowering, Left)
    BY <1>7 DEF VisitReference, LoweringStep
  <2>2. u.is = "refer" /\ u = program.uses[lowering.next]
    BY <2>1, VisitedIsUsable
  <2> HIDE DEF u
  <2>3. UseAnswered(lowering, u, Left)
    BY <2>2 DEF UseAnswered
  <2> QED BY <2>1, <2>2, <2>3, RewriteContinues
<1> QED BY <1>3, <1>4, <1>5, <1>6, <1>7

----------------------------------------------------------------------------
(* The phases of the analysis                                              *)

\* Nothing has been replaced,
Fresh(l) == l.next = 1 /\ l.replaced = << >> /\ l.registries = << >>

\* and nothing bound.
Bare(l) == Fresh(l) /\ l.objects = << >> /\ l.translators = << >> /\ l.keys = << >>

Found(source, l) == Traced(source, l) /\ KeysAreNamed(source, l)

\* What has been found so far, and what has been made of it.
SoundPhase(source, l) ==
  \/ l.at = "refused"
  \/ /\ l.at \in {"begun", "preflight", "keys", "skipped"} /\ Bare(l)
     /\ l.at = "skipped" => ~RequiresAnalysis(source)
  \/ l.at = "names" /\ Fresh(l) /\ Found(source, l)
  \/ l.at = "hooks" /\ Fresh(l) /\ Found(source, l) /\ AllPlaced(source, l)
  \/ l.at = "calls" /\ Found(source, l) /\ AllPlaced(source, l) /\ Answered(source, l)
  \/ /\ l.at \in {"untouched", "checked", "lowered"}
     /\ Found(source, l) /\ AllPlaced(source, l) /\ Answered(source, l)
     /\ Unchosen(source, l) /\ l.next > Len(source.uses)

SoundInv ==
  /\ program = NoSource => shown = << >>
  /\ program # NoSource =>
       /\ ReadableSource(program) /\ Analysis(lowering)
       /\ SoundPhase(program, lowering)

\* The same tables hold what was found.
LEMMA TablesStay ==
  ASSUME NEW source, NEW l, NEW m, SameTables(l, m), Analysis(m)
  PROVE  /\ Found(source, l) => Found(source, m)
         /\ AllPlaced(source, l) => AllPlaced(source, m)
<1>1. \A e : /\ ObjectNamespace(m, e) = ObjectNamespace(l, e)
             /\ TextTranslator(m, e) = TextTranslator(l, e)
  BY SameNamespaces
<1>2. Traced(source, l) => Traced(source, m)
  <2>1. Traced(source, l) => Tabled(m)
    BY DEF Traced, Tabled, SameTables
  <2>2. \A n : ObjectTraced(source, l, n) => ObjectTraced(source, m, n)
    BY <1>1 DEF ObjectTraced, SameTables
  <2>3. \A n : TranslatorTraced(source, l, n) => TranslatorTraced(source, m, n)
    BY <1>1 DEF TranslatorTraced, SameTables
  <2> QED BY <2>1, <2>2, <2>3 DEF Traced, SameTables
<1>3. KeysAreNamed(source, l) => KeysAreNamed(source, m)
  BY DEF KeysAreNamed, SameTables
<1>4. \A p, e : Placed(l, p, e) => Placed(m, p, e)
  BY <1>1 DEF Placed, SameTables
<1>5. AllPlaced(source, l) => AllPlaced(source, m)
  BY <1>4 DEF AllPlaced
<1> QED BY <1>2, <1>3, <1>5 DEF Found

\* Only the place in the analysis changes.
LEMMA OnlyThePlace ==
  ASSUME NEW source, NEW l, Analysis(l), NEW a, NEW m, m = [l EXCEPT !.at = a]
  PROVE  /\ Analysis(m) /\ m.at = a /\ SameTables(l, m) /\ m.next = l.next
         /\ m.replaced = l.replaced /\ m.registries = l.registries
         /\ Found(source, l) => Found(source, m)
         /\ AllPlaced(source, l) => AllPlaced(source, m)
         /\ Answered(source, l) => Answered(source, m)
<1>1. /\ Analysis(m) /\ m.at = a /\ SameTables(l, m) /\ m.next = l.next
      /\ m.replaced = l.replaced /\ m.registries = l.registries
  BY DEF Analysis, SameTables
<1>2. \A namespace, paths : Holds(l, namespace, paths) => Holds(m, namespace, paths)
  BY <1>1 DEF Holds
<1>3. \A u, r : UseAnswered(l, u, r) => UseAnswered(m, u, r)
  BY <1>1, <1>2, AnswersStay
<1>4. Answered(source, l) => Answered(source, m)
  BY <1>1, <1>3 DEF Answered, Registered
<1> QED BY <1>1, <1>4, TablesStay

\* Without a source, one is begun.
LEMMA FirstStepBegins ==
  ASSUME LoweringInv, LoweringNext, program = NoSource
  PROVE  lowering = Start /\ BeginLowering
<1>1. lowering = Start
  BY DEF LoweringInv
<1>2. lowering.at = "begun"
  BY <1>1 DEF Start
<1> QED BY <1>1, <1>2
  DEF LoweringNext, At, Visiting, Preflight, BindTranslationKeys, BindNames,
      RefuseWrapperHooks, VisitCall, VisitKeyCall, VisitParser, VisitFormErrors,
      VisitFormSchema, VisitReference, ValidateReferences, Run

\* Keys are bound before all other names,
LEMMA KeysLeadOn ==
  ASSUME ReadableSource(program), Analysis(lowering), SoundPhase(program, lowering),
         BindTranslationKeys
  PROVE  Analysis(lowering') /\ SoundPhase(program, lowering')
<1> DEFINE ds == program.declarations
           bound == BindAllKeys(lowering, ds)
           keys == bound.keys
           at == IF bound.at = "refused" THEN "refused" ELSE "names"
<1>1. lowering.at = "keys"
  BY DEF BindTranslationKeys, At
<1>2. Bare(lowering)
  BY <1>1 DEF SoundPhase
<1>3. lowering' = [[lowering EXCEPT !.keys = keys] EXCEPT !.at = at]
  BY DEF BindTranslationKeys, LoweringStep
<1> HIDE DEF keys, at, bound, ds
<1>4. /\ Analysis(lowering') /\ (lowering').at = at /\ (lowering').keys = keys
      /\ (lowering').objects = << >> /\ (lowering').translators = << >>
      /\ (lowering').next = 1 /\ (lowering').replaced = << >>
      /\ (lowering').registries = << >>
  BY <1>2, <1>3 DEF Analysis, Bare, Fresh
<1>5. CASE at = "refused"
  BY <1>4, <1>5 DEF SoundPhase
<1>6. CASE at # "refused"
  <2>1. bound.at # "refused" /\ at = "names"
    BY <1>6 DEF at
  <2>2. ASSUME NEW u \in Range(program.uses), u.is = "key", u.callee.is = "name"
        PROVE  LET n == u.callee.name
               IN  /\ n # "" /\ program.late.to = ""
                   /\ n \in DOMAIN keys /\ keys[n] # NoNamespace
                   /\ KeyDeclared(program, n, keys[n])
    <3> DEFINE n == u.callee.name
    <3>1. Keyed(program, n)
      BY <2>2 DEF ReadableSource
    <3>2. PICK kind, namespace :
            /\ namespace # NoNamespace
            /\ ds = <<Declare(kind, Id(n), CreateKey(namespace))>>
      BY <3>1 DEF Keyed, ds
    <3>3. lowering.keys = << >> /\ lowering.at # "refused"
      BY <1>1, <1>2 DEF Bare
    <3>4. n \in DOMAIN keys /\ keys[n] = namespace
      <4>1. n \in DOMAIN bound.keys /\ bound.keys[n] = namespace
        BY <2>1, <3>2, <3>3, NamedKeyIsBound DEF bound
      <4> QED BY <4>1 DEF keys
    <3>5. n # "" /\ program.late.to = ""
      BY <3>1 DEF Keyed
    <3>6. KeyDeclared(program, n, namespace)
      BY <3>2 DEF KeyDeclared, ds
    <3>7. KeyDeclared(program, n, keys[n])
      BY <3>4, <3>6
    <3> QED BY <3>2, <3>4, <3>5, <3>7
  <2>3. KeysAreNamed(program, lowering')
    BY <1>4, <2>2 DEF KeysAreNamed, ds
  <2>4. Traced(program, lowering')
    <3>1. DOMAIN << >> = {} /\ << >> = [x \in DOMAIN << >> |-> << >>[x]]
      OBVIOUS
    <3> QED BY <1>4, <3>1 DEF Traced, Tabled, IsFunction
  <2> QED BY <1>4, <2>1, <2>3, <2>4 DEF SoundPhase, Fresh, Found
<1> QED BY <1>4, <1>5, <1>6

\* then these, until all are settled,
LEMMA NamesLeadOn ==
  ASSUME ReadableSource(program), Analysis(lowering), SoundPhase(program, lowering),
         BindNames
  PROVE  Analysis(lowering') /\ SoundPhase(program, lowering')
<1> DEFINE ds == program.declarations
           bound == BindDeclarations(lowering, ds)
           at == IF bound = lowering THEN "hooks"
                 ELSE IF bound.at = "refused" THEN "refused" ELSE "names"
<1>1. lowering.at = "names"
  BY DEF BindNames, At
<1>2. Fresh(lowering) /\ Traced(program, lowering) /\ KeysAreNamed(program, lowering)
  BY <1>1 DEF SoundPhase, Found
<1>3. lowering' = [[[lowering EXCEPT !.objects = bound.objects]
                     EXCEPT !.translators = bound.translators] EXCEPT !.at = at]
  BY DEF BindNames, LoweringStep
<1>4. /\ Traced(program, bound) /\ Grows(lowering, bound)
      /\ bound = lowering => AllPlaced(program, lowering)
  <2>1. /\ Len(ds) \in Nat /\ DOMAIN ds = 1..Len(ds)
        /\ \A d \in Range(ds) : Readable(d)
    BY DEF ReadableSource, ReadableDeclarations
  <2> QED BY <1>1, <1>2, <2>1, PassBinds
<1> HIDE DEF bound, at, ds
<1>5. /\ Analysis(lowering') /\ (lowering').at = at
      /\ (lowering').objects = bound.objects
      /\ (lowering').translators = bound.translators
      /\ (lowering').keys = lowering.keys /\ (lowering').next = lowering.next
      /\ (lowering').replaced = lowering.replaced
      /\ (lowering').registries = lowering.registries
  BY <1>3 DEF Analysis
<1>6. SameTables(bound, lowering')
  BY <1>4, <1>5 DEF SameTables, Grows
<1>7. Found(program, lowering') /\ Fresh(lowering')
  <2>1. KeysAreNamed(program, bound)
    BY <1>2, <1>4 DEF KeysAreNamed, Grows
  <2> QED BY <1>2, <1>4, <1>5, <1>6, <2>1, TablesStay DEF Found, Fresh
<1>8. bound = lowering => AllPlaced(program, lowering')
  BY <1>4, <1>5, <1>6, TablesStay
<1> QED BY <1>5, <1>7, <1>8 DEF SoundPhase, at

\* and the uses are visited.
LEMMA HooksLeadOn ==
  ASSUME Analysis(lowering), SoundPhase(program, lowering), RefuseWrapperHooks
  PROVE  Analysis(lowering') /\ SoundPhase(program, lowering')
<1>1. Fresh(lowering) /\ Found(program, lowering) /\ AllPlaced(program, lowering)
  BY DEF RefuseWrapperHooks, At, SoundPhase
<1>2. CASE lowering' = RefuseSource(lowering)
  BY <1>2, OnlyThePlace DEF RefuseSource, SoundPhase
<1>3. CASE lowering' = [lowering EXCEPT !.at = "calls"]
  <2>1. Answered(program, lowering)
    <3>1. /\ 1 \in Nat \ {0} /\ << >> \in Seq(Range(<< >>)) /\ Len(<< >>) = 1 - 1
          /\ 1..Len(<< >>) = {} /\ DOMAIN << >> = {}
      OBVIOUS
    <3> QED BY <1>1, <3>1, Zenon DEF Answered, Fresh, Registered
  <2> QED BY <1>1, <1>3, <2>1, OnlyThePlace DEF SoundPhase
<1>4. lowering' \in {RefuseSource(lowering), [lowering EXCEPT !.at = "calls"]}
  BY Zenon DEF RefuseWrapperHooks, LoweringStep
<1> QED BY <1>2, <1>3, <1>4

\* What was visited is lowered, unless a translator or a deferred key escapes.
LEMMA ReferencesLeadOn ==
  ASSUME ReadableSource(program), Analysis(lowering), SoundPhase(program, lowering),
         ValidateReferences
  PROVE  Analysis(lowering') /\ SoundPhase(program, lowering')
<1>1. /\ Found(program, lowering) /\ AllPlaced(program, lowering)
      /\ Answered(program, lowering) /\ lowering.next > Len(program.uses)
  BY DEF ValidateReferences, At, SoundPhase
<1>2. CASE Escapes
  <2>1. lowering' = [lowering EXCEPT !.at = "refused"]
    BY <1>2, Zenon DEF ValidateReferences, LoweringStep, RefuseSource
  <2> QED BY <2>1, OnlyThePlace DEF SoundPhase
<1>3. CASE ~Escapes
  <2>1. PICK a \in {"untouched", "checked", "lowered"} :
          lowering' = [lowering EXCEPT !.at = a]
    BY <1>3, Zenon DEF ValidateReferences, LoweringStep
  <2>2. /\ Analysis(lowering') /\ (lowering').at = a /\ SameTables(lowering, lowering')
        /\ (lowering').next = lowering.next /\ Found(program, lowering')
        /\ AllPlaced(program, lowering') /\ Answered(program, lowering')
    BY <1>1, <2>1, OnlyThePlace
  <2>3. Unchosen(program, lowering')
    BY <1>3, <2>2 DEF Escapes, Unchosen, SameTables
  <2> QED BY <1>1, <2>2, <2>3 DEF SoundPhase
<1> QED BY <1>2, <1>3

\* A step of the analysis keeps what has been found.
LEMMA StepsAreSound ==
  ASSUME LoweringInv, SoundInv, LoweringNext
  PROVE  SoundInv'
<1>1. CASE program = NoSource
  <2>1. lowering = Start /\ BeginLowering
    BY <1>1, FirstStepBegins
  <2>2. lowering' = [lowering EXCEPT !.at = "preflight"] /\ shown' = shown
    BY <2>1 DEF BeginLowering
  <2>3. lowering' = [at |-> "preflight", required |-> FALSE, objects |-> << >>,
                     translators |-> << >>, keys |-> << >>, next |-> 1,
                     replaced |-> << >>, registries |-> << >>]
    BY <2>1, <2>2 DEF Start
  <2>4. Analysis(lowering') /\ SoundPhase(program', lowering')
    BY <2>3 DEF Analysis, SoundPhase, Bare, Fresh
  <2>5. ReadableSource(program')
    BY <2>1, BeginReadable
  <2> QED BY <1>1, <2>2, <2>4, <2>5 DEF SoundInv
<1>2. CASE program # NoSource
  <2>1. program' = program
    BY <1>2, ProgramStays
  <2>2. /\ ReadableSource(program) /\ Analysis(lowering)
        /\ SoundPhase(program, lowering)
    BY <1>2 DEF SoundInv
  <2>3. ASSUME Continues(program, lowering, lowering'), lowering.at = "calls"
        PROVE  \/ Analysis(lowering') /\ SoundPhase(program, lowering')
               \/ (lowering').at = "refused"
    <3>1. Found(program, lowering) /\ AllPlaced(program, lowering)
      BY <2>2, <2>3 DEF SoundPhase
    <3> QED BY <2>3, <3>1, TablesStay DEF Continues, SoundPhase
  <2>4. ASSUME VisitCall \/ VisitKeyCall \/ VisitParser \/ VisitFormErrors
                 \/ VisitFormSchema \/ VisitReference
        PROVE  SoundPhase(program, lowering')
    <3>1. lowering.at = "calls"
      BY <2>4, Zenon DEF VisitCall, VisitKeyCall, VisitParser, VisitFormErrors,
                         VisitFormSchema, VisitReference, Visiting, At
    <3>2. /\ Traced(program, lowering) /\ KeysAreNamed(program, lowering)
          /\ Answered(program, lowering)
      BY <2>2, <3>1 DEF SoundPhase, Found
    <3>3. Continues(program, lowering, lowering')
      BY <2>2, <2>4, <3>2, CallContinues, KeyCallContinues, OthersContinue
    <3> QED BY <2>3, <3>1, <3>3 DEF SoundPhase
  <2>5. ASSUME Preflight
        PROVE  SoundPhase(program, lowering')
    <3>1. Bare(lowering)
      BY <2>2, <2>5 DEF Preflight, At, SoundPhase
    <3>2. PICK a \in {"skipped", "keys"} :
            /\ lowering' = [lowering EXCEPT !.required = RequiresAnalysis(program),
                                            !.at = a]
            /\ a = "skipped" => ~RequiresAnalysis(program)
      <4>1. "keys" # "skipped"
        OBVIOUS
      <4> QED BY <2>5, <4>1, Zenon DEF Preflight, LoweringStep
    <3> DEFINE needed == RequiresAnalysis(program)
    <3>3. /\ (lowering').at = a /\ (lowering').objects = lowering.objects
          /\ (lowering').translators = lowering.translators
          /\ (lowering').keys = lowering.keys /\ (lowering').next = lowering.next
          /\ (lowering').replaced = lowering.replaced
          /\ (lowering').registries = lowering.registries
      <4> HIDE DEF needed
      <4>1. lowering' = [lowering EXCEPT !.required = needed, !.at = a]
        BY <3>2 DEF needed
      <4> QED BY <2>2, <4>1 DEF Analysis
    <3> QED BY <3>1, <3>2, <3>3 DEF SoundPhase, Bare, Fresh
  <2>6. SoundPhase(program, lowering')
    <3>1. CASE BindTranslationKeys
      BY <2>2, <3>1, KeysLeadOn
    <3>2. CASE BindNames
      BY <2>2, <3>2, NamesLeadOn
    <3>3. CASE RefuseWrapperHooks
      BY <2>2, <3>3, HooksLeadOn
    <3>4. CASE ValidateReferences
      BY <2>2, <3>4, ReferencesLeadOn
    <3>5. CASE Run
      BY <2>2, <3>5 DEF Run
    <3>6. ~BeginLowering
      BY <1>2 DEF BeginLowering
    <3> QED BY <2>4, <2>5, <3>1, <3>2, <3>3, <3>4, <3>5, <3>6 DEF LoweringNext
  <2>7. Analysis(lowering')
    <3>1. LoweringShape'
      BY StepsKeep DEF LoweringInv
    <3> QED BY <3>1, Zenon DEF LoweringShape, Analysis
  <2> QED BY <1>2, <2>1, <2>2, <2>6, <2>7 DEF SoundInv
<1> QED BY <1>1, <1>2

\* Each use of a source that runs has its answer, be it that nothing was analysed.
LEMMA RunsWithAnswers ==
  ASSUME NEW source, ReadableSource(source), NEW l, Analysis(l),
         SoundPhase(source, l), l.at \in {"skipped", "untouched", "lowered"},
         NEW n \in DOMAIN source.uses, NEW r,
         r = IF n \in DOMAIN l.replaced THEN l.replaced[n] ELSE Left
  PROVE  /\ Traced(source, l) /\ AllPlaced(source, l) /\ Unchosen(source, l)
         /\ KeysAreNamed(source, l) /\ Registered(l)
         /\ UseAnswered(l, source.uses[n], r)
<1> DEFINE u == source.uses[n]
<1>1. u \in Range(source.uses) /\ Usable(u)
  BY DEF Range, ReadableSource
<1>2. CASE l.at = "skipped"
  <2>1. Bare(l) /\ ~RequiresAnalysis(source)
    BY <1>2 DEF SoundPhase
  <2>2. l.objects = << >> /\ l.translators = << >> /\ l.replaced = << >>
          /\ l.registries = << >> /\ DOMAIN << >> = {}
    BY <2>1 DEF Bare, Fresh
  <2>3. /\ Traced(source, l) /\ AllPlaced(source, l) /\ Unchosen(source, l)
        /\ \A w \in Range(source.uses) :
             w.is = "call" => TextTranslator(l, w.callee) = NoNamespace
    BY <2>1, <2>2, NothingToFind DEF ReadableSource
  <2>4. r = Left /\ Registered(l)
    BY <2>2 DEF Registered
  <2>5. ASSUME NEW w \in Range(source.uses)
        PROVE  w.is # "key"
    <3>1. SUFFICES ASSUME w.is = "key" PROVE FALSE
      OBVIOUS
    <3>2. w.callee \in PartsOf(w.callee)
      BY DEF PartsOf
    <3>3. w.callee.is # "keys"
      BY <2>1, <2>5, <3>2, Unused
    <3>4. w.callee.is = "name"
      BY <2>5, <3>1, <3>3 DEF ReadableSource, Usable
    <3>5. Keyed(source, w.callee.name)
      BY <2>5, <3>1, <3>4 DEF ReadableSource
    <3>6. PICK kind, namespace :
            source.declarations
              = <<Declare(kind, Id(w.callee.name), CreateKey(namespace))>>
      BY <3>5 DEF Keyed
    <3> DEFINE d == Declare(kind, Id(w.callee.name), CreateKey(namespace))
    <3>7. d \in Range(source.declarations)
      <4> HIDE DEF d
      <4>1. source.declarations = <<d>>
        BY <3>6 DEF d
      <4> QED BY <4>1, RangeOfOne
    <3>8. d.init.is = "keys" /\ d.init \in PartsOf(d.init)
      BY DEF Declare, CreateKey, PartsOf
    <3> HIDE DEF d
    <3> QED BY <2>1, <3>7, <3>8, Unconcerned
  <2>6. u.is \in {"call", "refer"}
    BY <1>1, <2>1, <2>5, Unused DEF Usable
  <2>7. UseAnswered(l, u, r)
    BY <1>1, <2>3, <2>4, <2>6 DEF UseAnswered, CallAnswered
  <2> QED BY <2>3, <2>4, <2>5, <2>7 DEF KeysAreNamed
<1>3. CASE l.at # "skipped"
  <2>1. /\ Found(source, l) /\ AllPlaced(source, l) /\ Answered(source, l)
        /\ Unchosen(source, l) /\ l.next > Len(source.uses)
    BY <1>3 DEF SoundPhase
  <2>2. n \in 1..Len(l.replaced) /\ n \in DOMAIN l.replaced
    <3> DEFINE s == l.replaced
               S == Range(s)
    <3>1. /\ s \in Seq(S) /\ Len(s) = l.next - 1 /\ l.next \in Nat
          /\ Len(source.uses) \in Nat /\ n \in 1..Len(source.uses)
      BY <2>1 DEF Answered, ReadableSource
    <3> HIDE DEF s, S
    <3>2. DOMAIN s = 1..Len(s) /\ Len(s) \in Nat
      BY <3>1
    <3>3. n \in 1..Len(s)
      BY <2>1, <3>1, <3>2
    <3> QED BY <3>2, <3>3 DEF s
  <2>3. UseAnswered(l, u, r)
    BY <2>1, <2>2 DEF Answered
  <2> QED BY <2>1, <2>3 DEF Found, Answered
<1> QED BY <1>2, <1>3

----------------------------------------------------------------------------
(* What the lowered source shows                                           *)

\* A call means what its translator has under its keys, if it has one.
LEMMA CallsMean ==
  ASSUME NEW source, NEW u, u.is = "call", NEW v, NEW key
  PROVE  /\ v.what # "translator" => Meant(source, u, v, key) = {}
         /\ v.what = "translator" /\ u.op = "map" =>
              Meant(source, u, v, key) = {v.namespace \o k.key : k \in u.keys.keys}
         /\ v.what = "translator" /\ u.op # "map" =>
              Meant(source, u, v, key) = {Means(v.namespace, key)}
<1>1. v.what # "translator" => Meant(source, u, v, key) = {}
  BY Zenon DEF Meant
<1>2. v.what = "translator" /\ u.op = "map" =>
        Meant(source, u, v, key) = {v.namespace \o k.key : k \in u.keys.keys}
  BY Zenon DEF Meant
<1>3. v.what = "translator" /\ u.op # "map" =>
        Meant(source, u, v, key)
          = IF key.deferred THEN {key.key} ELSE {v.namespace \o key.key}
  BY Zenon DEF Meant
<1> QED BY <1>1, <1>2, <1>3 DEF Means

\* A parser means the texts of its namespace,
LEMMA ParsersMean ==
  \A source, u, v, key : u.is = "parse" =>
    Meant(source, u, v, key) = {Means(u.namespace, key)} \cap FormPaths(u)
<1> TAKE source, u, v, key
<1> HAVE u.is = "parse"
<1>1. Meant(source, u, v, key)
        = (IF key.deferred THEN {key.key} ELSE {u.namespace \o key.key})
            \cap Texts(u.namespace)
  BY Zenon DEF Meant, Texts
<1> QED BY <1>1 DEF Means, FormPaths

\* the errors of a form mean those of the form,
LEMMA FormErrorsMean ==
  \A source, u, v, key : u.is = "formError" =>
    Meant(source, u, v, key) = {Means(u.namespace, key)} \cap FormPaths(u)
<1> TAKE source, u, v, key
<1> HAVE u.is = "formError"
<1>1. Meant(source, u, v, key)
        = (IF key.deferred THEN {key.key} ELSE {u.namespace \o key.key})
            \cap Paths(FormMessages(u.namespace))
  BY Zenon DEF Meant
<1> QED BY <1>1 DEF Means, FormPaths

\* and so does its schema.
LEMMA SchemasMean ==
  \A source, u, v, key : u.is = "formSchema" =>
    Meant(source, u, v, key)
      = {u.namespace \o FormPart \o key.key} \cap FormPaths(u)
<1> TAKE source, u, v, key
<1> HAVE u.is = "formSchema"
<1>1. Meant(source, u, v, key)
        = {u.namespace \o FormPart \o key.key} \cap Paths(FormMessages(u.namespace))
  BY Zenon DEF Meant
<1> QED BY <1>1 DEF FormPaths

\* The call of a deferred key means a path of the namespace of the key.
LEMMA KeysMean ==
  ASSUME NEW source, NEW l, KeysAreNamed(source, l), NEW u \in Range(source.uses),
         u.is = "key", u.callee.is \in {"keys", "name"}, NEW v, NEW key
  PROVE  Meant(source, u, v, key) = {Means(KeyOf(l, u), key)}
<1>1. CASE u.callee.is = "keys"
  <2>1. Meant(source, u, v, key)
          = IF key.deferred THEN {key.key} ELSE {u.callee.namespace \o key.key}
    BY <1>1, Zenon DEF Meant
  <2> QED BY <1>1, <2>1 DEF Means, KeyOf
<1>2. CASE u.callee.is = "name"
  <2> DEFINE n == u.callee.name
             namespace == l.keys[n]
             keys == {x \in OriginsOf(source, u.callee) : x.is = "keys"}
  <2>1. /\ n # "" /\ source.late.to = ""
        /\ KeyDeclared(source, n, namespace)
    BY <1>2 DEF KeysAreNamed
  <2>2. keys = {CreateKey(namespace)}
    <3> HIDE DEF namespace
    <3>1. \A x : x \in OriginsOf(source, u.callee) /\ x.is = "keys" <=>
                 x = CreateKey(namespace)
      BY <1>2, <2>1, KeysComeFrom
    <3> QED BY <3>1
  <2>3. "key" # "call" /\ "name" # "keys"
    OBVIOUS
  <2>4. Meant(source, u, v, key)
          = UNION {IF key.deferred THEN {key.key} ELSE {e.namespace \o key.key} :
                     e \in keys}
    BY <1>2, <2>3, Zenon DEF Meant
  <2>5. CreateKey(namespace).namespace = namespace
    BY DEF CreateKey
  <2> HIDE DEF keys, namespace
  <2>6. Meant(source, u, v, key) = {Means(namespace, key)}
    BY <2>2, <2>4, <2>5 DEF Means
  <2> QED BY <1>2, <2>6 DEF KeyOf, namespace
<1> QED BY <1>1, <1>2

\* What a use shows, kind by kind.
LEMMA AnswersRun ==
  ASSUME NEW u, NEW r, NEW v, NEW key, NEW registries
  PROVE  LET ran == Ran(u, r, v, key, registries)
             registry == registries[r.namespace]
         IN  /\ r = Left => ran = {}
             /\ r.kind \in {"message", "map"} =>
                  ran = IF v.what = "translator" THEN r.paths ELSE {}
             /\ r.kind = "literal" => ran = r.paths
             /\ r.kind = "dynamic" =>
                  ran = TranslateDynamicText(v, key, r.namespace, registry)
             /\ r.kind = "parse" => ran = ParseKey(key, r.namespace, registry)
             /\ r.kind = "formError" =>
                  ran = TranslateFormError(v, key, r.namespace, registry)
             /\ r.kind = "formSchema" => ran = SchemaError(key, r.namespace, registry)
<1>1. Left.kind = "left"
  BY DEF Left, Replacement
<1> QED BY <1>1, Zenon DEF Ran

\* The key that a use was given is one of its own.
Picks(u, key) == u.keys.keys # {} => key \in u.keys.keys

\* What the use calls may be v when the source runs.
Valued(source, removed, u, v) ==
  \E env \in Environments(source, removed) : v \in Evaluate(env, u.callee)

\* What the call of a variable that keeps its value shows.
CallRuns(source, u, v, key, ran) ==
  /\ u.keys.is # "finite" \/ u.op = "map" =>
       \/ ran = Meant(source, u, v, key)
       \/ ran = {} /\ Hidden(source, u.callee)
  /\ u.keys.is = "finite" /\ u.op # "map" =>
       \/ ran = Meant(source, u, v, key)
       \/ Hidden(source, u.callee)
       \/ IsStrictPrefix(v.namespace, key.key) /\ ~key.deferred

\* A call shows the message that it means (LoweredAsMeant, KeysFindTheirMessages).
LEMMA CallsRun ==
  \A source, l, u, r, removed, v, key :
    /\ ReadableSource(source) /\ Traced(source, l) /\ AllPlaced(source, l)
    /\ Unchosen(source, l) /\ Registered(l)
    /\ u \in Range(source.uses) /\ u.is = "call" /\ CallAnswered(l, u, r)
    /\ Valued(source, removed, u, v) /\ Picks(u, key)
    /\ ~Changes(source, u.callee)
    => CallRuns(source, u, v, key, Ran(u, r, v, key.key, l.registries))
<1> TAKE source, l, u, r, removed, v, key
<1> HAVE /\ ReadableSource(source) /\ Traced(source, l) /\ AllPlaced(source, l)
         /\ Unchosen(source, l) /\ Registered(l)
         /\ u \in Range(source.uses) /\ u.is = "call" /\ CallAnswered(l, u, r)
         /\ Valued(source, removed, u, v) /\ Picks(u, key)
         /\ ~Changes(source, u.callee)
<1>e. PICK env \in Environments(source, removed) : v \in Evaluate(env, u.callee)
  BY DEF Valued
<1> DEFINE ran == Ran(u, r, v, key.key, l.registries)
<1> DEFINE namespace == TextTranslator(l, u.callee)
<1>1. Usable(u) /\ Legible(u.callee)
        /\ (u.keys.is = "finite" /\ u.op # "map" => Asked(u.keys.keys))
  <2>1. Usable(u)
    BY DEF ReadableSource
  <2> QED BY <2>1 DEF Usable
<1>2. ASSUME v.what = "translator"
      PROVE  /\ Proper(namespace) => namespace = v.namespace
             /\ ~Hidden(source, u.callee) => namespace # NoNamespace
  <2>1. u.callee \in Expressions(source)
    BY DEF Expressions, PartsOf
  <2> QED BY <1>1, <1>2, <2>1, <1>e, CalleesFit DEF ReadableSource
<1> SUFFICES CallRuns(source, u, v, key, ran)
  OBVIOUS
<1> HIDE DEF ran
<1>3. CASE v.what # "translator"
  <2>1. Meant(source, u, v, key) = {}
    BY <1>3, CallsMean
  <2>2. ran = {}
    <3>1. r = Left \/ r.kind \in {"message", "map", "dynamic"}
      BY DEF CallAnswered
    <3>2. r.kind = "dynamic" =>
            ran = TranslateDynamicText(v, key.key, r.namespace,
                                       l.registries[r.namespace])
      BY AnswersRun DEF ran
    <3>3. r.kind \in {"message", "map"} \/ r = Left => ran = {}
      BY <1>3, AnswersRun DEF ran
    <3> QED BY <1>3, <3>1, <3>2, <3>3 DEF TranslateDynamicText
  <2> QED BY <2>1, <2>2 DEF CallRuns
<1>4. CASE v.what = "translator" /\ namespace = NoNamespace
  <2>1. r = Left
    BY <1>4 DEF CallAnswered, Proper
  <2>2. ran = {}
    BY <2>1, AnswersRun DEF ran
  <2> QED BY <1>2, <1>4, <2>2 DEF CallRuns
<1>5. CASE /\ v.what = "translator" /\ Proper(namespace)
           /\ r.kind = IF u.op = "map" THEN "map" ELSE "message"
           /\ u.op = "map" \/ u.keys.is = "literal"
           /\ r.paths = {namespace \o k.key : k \in u.keys.keys}
  <2>1. ran = {v.namespace \o k.key : k \in u.keys.keys}
    <3>1. ran = r.paths
      BY <1>5, AnswersRun DEF ran
    <3> QED BY <1>2, <1>5, <3>1
  <2>2. CASE u.op = "map"
    <3> DEFINE meant == {v.namespace \o k.key : k \in u.keys.keys}
    <3>1. Meant(source, u, v, key) = meant
      BY <1>5, <2>2, CallsMean, Zenon
    <3>2. ran = meant
      BY <2>1
    <3> HIDE DEF meant
    <3> QED BY <2>2, <3>1, <3>2 DEF CallRuns
  <2>3. CASE u.op # "map"
    <3>1. PICK k : u.keys.keys = {Plainly(k)}
      BY <1>1, <1>5, <2>3 DEF Usable
    <3>2. key = Plainly(k) /\ key.key = k /\ ~key.deferred
      BY <3>1 DEF Plainly, Picks
    <3>3. ran = {v.namespace \o key.key}
      BY <2>1, <3>1, <3>2
    <3>4. Meant(source, u, v, key) = {Means(v.namespace, key)}
      BY <1>5, <2>3, CallsMean
    <3>5. Means(v.namespace, key) = v.namespace \o key.key
      BY <3>2 DEF Means
    <3> QED BY <1>5, <2>3, <3>3, <3>4, <3>5 DEF CallRuns
  <2> QED BY <2>2, <2>3
<1>6. CASE /\ v.what = "translator" /\ Proper(namespace) /\ Worded(namespace)
           /\ u.op = "text" /\ u.keys.is = "finite"
           /\ r.kind = "dynamic" /\ r.namespace = namespace
           /\ Holds(l, namespace,
                    {Normalized(namespace, k.key) : k \in u.keys.keys})
  <2> DEFINE registry == l.registries[namespace]
  <2>1. ran = {Normalized(namespace, key.key)} \cap registry
    <3>1. ran = TranslateDynamicText(v, key.key, namespace, registry)
      BY <1>6, AnswersRun DEF ran
    <3> QED BY <1>6, <3>1 DEF TranslateDynamicText
  <2>2. key \in u.keys.keys /\ Told(key)
    BY <1>1, <1>6 DEF Asked, Picks
  <2>3. Normalized(namespace, key.key) \in registry
    BY <1>6, <2>2 DEF Holds
  <2>4. registry \subseteq Texts(namespace)
    BY <1>6 DEF Holds, Registered
  <2>5. Meant(source, u, v, key) = {Means(namespace, key)}
    BY <1>2, <1>6, CallsMean
  <2>6. namespace = v.namespace
    BY <1>2, <1>6
  <2> HIDE DEF registry, namespace
  <2>7. ASSUME key.deferred \/ ~IsStrictPrefix(namespace, key.key)
        PROVE  ran = {Means(namespace, key)}
    <3>1. ran = {Means(namespace, key)} \cap registry
      BY <1>6, <2>1, <2>2, <2>4, <2>7, KeysAreFound
    <3> QED BY <2>1, <2>3, <3>1
  <2> QED BY <1>6, <2>5, <2>6, <2>7 DEF CallRuns
<1> QED BY <1>3, <1>4, <1>5, <1>6 DEF CallAnswered, ran

\* What LoweredAsMeant and KeysFindTheirMessages say of one use.
AsMeant(source, u, v, key, paths) ==
  (u.is \in {"call", "key"} /\ u.keys.is # "finite") \/ u.op = "map" =>
    \/ paths = Meant(source, u, v, key)
    \/ paths = {} /\ Hidden(source, u.callee)
    \/ Changes(source, u.callee)

AsFound(source, u, v, key, paths) ==
  LET word == IF u.is = "formSchema" THEN FormPart \o key.key ELSE key.key
      namespace == IF u.is = "call" THEN v.namespace ELSE u.namespace
  IN  (u.keys.is = "finite" /\ u.op # "map") \/ u.is = "formSchema" =>
        \/ paths = Meant(source, u, v, key)
        \/ u.is = "call" /\ Hidden(source, u.callee)
        \/ u.is = "call" /\ Changes(source, u.callee)
        \/ IsStrictPrefix(namespace, word) /\ ~key.deferred

\* The call of a deferred key shows what it means.
Exactly(source, u, v, key, ran) == ran = Meant(source, u, v, key)

\* It does, whatever is in the registries.
LEMMA KeyCallsRun ==
  \A source, l, u, r, v, key, registries :
    /\ ReadableSource(source) /\ KeysAreNamed(source, l)
    /\ u \in Range(source.uses) /\ u.is = "key"
    /\ UseAnswered(l, u, r) /\ Picks(u, key)
    => Exactly(source, u, v, key, Ran(u, r, v, key.key, registries))
<1> TAKE source, l, u, r, v, key, registries
<1> HAVE /\ ReadableSource(source) /\ KeysAreNamed(source, l)
         /\ u \in Range(source.uses) /\ u.is = "key"
         /\ UseAnswered(l, u, r) /\ Picks(u, key)
<1> DEFINE ran == Ran(u, r, v, key.key, registries)
<1>1. Usable(u)
  BY DEF ReadableSource
<1>2. /\ r.kind = "literal" /\ u.keys.is = "literal"
      /\ r.paths = {KeyOf(l, u) \o k.key : k \in u.keys.keys}
  BY DEF UseAnswered
<1>3. PICK k : u.keys.keys = {Plainly(k)}
  BY <1>1, <1>2 DEF Usable
<1>4. key = Plainly(k) /\ key.key = k /\ ~key.deferred
  BY <1>3 DEF Plainly, Picks
<1>5. ran = r.paths
  BY <1>2, AnswersRun
<1>6. ran = {KeyOf(l, u) \o k}
  BY <1>2, <1>3, <1>4, <1>5
<1>7. u.callee.is \in {"keys", "name"}
  BY <1>1 DEF Usable
<1>8. Meant(source, u, v, key) = {Means(KeyOf(l, u), key)}
  BY <1>7, KeysMean
<1>9. Means(KeyOf(l, u), key) = KeyOf(l, u) \o k
  BY <1>4 DEF Means
<1> QED BY <1>6, <1>8, <1>9 DEF Exactly

\* What parsers and forms find is what they mean.
LEMMA FormsRun ==
  ASSUME NEW source, ReadableSource(source), NEW l, Registered(l),
         NEW u \in Range(source.uses), u.is \in {"parse", "formError", "formSchema"},
         NEW r, UseAnswered(l, u, r), NEW removed,
         NEW env \in Environments(source, removed), NEW v \in Evaluate(env, u.callee),
         NEW key, u.keys.keys # {} => key \in u.keys.keys,
         NEW ran, ran = Ran(u, r, v, key.key, l.registries)
  PROVE  AsFound(source, u, v, key, ran)
<1> DEFINE namespace == u.namespace
           registry == l.registries[namespace]
           form == namespace \o FormPart
<1>1. /\ r.kind = u.is /\ r.namespace = namespace
      /\ namespace \in DOMAIN l.registries /\ FormPaths(u) \subseteq registry
      /\ u.keys.is # "wide"
  BY DEF UseAnswered, Holds
<1>2. Usable(u) /\ (u.is = "formError" => u.callee = Name("t") /\ Usual(source))
  BY DEF ReadableSource
<1>3. Worded(namespace) /\ Told(key) /\ (u.is = "formSchema" => ~key.deferred)
  BY <1>1, <1>2 DEF Usable, Asked
<1>4. registry \subseteq Texts(namespace)
  BY <1>1 DEF Registered
<1>5. u.is # "parse" => 
        FormPaths(u) = {p \in Texts(namespace) : IsStrictPrefix(form, p)}
  BY <1>3, FormTexts DEF FormPaths
<1>6. FormPaths(u) \subseteq Texts(namespace)
  BY <1>1, <1>4
<1> HIDE DEF namespace, registry, form
<1>7. CASE u.is = "parse"
  <2>1. ran = {Normalized(namespace, key.key)} \cap registry
    BY <1>1, <1>7, AnswersRun DEF ParseKey, registry
  <2>2. registry = FormPaths(u)
    BY <1>1, <1>4, <1>7 DEF FormPaths, namespace
  <2>3. Meant(source, u, v, key) = {Means(namespace, key)} \cap FormPaths(u)
    BY <1>7, ParsersMean, Zenon DEF namespace
  <2>4. key.deferred \/ ~IsStrictPrefix(namespace, key.key) =>
          ran = Meant(source, u, v, key)
    BY <1>3, <1>4, <2>1, <2>2, <2>3, KeysAreFound
  <2> QED BY <1>7, <2>4 DEF AsFound, namespace
<1>8. CASE u.is = "formError"
  <2>1. ran = TranslateFormError(v, key.key, namespace, registry)
    BY <1>1, <1>8, AnswersRun DEF registry
  <2>2. v.what = "translator"
    BY <1>2, <1>8, UsualTranslates
  <2> DEFINE path == Normalized(namespace, key.key)
  <2>3. ran = IF \E p \in {path} \cap registry : IsStrictPrefix(form, p)
              THEN {path} \cap registry ELSE {}
    BY <2>1, <2>2, Zenon DEF TranslateFormError, TranslateDynamicText, ParseKey, form
  <2> HIDE DEF path
  <2>4. ran = {path} \cap FormPaths(u)
    <3>1. FormPaths(u) = {p \in registry : IsStrictPrefix(form, p)}
      BY <1>1, <1>4, <1>5, <1>8
    <3> QED BY <2>3, <3>1
  <2>5. Meant(source, u, v, key) = {Means(namespace, key)} \cap FormPaths(u)
    BY <1>8, FormErrorsMean, Zenon DEF namespace
  <2>6. key.deferred \/ ~IsStrictPrefix(namespace, key.key) =>
          ran = Meant(source, u, v, key)
    BY <1>3, <1>6, <2>4, <2>5, KeysAreFound DEF path
  <2> QED BY <1>8, <2>6 DEF AsFound, namespace
<1>9. CASE u.is = "formSchema"
  <2> DEFINE word == FormPart \o key.key
             path == Normalized(namespace, word)
  <2>1. ran = SchemaError(key.key, namespace, registry)
    BY <1>1, <1>9, AnswersRun DEF registry
  <2>2. ran = {p \in {path} \cap registry : IsStrictPrefix(form, p)}
    BY <2>1, Zenon DEF SchemaError, ParseKey, form
  <2> HIDE DEF path
  <2>3. ran = {path} \cap FormPaths(u)
    <3>1. FormPaths(u) = {p \in registry : IsStrictPrefix(form, p)}
      BY <1>1, <1>4, <1>5, <1>9
    <3> QED BY <2>2, <3>1
  <2>4. Meant(source, u, v, key) = {form \o key.key} \cap FormPaths(u)
    BY <1>9, SchemasMean, Zenon DEF form, namespace
  <2>5. form \o key.key = namespace \o word
    <3>1. Worded(FormPart) /\ Worded(key.key)
      BY <1>3, FormPartIsWorded DEF Told
    <3>2. /\ namespace \in Seq(Words) /\ FormPart \in Seq(Words)
          /\ key.key \in Seq(Words)
      BY <1>3, <3>1 DEF Worded
    <3> HIDE DEF Words
    <3>3. \A a, b, c \in Seq(Words) : (a \o b) \o c = a \o (b \o c)
      BY ConcatAssociative
    <3> QED BY <3>2, <3>3 DEF form
  <2>6. ~IsStrictPrefix(namespace, word) => ran = Meant(source, u, v, key)
    <3> HIDE DEF word
    <3> QED BY <2>3, <2>4, <2>5 DEF path, Normalized
  <2> QED BY <1>3, <1>9, <2>6 DEF AsFound, namespace
<1> QED BY <1>7, <1>8, <1>9

\* Whatever the use is, it shows what it means.
LEMMA UsesRun ==
  ASSUME NEW source, ReadableSource(source), NEW l, Analysis(l),
         SoundPhase(source, l), l.at \in {"skipped", "untouched", "lowered"},
         NEW n \in DOMAIN source.uses, NEW u, u = source.uses[n],
         NEW r, r = IF n \in DOMAIN l.replaced THEN l.replaced[n] ELSE Left,
         NEW removed, NEW env \in Environments(source, removed),
         NEW v \in Evaluate(env, u.callee),
         NEW key, u.keys.keys # {} => key \in u.keys.keys,
         NEW ran, ran = Ran(u, r, v, key.key, l.registries)
  PROVE  AsMeant(source, u, v, key, ran) /\ AsFound(source, u, v, key, ran)
<1>1. /\ Traced(source, l) /\ AllPlaced(source, l) /\ Unchosen(source, l)
      /\ KeysAreNamed(source, l) /\ Registered(l) /\ UseAnswered(l, u, r)
  BY RunsWithAnswers
<1>2. u \in Range(source.uses) /\ Usable(u)
  BY DEF Range, ReadableSource
<1>3. CASE u.is = "call"
  <2>1. CallAnswered(l, u, r)
    BY <1>1, <1>3 DEF UseAnswered
  <2>2. CASE Changes(source, u.callee)
    BY <1>3, <2>2 DEF AsMeant, AsFound
  <2>3. CASE ~Changes(source, u.callee)
    <3>1. Valued(source, removed, u, v) /\ Picks(u, key)
      BY DEF Valued, Picks
    <3>2. CallRuns(source, u, v, key, ran)
      BY <1>1, <1>2, <1>3, <2>1, <2>3, <3>1, CallsRun, Zenon
    <3> QED BY <1>3, <3>2 DEF AsMeant, AsFound, CallRuns
  <2> QED BY <2>2, <2>3
<1>4. CASE u.is = "key"
  <2>1. Picks(u, key)
    BY DEF Picks
  <2>2. Exactly(source, u, v, key, ran)
    BY <1>1, <1>2, <1>4, <2>1, KeyCallsRun, Zenon
  <2> QED BY <1>4, <2>2 DEF AsMeant, AsFound, Exactly
<1>5. CASE u.is \in {"parse", "formError", "formSchema"}
  <2>1. AsFound(source, u, v, key, ran)
    BY <1>1, <1>2, <1>5, FormsRun
  <2>2. u.op # "map"
    BY <1>2, <1>5 DEF Usable
  <2> QED BY <1>5, <2>1, <2>2 DEF AsMeant
<1>6. CASE u.is = "refer"
  <2>1. u.op # "map" /\ u.keys.is = "wide"
    BY <1>2, <1>6 DEF Usable
  <2> QED BY <1>6, <2>1 DEF AsMeant, AsFound
<1>7. u.is \in {"call", "key", "parse", "formError", "formSchema", "refer"}
  BY <1>2 DEF Usable
<1> QED BY <1>3, <1>4, <1>5, <1>6, <1>7

\* When the source runs, all of its uses do.
LEMMA RunShowsWhatIsMeant ==
  ASSUME SoundInv, Run
  PROVE  LoweredAsMeant' /\ KeysFindTheirMessages'
<1>1. program # NoSource
  <2>1. NoSource.reader = "none"
    BY DEF NoSource
  <2> QED BY <2>1 DEF Run
<1>2. /\ ReadableSource(program) /\ Analysis(lowering)
      /\ SoundPhase(program, lowering)
  BY <1>1 DEF SoundInv
<1>3. /\ lowering.at \in {"skipped", "untouched", "lowered"}
      /\ program' = program
  BY DEF Run
<1> DEFINE Answer(n) == IF n \in DOMAIN lowering.replaced
                        THEN lowering.replaced[n] ELSE Left
           Chosen(env, n) == CHOOSE x \in Evaluate(env, program.uses[n].callee) : TRUE
<1>env. PICK env \in Environments(program, Removed) : \E keys :
         /\ \A n \in DOMAIN program.uses :
              IF program.uses[n].keys.keys = {} THEN keys[n] = Plainly(Root)
              ELSE keys[n] \in program.uses[n].keys.keys
         /\ shown' = [n \in DOMAIN program.uses |->
              [value |-> Chosen(env, n), key |-> keys[n],
               paths |-> Ran(program.uses[n], Answer(n), Chosen(env, n),
                             keys[n].key, lowering.registries)]]
  BY Zenon DEF Run
<1>4. PICK keys :
        /\ \A n \in DOMAIN program.uses :
             IF program.uses[n].keys.keys = {} THEN keys[n] = Plainly(Root)
             ELSE keys[n] \in program.uses[n].keys.keys
        /\ shown' = [n \in DOMAIN program.uses |->
             [value |-> Chosen(env, n), key |-> keys[n],
              paths |-> Ran(program.uses[n], Answer(n), Chosen(env, n),
                            keys[n].key, lowering.registries)]]
  BY <1>env, Zenon
<1>5. ASSUME NEW n \in DOMAIN shown'
      PROVE  LET s == (shown')[n]
             IN  /\ AsMeant(program, program.uses[n], s.value, s.key, s.paths)
                 /\ AsFound(program, program.uses[n], s.value, s.key, s.paths)
  <2> DEFINE u == program.uses[n]
             v == Chosen(env, n)
             r == Answer(n)
             ran == Ran(u, r, v, keys[n].key, lowering.registries)
  <2>1. n \in DOMAIN program.uses
    BY <1>4, <1>5
  <2>2. v \in Evaluate(env, u.callee)
    BY SomeValue
  <2>3. u.keys.keys # {} => keys[n] \in u.keys.keys
    BY <1>4, <2>1
  <2>4. (shown')[n] = [value |-> v, key |-> keys[n], paths |-> ran]
    BY <1>4, <2>1
  <2>5. r = IF n \in DOMAIN lowering.replaced THEN lowering.replaced[n] ELSE Left
    OBVIOUS
  <2> HIDE DEF v, r
  <2>6. AsMeant(program, u, v, keys[n], ran) /\ AsFound(program, u, v, keys[n], ran)
    BY <1>2, <1>3, <2>1, <2>2, <2>3, <2>5, UsesRun
  <2> QED BY <2>4, <2>6
<1>6. LoweredAsMeant'
  BY <1>3, <1>5 DEF LoweredAsMeant, AsMeant
<1>7. KeysFindTheirMessages'
  BY <1>3, <1>5 DEF KeysFindTheirMessages, AsFound
<1> QED BY <1>6, <1>7

\* Nothing has been found before there is a source.
LEMMA SoundBegins == LoweringInit => SoundInv
BY DEF LoweringInit, SoundInv

\* It holds while nothing happens.
LEMMA SoundStutters == SoundInv /\ UNCHANGED lowered => SoundInv'
<1> SUFFICES ASSUME SoundInv, UNCHANGED lowered PROVE SoundInv'
  OBVIOUS
<1>1. program' = program /\ lowering' = lowering /\ shown' = shown
  BY DEF lowered
<1> QED BY <1>1 DEF SoundInv

\* What each use showed is what it means.
Shows == LoweredAsMeant /\ KeysFindTheirMessages

\* What has been shown stays, and what a run shows is what is meant.
LEMMA ShowsStays ==
  ASSUME SoundInv, Shows, [LoweringNext]_lowered
  PROVE  Shows'
<1>1. CASE program' = program /\ shown' = shown
  BY <1>1, Zenon DEF Shows, LoweredAsMeant, KeysFindTheirMessages
<1>2. CASE Run
  BY <1>2, RunShowsWhatIsMeant DEF Shows
<1>3. CASE BeginLowering
  <2>1. shown' = << >> /\ DOMAIN << >> = {}
    BY <1>3 DEF BeginLowering, SoundInv
  <2> QED BY <2>1 DEF Shows, LoweredAsMeant, KeysFindTheirMessages
<1>4. CASE LoweringNext /\ ~Run /\ ~BeginLowering
  <2>1. \E next : LoweringStep(next)
    BY <1>4, Zenon
    DEF LoweringNext, Preflight, BindTranslationKeys, BindNames,
        RefuseWrapperHooks, VisitCall, VisitKeyCall, VisitParser, VisitFormErrors,
        VisitFormSchema, VisitReference, ValidateReferences
  <2> QED BY <1>1, <2>1 DEF LoweringStep
<1>5. CASE UNCHANGED lowered
  BY <1>1, <1>5 DEF lowered
<1> QED BY <1>2, <1>3, <1>4, <1>5

\* In every phase, each name that the analysis has bound is traced to what it was
\* declared with, and each use that it has visited has a replacement that follows
\* from what is bound; and what a source has shown is what it means (analyzeSource).
THEOREM SoundnessInvariant == LoweringSpec => [](SoundInv /\ Shows)
<1>1. LoweringInit => SoundInv /\ Shows
  <2>1. LoweringInit => shown = << >> /\ DOMAIN << >> = {}
    BY DEF LoweringInit
  <2>2. LoweringInit => Shows
    BY <2>1 DEF Shows, LoweredAsMeant, KeysFindTheirMessages
  <2> QED BY <2>2, SoundBegins
<1>2. LoweringInv /\ SoundInv /\ Shows /\ [LoweringNext]_lowered =>
        (SoundInv /\ Shows)'
  <2>1. LoweringInv /\ SoundInv /\ [LoweringNext]_lowered => SoundInv'
    BY StepsAreSound, SoundStutters
  <2> QED BY <2>1, ShowsStays
<1> QED BY <1>1, <1>2, LoweringInvariant, PTL DEF LoweringSpec

\* Whatever translator a call has when the source runs, the lowered call shows the
\* message that its literal key names under it: never one of another namespace,
\* unless a variable on the way is declared twice or assigned, and none only if the
\* translator comes from where the analysis does not look
\* (transform.ts:6366-6485, 7211-7285).
THEOREM LoweringIsSound == LoweringSpec => []LoweredAsMeant
<1>1. Shows => LoweredAsMeant
  BY DEF Shows
<1> QED BY <1>1, SoundnessInvariant, PTL

\* A key that is known only when the source runs finds in the registry of its
\* namespace the message that it would name as a literal, whatever else uses that
\* registry; so do parsers and forms, which find no other; unless the key begins
\* with the namespace, and is taken for a whole path
\* (transform.ts:6800, translations.ts:320, 507).
THEOREM KeysAreFoundAtRunTime == LoweringSpec => []KeysFindTheirMessages
<1>1. Shows => KeysFindTheirMessages
  BY DEF Shows
<1> QED BY <1>1, SoundnessInvariant, PTL
=============================================================================
