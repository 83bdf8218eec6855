----------------------- MODULE ClassifierTransaction -----------------------
(***************************************************************************)
(* A workspace transaction of the classifier: concurrent authorizations of *)
(* project owners, their finalization, and the last look at the files      *)
(* before what they justify is committed                                   *)
(* (packages/compiler/src/classifier-candidate.ts).                        *)
(*                                                                         *)
(* A caller seals the bytes of an owner and asks for an authority.  Owners *)
(* that ask for the same input share one classification; one that asks     *)
(* with another input in the same scope is refused.  Whatever fails        *)
(* poisons the transaction.  Under a publication barrier the caller        *)
(* answers for its own bytes, with one fingerprint immediately before the  *)
(* commit, and the transaction answers for the rest.                       *)
(*                                                                         *)
(* Abstractions: a file family stands for its version: the sources and the *)
(* project controls of an owner, the frontier the classifier read (links,  *)
(* manifests, probes, real paths), the generated facade; a hash stands for *)
(* what is hashed; one step reads one family.                              *)
(***************************************************************************)
EXTENDS Naturals, FiniteSets

CONSTANTS Owners, Calls, MaxFileEdits  \* bound on the edits of files

ASSUME TransactionConstants == MaxFileEdits \in Nat

VARIABLES
  barrier,     \* is there a publication barrier
  files,       \* the versions of the file families
  calls,       \* the authorize calls: their step, and with it the sealed
               \* input, then the identity, then the authority
  scopes,      \* inputByScope: the identities, one per scope
  built,       \* byInput: the classifications, running or ended
  completed,   \* the authorities that were handed out
  phase,       \* "open", "finalizing", "finalized", "poisoned"
  failure,     \* did anything fail
  final,       \* what was finalized: no set of authorities yet, or one
  validation,  \* the validation under way: for whom, and what is left
  seen         \* history: the versions since the committer began

transaction == <<scopes, built, completed, phase, failure, final>>
classified == <<barrier, files, calls, transaction, validation, seen>>

Unsealed == [at |-> "new"]
NoValidation == [of |-> "none", left |-> {}, now |-> {}]

TransactionInit ==
  /\ barrier \in BOOLEAN
  /\ files = [source |-> [o \in Owners |-> 0], control |-> [o \in Owners |-> 0],
              frontier |-> [o \in Owners |-> 0], facade |-> 0]
  /\ calls = [c \in Calls |-> Unsealed]
  /\ scopes = {} /\ built = {} /\ completed = {}
  /\ phase = "open" /\ failure = FALSE /\ final = {}
  /\ validation = NoValidation
  /\ seen = {}

Edited == files.facade
  + Cardinality({f \in {"source", "control", "frontier"} \X Owners :
                   files[f[1]][f[2]] = 1})

\* Somebody edits a file while the transaction runs.
EditFile ==
  /\ Edited < MaxFileEdits
  /\ \/ \E k \in {"source", "control", "frontier"}, o \in Owners :
          files[k][o] = 0 /\ files' = [files EXCEPT ![k][o] = 1]
     \/ files.facade = 0 /\ files' = [files EXCEPT !.facade = 1]
  /\ seen' = IF validation.of \in {"fingerprint", "commit"}
             THEN seen \cup {files'} ELSE seen
  /\ UNCHANGED <<barrier, calls, transaction, validation>>

----------------------------------------------------------------------------
(* authorize                                                               *)

Poison == failure' = TRUE /\ phase' = "poisoned"
Step(c, next) == calls' = [calls EXCEPT ![c] = next]
Active == {c \in Calls : calls[c].at \in {"identify", "await", "recheck"}}

Fail(c) ==
  /\ Step(c, [at |-> "failed"])
  /\ Poison
  /\ UNCHANGED <<scopes, built, completed, final>>

\* The caller has read the bytes of an owner.
SealAuthorityInput(c, o) ==
  /\ calls[c].at = "new"
  /\ Step(c, [at |-> "sealed", owner |-> o, source |-> files.source[o],
              control |-> files.control[o]])
  /\ UNCHANGED <<barrier, files, transaction, validation, seen>>

\* Only an open transaction takes the call; a refusal poisons nothing.
AuthorizeOwner(c) ==
  /\ calls[c].at = "sealed"
  /\ Step(c, [calls[c] EXCEPT !.at =
                IF phase = "open" THEN "identify" ELSE "failed"])
  /\ UNCHANGED <<barrier, files, transaction, validation, seen>>

Scope(x) == [owner |-> x.owner, control |-> x.control]
Started(id) == [id |-> id, state |-> "reading", frontier |-> 0]
Identity(x, facade) ==
  [owner |-> x.owner, source |-> x.source, control |-> x.control,
   facade |-> facade]
InputCurrent(x) ==
  x.source = files.source[x.owner] /\ x.control = files.control[x.owner]

\* authorityInputIdentity: without a barrier the sealed bytes must still be
\* the files'.  Then the identity joins the classification of the same input
\* or starts one, unless its scope was asked for with another input.
Identify(c) ==
  LET x == calls[c]
      id == Identity(x, IF barrier THEN 0 ELSE files.facade)
  IN  /\ x.at = "identify"
      /\ IF \/ ~barrier /\ ~InputCurrent(x)
            \/ \E s \in scopes : Scope(s) = Scope(id) /\ s # id
         THEN Fail(c)
         ELSE /\ Step(c, [at |-> "await", id |-> id])
              /\ scopes' = scopes \cup {id}
              /\ built' = IF \E b \in built : b.id = id THEN built
                         ELSE built \cup {Started(id)}
              /\ UNCHANGED <<completed, phase, failure, final>>
      /\ UNCHANGED <<barrier, files, validation, seen>>

\* buildAuthority: the checkpoint observes the frontier, or is refused.
BuildAuthority(b) ==
  /\ b.state = "reading"
  /\ \E outcome \in {"built", "refused"} :
       built' = (built \ {b}) \cup
         {[id |-> b.id, state |-> outcome,
           frontier |-> files.frontier[b.id.owner]]}
  /\ UNCHANGED <<barrier, files, calls, scopes, completed, phase, failure,
                 final, validation, seen>>

\* Without a barrier the identity is taken once more when the build ended.
Verify(c) ==
  LET x == calls[c] IN
  /\ x.at = "await"
  /\ \E b \in built :
       /\ b.id = x.id /\ b.state # "reading"
       /\ IF \/ b.state = "refused"
             \/ ~barrier /\ ~(InputCurrent(x.id) /\ files.facade = x.id.facade)
          THEN Fail(c)
          ELSE /\ Step(c, [at |-> "recheck", authority |-> b])
               /\ UNCHANGED transaction
  /\ UNCHANGED <<barrier, files, validation, seen>>

ProjectionCurrent(b) ==
  b.frontier = files.frontier[b.id.owner] /\ b.id.facade = files.facade

\* assertProjectionStillCurrent, then the authority is handed out.
Complete(c) ==
  LET x == calls[c] IN
  /\ x.at = "recheck"
  /\ IF ~ProjectionCurrent(x.authority)
     THEN Fail(c)
     ELSE /\ Step(c, [at |-> "done", authority |-> x.authority])
          /\ completed' = completed \cup {x.authority}
          /\ UNCHANGED <<scopes, built, phase, failure, final>>
  /\ UNCHANGED <<barrier, files, validation, seen>>

\* assertMiraiIntlClassifierTransactionAuthorityV3: using an authority after
\* the transaction has closed poisons it.
UseAuthority(c) ==
  /\ calls[c].at = "done" /\ phase # "open"
  /\ Step(c, [at |-> "used", authority |-> calls[c].authority])
  /\ Poison
  /\ UNCHANGED <<barrier, files, scopes, built, completed, final, validation,
                 seen>>

----------------------------------------------------------------------------
(* finalize, and the revalidation of the committer                          *)

Finalize ==
  /\ phase = "open" /\ ~failure
  /\ phase' = "finalizing"
  /\ UNCHANGED <<barrier, files, calls, scopes, built, completed, failure,
                 final, validation, seen>>

OwnersOnce(set) == \A a, b \in set : a.id.owner = b.id.owner => a = b

\* Mutant: the authorizations under way are not waited for.
BeginFinalizationAtOnce ==
  /\ phase = "finalizing" /\ validation = NoValidation /\ final = {}
  /\ IF failure \/ ~OwnersOnce(completed)
     THEN Poison /\ UNCHANGED validation
     ELSE /\ validation' = [NoValidation EXCEPT !.of = "finalize",
                                                !.left = completed]
          /\ UNCHANGED <<phase, failure>>
  /\ UNCHANGED <<barrier, files, calls, scopes, built, completed, final, seen>>

\* Finalization waits for the authorizations under way; an owner may have
\* been authorized in one scope only.
BeginFinalization ==
  /\ phase = "finalizing" /\ validation = NoValidation /\ final = {}
  /\ Active = {}
  /\ IF failure \/ ~OwnersOnce(completed)
     THEN Poison /\ UNCHANGED validation
     ELSE /\ validation' = [NoValidation EXCEPT !.of = "finalize",
                                                !.left = completed]
          /\ UNCHANGED <<phase, failure>>
  /\ UNCHANGED <<barrier, files, calls, scopes, built, completed, final, seen>>

Finalized == UNION final

\* The committer holds what was finalized; under a barrier it compares its
\* own bytes first.
BeginCommit ==
  /\ phase = "finalized" /\ ~failure
  /\ validation = NoValidation
  /\ validation' = IF barrier THEN [NoValidation EXCEPT !.of = "fingerprint"]
                   ELSE [NoValidation EXCEPT !.of = "commit", !.left = Finalized]
  /\ seen' = {files}
  /\ UNCHANGED <<barrier, files, calls, transaction>>

VerifyFingerprint ==
  /\ validation.of = "fingerprint"
  /\ validation' =
       IF files.facade = 0 /\ \A a \in Finalized : InputCurrent(a.id)
       THEN [NoValidation EXCEPT !.of = "commit", !.left = Finalized]
       ELSE [NoValidation EXCEPT !.of = "ended"]
  /\ UNCHANGED <<barrier, files, calls, transaction, seen>>

StaleAuthority ==
  /\ Poison
  /\ validation' = [NoValidation EXCEPT !.of = "ended"]

\* validateFinalizedTransactionState takes one authority after the other:
\* its input, live unless the caller answers for it,
ValidateInput(a) ==
  /\ validation.now = {} /\ a \in validation.left
  /\ IF ~barrier /\ ~(InputCurrent(a.id) /\ a.id.facade = files.facade)
     THEN StaleAuthority
     ELSE /\ validation' = [validation EXCEPT !.now = {a}]
          /\ UNCHANGED <<phase, failure>>
  /\ UNCHANGED <<barrier, files, calls, scopes, built, completed, final, seen>>

\* then its projection, live unless a barrier finalizes.
ValidateProjection(a) ==
  /\ a \in validation.now
  /\ IF ~(barrier /\ validation.of = "finalize") /\ ~ProjectionCurrent(a)
     THEN StaleAuthority
     ELSE /\ validation' = [validation EXCEPT !.now = {}, !.left = @ \ {a}]
          /\ UNCHANGED <<phase, failure>>
  /\ UNCHANGED <<barrier, files, calls, scopes, built, completed, final, seen>>

\* What was finalized stays so, though a late use poisons the transaction.
EndValidation ==
  /\ validation.of \in {"finalize", "commit"} /\ validation.left = {}
  /\ IF validation.of = "finalize"
     THEN /\ final' = {completed} /\ phase' = "finalized"
          /\ validation' = NoValidation
     ELSE /\ validation' = [NoValidation EXCEPT !.of = "committed"]
          /\ UNCHANGED <<final, phase>>
  /\ UNCHANGED <<barrier, files, calls, scopes, built, completed, failure, seen>>

TransactionNext ==
  \/ EditFile
  \/ \E c \in Calls :
       \/ \E o \in Owners : SealAuthorityInput(c, o)
       \/ AuthorizeOwner(c) \/ Identify(c) \/ Verify(c) \/ Complete(c)
       \/ UseAuthority(c)
  \/ \E b \in built : BuildAuthority(b)
  \/ Finalize \/ BeginFinalization \/ BeginCommit \/ VerifyFingerprint
  \/ \E a \in completed : ValidateInput(a) \/ ValidateProjection(a)
  \/ EndValidation

TransactionSpec == TransactionInit /\ [][TransactionNext]_classified

----------------------------------------------------------------------------
(* What is finalized is one authority for each owner, and every authority  *)
(* anybody was handed is among them, however the calls overlapped          *)
(* (classifier-candidate.ts:541-596, 691-849).  A commit follows a moment, *)
(* after the committer began, at which the bytes of an owner were those    *)
(* classified, one at which its frontier was, and one at which the facade  *)
(* was: no edit during the run, and no sharing of classifications, lets an *)
(* older decision through (classifier-candidate.ts:600-654, under a        *)
(* barrier proof.ts's fingerprint too).                                    *)
HandedOutThenCommitted ==
  /\ \A authorities \in final :
       /\ OwnersOnce(authorities)
       /\ \A c \in Calls :
            calls[c].at \in {"done", "used"}
              => calls[c].authority \in authorities
  /\ validation.of = "committed" =>
       \A a \in Finalized :
         /\ \E f \in seen : /\ f.source[a.id.owner] = a.id.source
                            /\ f.control[a.id.owner] = a.id.control
         /\ \E f \in seen : f.frontier[a.id.owner] = a.frontier
         /\ \E f \in seen : f.facade = a.id.facade
============================================================================
