-------------------------- MODULE LocaleSelection --------------------------
(***************************************************************************)
(* What a locale controller promises its callers: activations are served   *)
(* one at a time in the order they were requested, each either makes its   *)
(* locale the active one or leaves the active locale alone, and once the   *)
(* controller is closed none takes effect any more.                        *)
(***************************************************************************)
EXTENDS Sequences

CONSTANTS Locales, None

VARIABLES waiting,   \* the locales requested and not served yet, in order
          active,    \* the active locale, or None
          closed     \* no further request is accepted

vars == <<waiting, active, closed>>

Init ==
  /\ waiting = <<>>
  /\ active = None
  /\ closed = FALSE

Request(l) ==
  /\ ~closed
  /\ waiting' = Append(waiting, l)
  /\ UNCHANGED <<active, closed>>

Serve ==
  /\ ~closed
  /\ waiting # <<>>
  /\ active' = Head(waiting)
  /\ waiting' = Tail(waiting)
  /\ UNCHANGED closed

\* A request that fails may be the one that closes the controller.
Refuse ==
  /\ waiting # <<>>
  /\ waiting' = Tail(waiting)
  /\ closed' \in {closed, TRUE}
  /\ UNCHANGED active

Close ==
  /\ closed' = TRUE
  /\ UNCHANGED <<waiting, active>>

Next == (\E l \in Locales : Request(l)) \/ Serve \/ Refuse \/ Close

Spec == Init /\ [][Next]_vars

=============================================================================
