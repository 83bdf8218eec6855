------------------------- MODULE MCPackageAuthority -------------------------
(***************************************************************************)
(* A small instance of PackageAuthority: two packages, one of them checked *)
(* by a process of its own, and a build that verifies both.  Or one        *)
(* message of such a package, from its translations to a call: the two     *)
(* share no state, so a behaviour follows one and the other rests.         *)
(***************************************************************************)
EXTENDS PackageAuthority, MessageRendering

CONSTANTS p1, p2, c1, b1, r1, r2

HomeOf == (c1 :> p1)
BuildOrder == <<p2, p1>>

\* The second version of the sources is one the other runtime rejects.
RejectedSources == {<<1, r2>>}

VARIABLE part  \* the part a behaviour follows

PackageInit ==
  /\ part \in {"authority", "message"}
  /\ Init
  /\ MessageInit

PackageNext ==
  /\ UNCHANGED part
  /\ \/ part = "authority" /\ Next /\ UNCHANGED messaged
     \/ part = "message" /\ MessageNext /\ UNCHANGED vars

PackageSpec == PackageInit /\ [][PackageNext]_<<part, vars, messaged>>

=============================================================================
