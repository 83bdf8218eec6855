------------------------- MODULE CatalogSelection -------------------------
(***************************************************************************)
(* What a generated catalog root promises whoever reads current.json and   *)
(* then the payload it names: the selected payload is installed, whole, at *)
(* every moment, once the first payload has been selected.  A payload is   *)
(* installed before it is selected and removed only while it is not;       *)
(* selecting is one step.  A checkout without builds/ begins with a        *)
(* selection that has no payload: it can be installed, or left.            *)
(***************************************************************************)
CONSTANTS Gens, Dirs, Dir, None

VARIABLES selected,   \* the generation current.json names, or None
          installed   \* the payload directories that are complete

vars == <<selected, installed>>

Init ==
  \/ selected = None /\ installed = {}
  \/ selected \in Gens /\ installed \in {{Dir[selected]}, {}}

Install(d) ==
  /\ d \notin installed
  /\ installed' = installed \cup {d}
  /\ UNCHANGED selected

Select(g) ==
  /\ Dir[g] \in installed
  /\ selected' = g
  /\ UNCHANGED installed

Deselect ==
  /\ selected # None
  /\ selected' = None
  /\ UNCHANGED installed

Remove(d) ==
  /\ d \in installed
  /\ selected # None => d # Dir[selected]
  /\ installed' = installed \ {d}
  /\ UNCHANGED selected

Next ==
  \/ \E d \in Dirs : Install(d) \/ Remove(d)
  \/ \E g \in Gens : Select(g)
  \/ Deselect

Spec == Init /\ [][Next]_vars

=============================================================================
