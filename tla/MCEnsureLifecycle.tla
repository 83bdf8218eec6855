------------------------- MODULE MCEnsureLifecycle -------------------------
(***************************************************************************)
(* Small instances of EnsureLifecycle.                                     *)
(***************************************************************************)
EXTENDS EnsureLifecycle, TLC

=============================================================================
