------------------------- MODULE MCI18nextProvider -------------------------
(***************************************************************************)
(* Small instances of I18nextProvider.                                     *)
(***************************************************************************)
EXTENDS I18nextProvider, TLC

=============================================================================
