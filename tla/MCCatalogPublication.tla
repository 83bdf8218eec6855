----------------------- MODULE MCCatalogPublication -----------------------
(***************************************************************************)
(* A small instance of CatalogPublication: four generation inputs, of      *)
(* which two generate the same payload and the others one of their own.    *)
(***************************************************************************)
EXTENDS CatalogPublication, TLC

CONSTANTS g1, g2, g3, g4, d1, d2, d3

DirOf == g1 :> d1 @@ g2 :> d1 @@ g3 :> d2 @@ g4 :> d3

=============================================================================
