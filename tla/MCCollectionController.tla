---------------------- MODULE MCCollectionController ----------------------
(* Instances of CollectionController for TLC.                                *)
EXTENDS CollectionController, TLC

Symmetry == Permutations(Workers)
=============================================================================
