------------------------ MODULE MCCollectionStorage ------------------------
(* Instances of CollectionStorage for TLC.                                 *)
EXTENDS CollectionStorage, TLC

Symmetry == Permutations(Services) \cup Permutations(Deleters) \cup Permutations(Tasks)
=============================================================================
