------------------------- MODULE MCCollectionPanel -------------------------
(* Instances of CollectionPanel for TLC.                                   *)
EXTENDS CollectionPanel
=============================================================================
