------------------------ MODULE MCComponentManager --------------------------
(* Instances of ComponentManager for TLC.                                  *)
EXTENDS ComponentManager
=============================================================================
