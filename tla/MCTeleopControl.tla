-------------------------- MODULE MCTeleopControl --------------------------
(* Instances of TeleopControl for TLC.                                     *)
EXTENDS TeleopControl
=============================================================================
