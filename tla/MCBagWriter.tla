---------------------------- MODULE MCBagWriter ----------------------------
(* Instances of BagWriter for TLC.                                         *)
EXTENDS BagWriter

CONSTANTS image, pose

\* An image is large and a pose is small.
MCSize == [t \in Topics |-> IF t = image THEN 2 ELSE 1]
=============================================================================
