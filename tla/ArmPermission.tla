--------------------------- MODULE ArmPermission ---------------------------
(***************************************************************************)
(* What the generations of the teleoperation node promise its operator: a  *)
(* confirmed pause voids every request to enable that was made before it.  *)
(* The arm follows the tracker only after a request that no pause voided.  *)
(***************************************************************************)
CONSTANT Requests

VARIABLES following,  \* the arm follows the tracker
          asked,      \* the requests to enable made so far
          void        \* those of them a confirmed pause came after

Init == /\ following = FALSE
        /\ asked = {}
        /\ void = {}

Ask(t) == /\ t \notin void
          /\ asked' = asked \cup {t}
          /\ UNCHANGED <<following, void>>

Follow == /\ \E t \in asked : t \notin void
          /\ following' = TRUE
          /\ UNCHANGED <<asked, void>>

\* A pause that is confirmed, by an answer or by the state the node publishes.
Pause == /\ following' = FALSE
         /\ void' = asked
         /\ UNCHANGED asked

\* The arm also stops when the node dies or cannot write its generation.
Halt == /\ following' = FALSE
        /\ UNCHANGED <<asked, void>>

Next == (\E t \in Requests : Ask(t)) \/ Follow \/ Pause \/ Halt

Spec == Init /\ [][Next]_<<following, asked, void>>
=============================================================================
