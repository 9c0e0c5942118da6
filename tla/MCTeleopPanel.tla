--------------------------- MODULE MCTeleopPanel ---------------------------
(* Instances of TeleopPanel for TLC: how often each button is pressed.     *)
EXTENDS TeleopPanel

PressesOf(c, t, p, r, h, d, any) ==
  [b \in Buttons |-> CASE b = "combined" -> c [] b = "toggle" -> t [] b = "pause" -> p [] b = "any" -> any
                       [] b = "record" -> r [] b = "home" -> h [] b = "discard" -> d]

\* Any two presses in any order: a button once, or Enter twice.
PressesTwo == PressesOf(2, 1, 1, 1, 1, 1, 2)
\* Space, then S twice.
PressesPause == PressesOf(0, 1, 2, 0, 0, 0, 3)
=============================================================================
