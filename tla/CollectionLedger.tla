------------------------- MODULE CollectionLedger -------------------------
(***************************************************************************)
(* What the collection service promises its operator, whatever runs at the *)
(* same time and whatever fails: an unsaved collection is either saved,    *)
(* once and whole, or dropped; a saved one can only be moved into the      *)
(* recycle area; and what it answers was so when it answered.            *)
(***************************************************************************)
CONSTANT Collections

VARIABLES record,  \* what became of each collection
          told     \* what completed requests reported of it

Init ==
  /\ record = [c \in Collections |-> "absent"]
  /\ told = [c \in Collections |-> {}]

Begin(c) ==
  /\ record[c] = "absent"
  /\ record' = [record EXCEPT ![c] = "unsaved"]
  /\ UNCHANGED told

Save(c) ==
  /\ record[c] = "unsaved"
  /\ record' = [record EXCEPT ![c] = "saved"]
  /\ UNCHANGED told

\* Several at once when the service starts again.
Drop(S) ==
  /\ \A c \in S : record[c] = "unsaved"
  /\ record' = [c \in Collections |-> IF c \in S THEN "dropped" ELSE record[c]]
  /\ UNCHANGED told

\* A record in the recycle area was saved before.
Facts(c) == CASE record[c] = "saved"   -> {"saved"}
              [] record[c] = "dropped" -> {"cancelled"}
              [] record[c] = "trash"   -> {"saved", "deleted"}
              [] OTHER                 -> {}

Answer(c) ==
  /\ \E what \in Facts(c) : told' = [told EXCEPT ![c] = @ \cup {what}]
  /\ UNCHANGED record

Delete(c) ==
  /\ record[c] = "saved"
  /\ record' = [record EXCEPT ![c] = "trash"]
  /\ UNCHANGED told

Next ==
  \/ \E c \in Collections : Begin(c) \/ Save(c) \/ Answer(c) \/ Delete(c)
  \/ \E S \in SUBSET Collections : Drop(S)

Spec == Init /\ [][Next]_<<record, told>>
=============================================================================
