------------------------ MODULE TeleopControlProofs ------------------------
(***************************************************************************)
(* TeleopControl: types; what the node commands while it is enabled and    *)
(* after it paused; and that its generations implement ArmPermission.      *)
(*                                                                         *)
(* The theorems hold for every number of generations and restarts, with    *)
(* writes that fail and crashes at any step.  FollowsAlone assumes that    *)
(* no result of a stopped move arrives during the next one, and the        *)
(* refinement that a file that could not be written can still be read.     *)
(***************************************************************************)
EXTENDS TeleopControl, TLAPS

LEMMA StagesAre == Stages \subseteq {"none", "begun", "done"}
  BY DEF Stages

-----------------------------------------------------------------------------
(* Types *)

\* Writing a generation keeps the types of the file and of the memory.
LEMMA PersistTypes ==
  ASSUME TypeOK, NEW g \in Nat, NEW op \in Operations, NEW ok \in BOOLEAN, NEW stage \in Stages,
         Persist(g, op, ok, stage)
  PROVE  disk' \in Records /\ record' \in Records /\ fault' \in BOOLEAN
<1>1. Pending(g, op) \in Records /\ Ended(g, op, ok) \in Records
  BY DEF Pending, Ended, Records
<1>2. disk \in Records /\ fault \in BOOLEAN
  BY DEF TypeOK
<1>. QED  BY <1>1, <1>2, StagesAre DEF Persist, FailedWrite

\* One field of the node at a time.
LEMMA NodeFields ==
  ASSUME NEW n \in Nodes
  PROVE  /\ \A b \in BOOLEAN : /\ [n EXCEPT !.enabled = b] \in Nodes
                               /\ [n EXCEPT !.referenced = b] \in Nodes
                               /\ [n EXCEPT !.basis = b] \in Nodes
                               /\ [n EXCEPT !.feedback = b] \in Nodes
                               /\ [n EXCEPT !.held = b] \in Nodes
         /\ \A h \in {"no", "quiet", "moving"} : [n EXCEPT !.homing = h] \in Nodes
         /\ \A i \in {0, 1, 2} : [n EXCEPT !.samples = i] \in Nodes
  BY DEF Nodes

LEMMA BlankTypes == Blank \in Nodes
  BY DEF Blank, Nodes

LEMMA StartedTypes == \A b \in BOOLEAN : Started(b) \in Nodes
  BY BlankTypes, NodeFields, Zenon DEF Started

LEMMA DisabledTypes ==
  ASSUME NEW n \in Nodes
  PROVE  Disabled(n) \in Nodes /\ Paused(n) \in Nodes
<1>. DEFINE h  == n.held \/ n.feedback
            n1 == [n EXCEPT !.enabled = FALSE]
            n2 == [n1 EXCEPT !.referenced = FALSE]
            n3 == [n2 EXCEPT !.held = h]
<1>1. h \in BOOLEAN
  BY DEF Nodes
<1>2. n1 \in Nodes
  BY NodeFields
<1>3. n2 \in Nodes
  BY <1>2, NodeFields
<1>4. n3 \in Nodes
  <2>. HIDE DEF n2, h
  <2>. QED  BY <1>1, <1>3, NodeFields
<1>5. Disabled(n) = IF n.enabled THEN n3 ELSE n
  BY Zenon DEF Disabled
<1>6. Disabled(n) \in Nodes
  BY <1>4, <1>5
<1>7. [Disabled(n) EXCEPT !.homing = "no"] \in Nodes
  BY <1>6, NodeFields
<1>8. [[Disabled(n) EXCEPT !.homing = "no"] EXCEPT !.samples = 0] \in Nodes
  BY <1>7, NodeFields
<1>. QED  BY <1>6, <1>8, Zenon DEF Paused

LEMMA PlantTypes ==
  ASSUME TypeOK
  PROVE  /\ StopHoming => arm' \in {"still", "moving", "orphan"} /\ results' \subseteq {"current", "stale"}
         /\ GripperPaused => gripper' \in {"none", "estimate", "hold", "orphan"}
  BY DEF TypeOK, StopHoming, GripperPaused

\* The next generation is a number.
LEMMA NextGeneration ==
  ASSUME TypeOK
  PROVE  record.generation \in Nat /\ record.generation + 1 \in Nat
  BY DEF TypeOK, Records

LEMMA TypesStep ==
  ASSUME TypeOK, [Next]_vars
  PROVE  TypeOK'
<1>. USE DEF vars, process, store, plant
<1>t. node \in Nodes /\ disk \in Records /\ record \in Records /\ asked \subseteq Nat /\ voided \subseteq Nat
  BY DEF TypeOK
<1>0. CASE UNCHANGED vars
  BY <1>0 DEF TypeOK
<1>1. CASE Ask
  BY <1>1, NextGeneration DEF Ask, TypeOK
<1>2. ASSUME NEW g \in asked, NEW healthy \in BOOLEAN, NEW stage \in Stages, Enable(g, healthy, stage)
      PROVE  TypeOK'
  <2>1. Enables(healthy) \in BOOLEAN /\ g \in Nat
    BY <1>t DEF Enables
  <2>2. disk' \in Records /\ record' \in Records /\ fault' \in BOOLEAN
    BY <1>2, <2>1, PersistTypes DEF Enable, Operations
  <2>3. Following(Enables(healthy)) \in Nodes
    BY <1>t DEF Following, Nodes
  <2>4. node' \in Nodes
    BY <1>2, <1>t, <2>3, DisabledTypes, StagesAre DEF Enable
  <2>. QED  BY <1>2, <2>2, <2>4, PlantTypes DEF Enable, TypeOK
<1>3. ASSUME NEW g \in 1..MaxGeneration, NEW stage \in Stages, Disable(g, stage)
      PROVE  TypeOK'
  <2>1. disk' \in Records /\ record' \in Records /\ fault' \in BOOLEAN
    <3>1. g \in Nat /\ "disable" \in Operations
      BY TeleopAssumption DEF Operations
    <3>. QED  BY <1>3, <3>1, PersistTypes, Zenon DEF Disable
  <2>2. voided' \subseteq Nat
    BY <1>3, <1>t DEF Disable, Voids
  <2>. QED  BY <1>3, <1>t, <2>1, <2>2, DisabledTypes, PlantTypes DEF Disable, TypeOK
<1>4. ASSUME NEW stage \in Stages, ReturnHome(stage)
      PROVE  TypeOK'
  <2>1. disk' \in Records /\ record' \in Records /\ fault' \in BOOLEAN
    BY <1>4, PersistTypes, NextGeneration DEF ReturnHome, Operations
  <2>2. voided' \subseteq Nat
    BY <1>4, <1>t DEF ReturnHome, Voids
  <2>3. node' \in Nodes
    <3>1. [Disabled(node) EXCEPT !.referenced = FALSE] \in Nodes
      BY <1>t, DisabledTypes, NodeFields
    <3>2. [[Disabled(node) EXCEPT !.referenced = FALSE] EXCEPT !.samples = 0] \in Nodes
      BY <3>1, NodeFields
    <3>3. [[[Disabled(node) EXCEPT !.referenced = FALSE] EXCEPT !.samples = 0]
             EXCEPT !.homing = "quiet"] \in Nodes
      BY <3>2, NodeFields
    <3>. QED  BY <1>4, <3>3, Zenon DEF ReturnHome
  <2>. QED  BY <1>4, <2>1, <2>2, <2>3, PlantTypes DEF ReturnHome, TypeOK
<1>5. ASSUME NEW healthy \in BOOLEAN, NEW good \in BOOLEAN, Calibrate(healthy, good)
      PROVE  TypeOK'
  <2>1. Sampled(healthy, good) \in Nodes
    <3>1. [node EXCEPT !.samples = 0] \in Nodes
      BY <1>t, NodeFields
    <3>2. [[node EXCEPT !.samples = 0] EXCEPT !.basis = TRUE] \in Nodes
      BY <3>1, NodeFields
    <3>3. [[[node EXCEPT !.samples = 0] EXCEPT !.basis = TRUE] EXCEPT !.referenced = FALSE] \in Nodes
      BY <3>2, NodeFields
    <3>4. ASSUME node.samples < 2
          PROVE  [node EXCEPT !.samples = node.samples + 1] \in Nodes
      <4>1. node.samples + 1 \in {0, 1, 2}
        BY <1>t, <3>4 DEF Nodes
      <4>. QED  BY <4>1, <1>t, NodeFields
    <3>. QED  BY <3>1, <3>3, <3>4, Zenon DEF Sampled
  <2>. QED  BY <1>5, <2>1 DEF Calibrate, TypeOK
<1>6. CASE Initialize
  BY <1>6 DEF Initialize, TypeOK, Nodes
<1>7. ASSUME NEW n \in Nodes, NEW stage \in Stages, SafetyPause(n, stage),
             UNCHANGED <<process, fresh, arm, results, asked>>
      PROVE  TypeOK'
  <2>1. CASE node.enabled
    <3>1. disk' \in Records /\ record' \in Records /\ fault' \in BOOLEAN
      BY <1>7, <2>1, PersistTypes, NextGeneration DEF SafetyPause, Operations
    <3>2. voided' \subseteq Nat
      BY <1>7, <2>1, <1>t DEF SafetyPause, Voids
    <3>. QED  BY <1>7, <2>1, <3>1, <3>2, DisabledTypes, PlantTypes DEF SafetyPause, TypeOK
  <2>2. CASE ~node.enabled
    BY <1>7, <2>2 DEF SafetyPause, TypeOK
  <2>. QED  BY <2>1, <2>2
<1>8. ASSUME NEW stage \in Stages, TrackerLost(stage)
      PROVE  TypeOK'
  <2>1. [node EXCEPT !.samples = 0] \in Nodes
    BY <1>t DEF Nodes
  <2>. QED  BY <1>8, <2>1, <1>7 DEF TrackerLost
<1>9. ASSUME NEW stage \in Stages, InputLost(stage)
      PROVE  TypeOK'
  BY <1>9, <1>t, <1>7 DEF InputLost
<1>10. CASE HomeStarts
  BY <1>10 DEF HomeStarts, TypeOK, Nodes
<1>11. CASE HomeStops
  <2>1. node' \in Nodes
    BY <1>11, <1>t DEF HomeStops, Nodes
  <2>. QED  BY <1>11, <2>1, PlantTypes DEF HomeStops, TypeOK
<1>12. ASSUME NEW r \in results, HomeResult(r)
       PROVE  TypeOK'
  BY <1>12 DEF HomeResult, TypeOK, Nodes
<1>13. CASE GripperFollows \/ GripperHolds
  BY <1>13 DEF GripperFollows, GripperHolds, TypeOK, Nodes
<1>14. CASE GripperReports
  <2>1. node' \in Nodes
    BY <1>14, <1>t DEF GripperReports, Nodes
  <2>. QED  BY <1>14, <2>1 DEF GripperReports, TypeOK
<1>15. CASE \E i \in Inputs : Arrives(i) \/ Expires(i)
  BY <1>15 DEF Arrives, Expires, TypeOK
<1>16. CASE ArmDone
  BY <1>16 DEF ArmDone, TypeOK
<1>17. ASSUME NEW stage \in Stages, Exit(stage)
       PROVE  TypeOK'
  <2>1. disk' \in Records /\ record' \in Records /\ fault' \in BOOLEAN
    BY <1>17, <1>t, PersistTypes, NextGeneration DEF Exit, Operations, TypeOK
  <2>3. voided' \subseteq Nat
    BY <1>17, <1>t DEF Exit, Voids
  <2>. QED  BY <1>17, <2>1, <2>3, BlankTypes, PlantTypes DEF Exit, Ends, TypeOK
<1>18. CASE Crash
  <2>1. disk' \in Records
    <3>1. \A g \in Nat : Pending(g, "enable") \in Records /\ Pending(g, "disable") \in Records
      BY DEF Pending, Records, Operations
    <3>2. \A g \in 1..MaxGeneration : g \in Nat
      BY TeleopAssumption
    <3>. QED  BY <1>18, <1>t, <3>1, <3>2 DEF Crash
  <2>. QED  BY <1>18, <2>1, BlankTypes DEF Crash, Ends, TypeOK
<1>19. CASE Restart
  <2>1. disk' \in Records /\ disk'.generation \in Nat
    BY <1>19, <1>t DEF Restart, Restored, Records
  <2>2. node' \in Nodes
    BY <1>19, StartedTypes DEF Restart, Calibrations
  <2>3. /\ up' \in BOOLEAN /\ fault' \in BOOLEAN /\ record' \in Records /\ loaded' \in Nat
        /\ restarts' = restarts + 1
        /\ UNCHANGED <<mode, fresh, plant, asked, voided>>
    BY <1>19, <2>1, Zenon DEF Restart
  <2>. QED  BY <2>1, <2>2, <2>3 DEF TypeOK
<1>. QED
  BY <1>0, <1>1, <1>2, <1>3, <1>4, <1>5, <1>6, <1>8, <1>9, <1>10, <1>11, <1>12, <1>13, <1>14, <1>15,
     <1>16, <1>17, <1>18, <1>19
  DEF Next, Service, Tick, Callback, External

\* Every variable keeps its type: the node's state, the file of generations,
\* what is under way to it and what it commands.
THEOREM TypesCorrect == Spec => []TypeOK
<1>1. ASSUME Init PROVE TypeOK
  <2>1. Ended(0, "none", FALSE) \in Records
    BY DEF Ended, Records, Operations
  <2>2. node \in Nodes
    BY <1>1, StartedTypes DEF Init, Calibrations
  <2>3. /\ mode \in {"workspace", "reference_eef"} /\ up \in BOOLEAN /\ restarts \in Nat /\ loaded \in Nat
        /\ fault \in BOOLEAN /\ fresh = {}
        /\ arm = "still" /\ gripper = "none"
    BY <1>1 DEF Init
  <2>4. disk \in Records /\ record \in Records /\ results = {} /\ asked = {} /\ voided = {}
    BY <1>1, <2>1, Zenon DEF Init
  <2>. QED  BY <2>2, <2>3, <2>4 DEF TypeOK
<1>. QED  BY <1>1, TypesStep, PTL DEF Spec
-----------------------------------------------------------------------------
(* What the node commands *)

LEMMA DisabledFields ==
  ASSUME NEW n \in Nodes
  PROVE  /\ Disabled(n).enabled = FALSE
         /\ Disabled(n).homing = n.homing /\ Disabled(n).feedback = n.feedback
         /\ Disabled(n).held = (n.held \/ (n.enabled /\ n.feedback))
<1>1. CASE n.enabled
  <2>. DEFINE h == n.held \/ n.feedback
              d == [[[n EXCEPT !.enabled = FALSE] EXCEPT !.referenced = FALSE] EXCEPT !.held = h]
  <2>1. Disabled(n) = d
    BY <1>1, Zenon DEF Disabled
  <2>2. d.enabled = FALSE /\ d.homing = n.homing /\ d.feedback = n.feedback /\ d.held = h
    <3>. HIDE DEF h
    <3>. QED  BY DEF Nodes
  <2>. QED  BY <1>1, <2>1, <2>2, Zenon
<1>2. CASE ~n.enabled
  BY <1>2 DEF Disabled, Nodes
<1>. QED  BY <1>1, <1>2

LEMMA PausedFields ==
  ASSUME NEW n \in Nodes
  PROVE  /\ Paused(n).enabled = FALSE /\ Paused(n).homing = "no"
         /\ Paused(n).feedback = n.feedback
         /\ Paused(n).held = (n.held \/ (n.enabled /\ n.feedback))
<1>. DEFINE d == Disabled(n)
            p == [[d EXCEPT !.homing = "no"] EXCEPT !.samples = 0]
<1>1. d \in Nodes
  BY DisabledTypes
<1>2. p.enabled = d.enabled /\ p.homing = "no" /\ p.feedback = d.feedback /\ p.held = d.held
  <2>. HIDE DEF d
  <2>. QED  BY <1>1 DEF Nodes
<1>3. Paused(n) = p
  BY Zenon DEF Paused
<1>. QED  BY <1>2, <1>3, DisabledFields, Zenon

LEMMA FollowingFields ==
  ASSUME node \in Nodes, NEW ok \in BOOLEAN
  PROVE  /\ Following(ok).enabled = (ok \/ node.enabled)
         /\ Following(ok).homing = node.homing /\ Following(ok).feedback = node.feedback
         /\ Following(ok).held = node.held
         /\ ok /\ ~node.enabled => Following(ok).referenced /\ Following(ok).basis
         /\ ~ok \/ node.enabled => Following(ok) = node
         /\ Following(ok) \in Nodes
<1>. DEFINE f == [[[node EXCEPT !.enabled = TRUE] EXCEPT !.referenced = TRUE] EXCEPT !.basis = TRUE]
<1>1. /\ f.enabled = TRUE /\ f.referenced = TRUE /\ f.basis = TRUE /\ f.homing = node.homing
      /\ f.feedback = node.feedback /\ f.held = node.held
  BY DEF Nodes
<1>2. f \in Nodes
  <2>1. [node EXCEPT !.enabled = TRUE] \in Nodes
    BY NodeFields
  <2>2. [[node EXCEPT !.enabled = TRUE] EXCEPT !.referenced = TRUE] \in Nodes
    BY <2>1, NodeFields
  <2>. QED  BY <2>2, NodeFields
<1>3. Following(ok) = IF ok /\ ~node.enabled THEN f ELSE node
  BY Zenon DEF Following
<1>4. CASE ok /\ ~node.enabled
  BY <1>1, <1>2, <1>3, <1>4, Zenon
<1>5. CASE ~ok \/ node.enabled
  <2>1. Following(ok) = node
    BY <1>3, <1>5, Zenon
  <2>. QED  BY <1>5, <2>1 DEF Nodes
<1>. QED  BY <1>4, <1>5

Asleep == ~up => node = Blank

\* The gripper follows only with the arm, and a hold that was sent is the last target.
GripperInv == /\ gripper = "estimate" => node.enabled /\ node.feedback /\ ~node.held
              /\ node.held => gripper = "hold" /\ node.feedback
              /\ up /\ ~node.enabled /\ node.feedback => node.held

ControlInv == Asleep /\ ReferenceReady /\ GripperInv /\ RepeatedAnswerIsTrue

\* Once paused, whatever is asserted of an enabled arm is true; what is left is
\* the gripper and the record of the pause.
LEMMA PauseKeeps ==
  ASSUME TypeOK, ControlInv, up, NEW n \in Nodes,
         n.enabled = node.enabled, n.feedback = node.feedback, n.held = node.held,
         node'.enabled = FALSE, node'.feedback = n.feedback,
         node'.held = (n.held \/ (n.enabled /\ n.feedback)), GripperPaused
  PROVE  ReferenceReady' /\ GripperInv'
  BY DEF TypeOK, ControlInv, GripperInv, ReferenceReady, GripperPaused, Nodes

\* A pause that is written is the record; one that is not raises the fault.
LEMMA PersistAnswers ==
  ASSUME NEW g, NEW op, NEW ok \in BOOLEAN, NEW stage \in Stages, TypeOK, Persist(g, op, ok, stage)
  PROVE  \/ fault' = TRUE
         \/ stage = "done" /\ record'.operation = op /\ record'.success = ok
<1>1. fault \in BOOLEAN
  BY DEF TypeOK
<1>2. CASE stage = "done"
  <2>1. record' = Ended(g, op, ok)
    BY <1>2 DEF Persist
  <2>. QED  BY <1>2, <2>1 DEF Ended
<1>3. CASE stage # "done"
  BY <1>1, <1>3 DEF Persist
<1>. QED  BY <1>2, <1>3

LEMMA DisableAnswers ==
  ASSUME NEW g, NEW stage \in Stages, TypeOK, Persist(g, "disable", TRUE, stage)
  PROVE  RepeatedAnswerIsTrue'
<1>1. fault' = TRUE \/ record'.operation = "disable"
  BY PersistAnswers
<1>2. "disable" # "enable"
  OBVIOUS
<1>. QED  BY <1>1, <1>2, Zenon DEF RepeatedAnswerIsTrue

LEMMA ControlStep ==
  ASSUME TypeOK, ControlInv, [Next]_vars
  PROVE  ControlInv'
<1>. USE DEF vars, process, store, plant
<1>t. node \in Nodes /\ disk \in Records /\ record \in Records
  BY DEF TypeOK
<1>i. Asleep /\ ReferenceReady /\ GripperInv /\ RepeatedAnswerIsTrue
  BY DEF ControlInv
\* Actions that change neither the record nor what the invariant asks of the node.
<1>a. ASSUME UNCHANGED <<up, store, loaded>>, node'.enabled = node.enabled, Asleep', ReferenceReady', GripperInv'
      PROVE  ControlInv'
  BY <1>a, <1>i DEF ControlInv, RepeatedAnswerIsTrue
<1>0. CASE UNCHANGED vars
  BY <1>0, <1>i DEF ControlInv, Asleep, ReferenceReady, GripperInv, RepeatedAnswerIsTrue
<1>1. CASE Ask \/ ArmDone \/ (\E i \in Inputs : Arrives(i) \/ Expires(i))
  BY <1>1, <1>i DEF Ask, Arrives, Expires, ArmDone, ControlInv, Asleep, ReferenceReady, GripperInv, RepeatedAnswerIsTrue
<1>2. ASSUME NEW g \in asked, NEW healthy \in BOOLEAN, NEW stage \in Stages, Enable(g, healthy, stage)
      PROVE  ControlInv'
  <2>. DEFINE ok == Enables(healthy)
  <2>1. ok \in BOOLEAN /\ (ok => node.homing = "no")
    BY <1>t DEF Enables
  <2>. HIDE DEF ok
  <2>2. CASE stage = "none"
    <3>1. node' = node /\ fault' = TRUE /\ UNCHANGED <<up, plant>>
      BY <1>2, <2>2 DEF Enable, Persist, ok
    <3>. QED  BY <3>1, <1>i DEF ControlInv, Asleep, ReferenceReady, GripperInv, RepeatedAnswerIsTrue
  <2>3. CASE stage = "begun"
    <3>1. node' = Paused(Following(ok)) /\ fault' = TRUE /\ GripperPaused /\ UNCHANGED up /\ up
      BY <1>2, <2>3 DEF Enable, Persist, ok
    <3>. DEFINE f == Following(ok)
    <3>2. /\ f \in Nodes /\ f.feedback = node.feedback /\ f.held = node.held
          /\ f.enabled = (ok \/ node.enabled)
      BY <1>t, <2>1, FollowingFields
    <3>3. /\ node'.enabled = FALSE /\ node'.feedback = f.feedback
          /\ node'.held = (f.held \/ (f.enabled /\ f.feedback))
      <4>. HIDE DEF f
      <4>1. node' = Paused(f)
        BY <3>1 DEF f
      <4>. QED  BY <4>1, <3>2, PausedFields, Zenon
    <3>. HIDE DEF f
    <3>4. ReferenceReady' /\ GripperInv'
      BY <3>1, <3>2, <3>3, <1>t, <1>i, <2>1 DEF ReferenceReady, GripperInv, GripperPaused, Nodes
    <3>. QED  BY <3>1, <3>4 DEF ControlInv, Asleep, RepeatedAnswerIsTrue
  <2>4. CASE stage = "done"
    <3>1. node' = Following(ok) /\ UNCHANGED <<up, plant>> /\ up
      BY <1>2, <2>4 DEF Enable, ok
    <3>2. record' = Ended(g, "enable", ok)
      BY <1>2, <2>4 DEF Enable, Persist, ok
    <3>3. /\ node'.enabled = (ok \/ node.enabled) /\ node'.homing = node.homing
          /\ node'.feedback = node.feedback /\ node'.held = node.held
          /\ ok /\ ~node.enabled => node'.referenced /\ node'.basis
          /\ ~ok \/ node.enabled => node' = node
      BY <1>t, <2>1, <3>1, FollowingFields
    <3>4. record'.success = ok
      BY <3>2 DEF Ended
    <3>5. ReferenceReady'
      BY <3>3, <1>i, <2>1 DEF ReferenceReady
    <3>6. GripperInv'
      BY <3>1, <3>3, <1>t, <1>i, <2>1 DEF GripperInv, Nodes
    <3>7. RepeatedAnswerIsTrue'
      BY <3>3, <3>4, <2>1 DEF RepeatedAnswerIsTrue
    <3>. QED  BY <3>1, <3>5, <3>6, <3>7 DEF ControlInv, Asleep
  <2>. QED  BY <2>2, <2>3, <2>4, StagesAre
<1>3. ASSUME NEW g \in 1..MaxGeneration, NEW stage \in Stages, Disable(g, stage)
      PROVE  ControlInv'
  <2>1. node' = Paused(node) /\ GripperPaused /\ up /\ UNCHANGED up
    BY <1>3 DEF Disable
  <2>2. ReferenceReady' /\ GripperInv'
    BY <2>1, <1>t, PausedFields, PauseKeeps
  <2>3. RepeatedAnswerIsTrue'
    BY <1>3, DisableAnswers, Zenon DEF Disable
  <2>. QED  BY <2>1, <2>2, <2>3 DEF ControlInv, Asleep
<1>4. ASSUME NEW stage \in Stages, ReturnHome(stage)
      PROVE  ControlInv'
  <2>. DEFINE d == Disabled(node)
              h == [[[d EXCEPT !.referenced = FALSE] EXCEPT !.samples = 0] EXCEPT !.homing = "quiet"]
  <2>1. node' = h /\ GripperPaused /\ up /\ UNCHANGED up
    BY <1>4, Zenon DEF ReturnHome
  <2>2. h.enabled = d.enabled /\ h.feedback = d.feedback /\ h.held = d.held
    <3>1. d \in Nodes
      BY <1>t, DisabledTypes
    <3>. HIDE DEF d
    <3>. QED  BY <3>1 DEF Nodes
  <2>3. ReferenceReady' /\ GripperInv'
    <3>1. /\ node'.enabled = FALSE /\ node'.feedback = node.feedback
          /\ node'.held = (node.held \/ (node.enabled /\ node.feedback))
      BY <2>1, <2>2, <1>t, DisabledFields, Zenon
    <3>. QED  BY <3>1, <2>1, <1>t, PauseKeeps
  <2>4. RepeatedAnswerIsTrue'
    BY <1>4, DisableAnswers, Zenon DEF ReturnHome
  <2>. QED  BY <2>1, <2>3, <2>4 DEF ControlInv, Asleep
<1>5. ASSUME NEW healthy \in BOOLEAN, NEW good \in BOOLEAN, Calibrate(healthy, good)
      PROVE  ControlInv'
  <2>1. /\ ~node.enabled /\ up /\ UNCHANGED <<up, store, loaded, gripper>>
        /\ node' = Sampled(healthy, good)
    BY <1>5 DEF Calibrate
  <2>2. /\ node'.enabled = node.enabled /\ node'.feedback = node.feedback /\ node'.held = node.held
    <3>. DEFINE n1 == [node EXCEPT !.samples = node.samples + 1]
                n2 == [[[node EXCEPT !.samples = 0] EXCEPT !.basis = TRUE] EXCEPT !.referenced = FALSE]
                n3 == [node EXCEPT !.samples = 0]
    <3>1. n1.enabled = node.enabled /\ n1.feedback = node.feedback /\ n1.held = node.held
      BY <1>t DEF Nodes
    <3>2. n2.enabled = node.enabled /\ n2.feedback = node.feedback /\ n2.held = node.held
      BY <1>t DEF Nodes
    <3>3. n3.enabled = node.enabled /\ n3.feedback = node.feedback /\ n3.held = node.held
      BY <1>t DEF Nodes
    <3>4. node' = n1 \/ node' = n2 \/ node' = n3
      BY <2>1, Zenon DEF Sampled
    <3>. QED  BY <3>1, <3>2, <3>3, <3>4, Zenon
  <2>. QED  BY <2>1, <2>2, <1>a, <1>i DEF Asleep, ReferenceReady, GripperInv
<1>6. CASE Initialize
  <2>. DEFINE n == [[node EXCEPT !.referenced = TRUE] EXCEPT !.basis = TRUE]
  <2>1. /\ up /\ node.homing = "no" /\ UNCHANGED <<up, store, loaded, gripper>> /\ node' = n
    BY <1>6, Zenon DEF Initialize
  <2>2. /\ n.enabled = node.enabled /\ n.feedback = node.feedback /\ n.held = node.held
        /\ n.homing = node.homing /\ n.referenced = TRUE /\ n.basis = TRUE
    BY <1>t DEF Nodes
  <2>. HIDE DEF n
  <2>. QED  BY <2>1, <2>2, <1>a, <1>i DEF Asleep, ReferenceReady, GripperInv
<1>7. ASSUME NEW n \in Nodes, NEW stage \in Stages, SafetyPause(n, stage), up,
             n.enabled = node.enabled, n.feedback = node.feedback, n.held = node.held,
             n.referenced = node.referenced, n.basis = node.basis, n.homing = node.homing,
             UNCHANGED <<process, fresh, arm, results, asked>>
      PROVE  ControlInv'
  <2>1. CASE node.enabled
    <3>1. node' = Disabled(n) /\ GripperPaused /\ UNCHANGED up
      BY <1>7, <2>1 DEF SafetyPause
    <3>2. ReferenceReady' /\ GripperInv'
      <4>1. /\ node'.enabled = FALSE /\ node'.feedback = n.feedback
            /\ node'.held = (n.held \/ (n.enabled /\ n.feedback))
        BY <3>1, DisabledFields, Zenon
      <4>. QED  BY <4>1, <3>1, <1>7, PauseKeeps
    <3>3. RepeatedAnswerIsTrue'
      BY <1>7, <2>1, DisableAnswers, Zenon DEF SafetyPause
    <3>. QED  BY <3>1, <3>2, <3>3, <1>7 DEF ControlInv, Asleep
  <2>2. CASE ~node.enabled
    <3>1. node' = n /\ UNCHANGED <<up, store, loaded, gripper>>
      BY <1>7, <2>2 DEF SafetyPause
    <3>. QED  BY <3>1, <1>7, <1>a, <1>i DEF Asleep, ReferenceReady, GripperInv
  <2>. QED  BY <2>1, <2>2
<1>8. ASSUME NEW stage \in Stages, TrackerLost(stage)
      PROVE  ControlInv'
  <2>. DEFINE n == [node EXCEPT !.samples = 0]
  <2>1. n \in Nodes
    BY <1>t, NodeFields
  <2>2. /\ n.enabled = node.enabled /\ n.feedback = node.feedback /\ n.held = node.held
        /\ n.referenced = node.referenced /\ n.basis = node.basis /\ n.homing = node.homing
    BY <1>t DEF Nodes
  <2>3. SafetyPause(n, stage) /\ up /\ UNCHANGED <<process, fresh, arm, results, asked>>
    BY <1>8 DEF TrackerLost
  <2>. HIDE DEF n
  <2>. QED  BY <2>1, <2>2, <2>3, <1>7
<1>9. ASSUME NEW stage \in Stages, InputLost(stage)
      PROVE  ControlInv'
  BY <1>9, <1>t, <1>7 DEF InputLost
<1>10. ASSUME HomeStarts \/ HomeStops \/ \E r \in results : HomeResult(r)
       PROVE  ControlInv'
  <2>1. up /\ UNCHANGED <<up, store, loaded, gripper>>
    BY <1>10 DEF HomeStarts, HomeStops, HomeResult
  <2>2. \/ node' = [node EXCEPT !.homing = "moving"] /\ node.homing = "quiet"
        \/ node' = [node EXCEPT !.homing = "no"]
        \/ node' = node
    BY <1>10, Zenon DEF HomeStarts, HomeStops, HomeResult
  <2>3. /\ node'.enabled = node.enabled /\ node'.feedback = node.feedback /\ node'.held = node.held
        /\ node'.referenced = node.referenced /\ node'.basis = node.basis
        /\ node'.homing = "no" \/ node'.homing = node.homing \/ node.homing = "quiet"
    BY <2>2, <1>t DEF Nodes
  <2>. QED  BY <2>1, <2>3, <1>a, <1>i DEF Asleep, ReferenceReady, GripperInv
<1>11. CASE GripperFollows
  <2>1. /\ up /\ node.enabled /\ node.feedback /\ UNCHANGED <<up, store, loaded>> /\ gripper' = "estimate"
        /\ node' = [node EXCEPT !.held = FALSE]
    BY <1>11 DEF GripperFollows
  <2>2. /\ node'.enabled = node.enabled /\ node'.feedback = node.feedback /\ node'.held = FALSE
        /\ node'.referenced = node.referenced /\ node'.basis = node.basis /\ node'.homing = node.homing
    BY <2>1, <1>t DEF Nodes
  <2>. QED  BY <2>1, <2>2, <1>a, <1>i DEF Asleep, ReferenceReady, GripperInv
<1>12. CASE GripperHolds
  <2>1. /\ up /\ node.feedback /\ UNCHANGED <<up, store, loaded>> /\ gripper' = "hold"
        /\ node' = [node EXCEPT !.held = TRUE]
    BY <1>12 DEF GripperHolds
  <2>2. /\ node'.enabled = node.enabled /\ node'.feedback = node.feedback /\ node'.held = TRUE
        /\ node'.referenced = node.referenced /\ node'.basis = node.basis /\ node'.homing = node.homing
    BY <2>1, <1>t DEF Nodes
  <2>. QED  BY <2>1, <2>2, <1>a, <1>i DEF Asleep, ReferenceReady, GripperInv
<1>13. CASE GripperReports
  <2>. DEFINE h == ~node.enabled
              n == [[node EXCEPT !.feedback = TRUE] EXCEPT !.held = h]
  <2>1. /\ up /\ ~node.feedback /\ UNCHANGED <<up, store, loaded>> /\ node' = n
        /\ gripper' = IF node.enabled THEN gripper ELSE "hold"
    BY <1>13, Zenon DEF GripperReports
  <2>2. h \in BOOLEAN /\ h = ~node.enabled
    BY <1>t DEF Nodes
  <2>. HIDE DEF h
  <2>3. /\ n.enabled = node.enabled /\ n.feedback = TRUE /\ n.held = h
        /\ n.referenced = node.referenced /\ n.basis = node.basis /\ n.homing = node.homing
    BY <1>t DEF Nodes
  <2>. HIDE DEF n
  <2>. QED  BY <2>1, <2>2, <2>3, <1>a, <1>i DEF Asleep, ReferenceReady, GripperInv
<1>14. ASSUME NEW stage \in Stages, Exit(stage)
       PROVE  ControlInv'
  <2>1. up /\ up' = FALSE /\ node' = Blank
    BY <1>14 DEF Exit, Ends
  <2>2. gripper' # "estimate"
    BY <1>14, <1>i DEF Exit, GripperInv, GripperPaused
  <2>. QED  BY <2>1, <2>2 DEF ControlInv, Asleep, ReferenceReady, GripperInv, RepeatedAnswerIsTrue, Blank
<1>15. CASE Crash
  <2>1. up' = FALSE /\ node' = Blank /\ gripper' # "estimate"
    BY <1>15 DEF Crash, Ends
  <2>. QED  BY <2>1 DEF ControlInv, Asleep, ReferenceReady, GripperInv, RepeatedAnswerIsTrue, Blank
<1>16. CASE Restart
  <2>1. /\ ~up /\ up' = TRUE /\ record' = disk' /\ loaded' = disk'.generation /\ gripper' = gripper
        /\ \E b \in Calibrations : node' = Started(b)
    BY <1>16, Zenon DEF Restart
  <2>2. ~node'.enabled /\ ~node'.feedback /\ ~node'.held
    BY <2>1 DEF Started, Blank
  <2>3. gripper # "estimate"
    BY <2>1, <1>i DEF Asleep, GripperInv, Blank
  <2>4. disk' \in Records
    BY <1>16, <1>t DEF Restart, Restored, Records
  <2>5. ~(record'.generation > loaded')
    BY <2>1, <2>4 DEF Records
  <2>. QED  BY <2>1, <2>2, <2>3, <2>5 DEF ControlInv, Asleep, ReferenceReady, GripperInv, RepeatedAnswerIsTrue
<1>. QED
  BY <1>0, <1>1, <1>2, <1>3, <1>4, <1>5, <1>6, <1>8, <1>9, <1>10, <1>11, <1>12, <1>13, <1>14, <1>15, <1>16
  DEF Next, Service, Tick, Callback, External

LEMMA ControlInit ==
  ASSUME Init
  PROVE  ControlInv
<1>1. up = TRUE /\ gripper = "none" /\ \E b \in Calibrations : node = Started(b)
  BY DEF Init
<1>2. record.operation = "none"
  BY DEF Init, Ended
<1>3. ~node.enabled /\ ~node.feedback /\ ~node.held
  BY <1>1 DEF Started, Blank
<1>. QED  BY <1>1, <1>2, <1>3 DEF ControlInv, Asleep, ReferenceReady, GripperInv, RepeatedAnswerIsTrue

\* While the arm follows, the references and the mapping exist and no homing is
\* under way, for every order of services, callbacks and ticks.
THEOREM ReferenceReadyCorrect == Spec => []ReferenceReady
<1>1. Init => ControlInv
  BY ControlInit
<1>2. ControlInv => ReferenceReady
  BY DEF ControlInv
<1>. QED  BY <1>1, <1>2, TypesCorrect, ControlStep, PTL DEF Spec

\* A gripper that the node told to follow belongs to an arm that follows, and a
\* paused one was told to hold.
THEOREM GripperIsHeldCorrect == Spec => []GripperIsHeld
<1>1. Init => ControlInv
  BY ControlInit
<1>2. ControlInv => GripperIsHeld
  BY DEF ControlInv, GripperInv, GripperIsHeld
<1>. QED  BY <1>1, <1>2, TypesCorrect, ControlStep, PTL DEF Spec

\* The answer ENABLED is repeated only while it is true: nothing pauses the arm
\* without taking a generation, unless the generation could not be written.
THEOREM RepeatedAnswerCorrect == Spec => []RepeatedAnswerIsTrue
<1>1. Init => ControlInv
  BY ControlInit
<1>2. ControlInv => RepeatedAnswerIsTrue
  BY DEF ControlInv
<1>. QED  BY <1>1, <1>2, TypesCorrect, ControlStep, PTL DEF Spec
-----------------------------------------------------------------------------
(* Moves of the arm *)

Prompt == "late" \notin Faults

\* The arm moves only for the homing under way; a result of that move comes after it,
\* and no result of an older one is under way while it lasts.
HomeInv == /\ arm = "moving" => node.homing = "moving"
           /\ arm = "orphan" => node.homing # "moving"
           /\ "current" \in results => node.homing = "moving" /\ arm # "moving"
           /\ "stale" \in results => node.homing # "moving"

LEMMA SampledFields ==
  ASSUME node \in Nodes, NEW healthy \in BOOLEAN, NEW good \in BOOLEAN
  PROVE  Sampled(healthy, good).homing = node.homing /\ Sampled(healthy, good).enabled = node.enabled
<1>. DEFINE n1 == [node EXCEPT !.samples = node.samples + 1]
            n2 == [[[node EXCEPT !.samples = 0] EXCEPT !.basis = TRUE] EXCEPT !.referenced = FALSE]
            n3 == [node EXCEPT !.samples = 0]
<1>1. n1.homing = node.homing /\ n1.enabled = node.enabled
  BY DEF Nodes
<1>2. n2.homing = node.homing /\ n2.enabled = node.enabled
  BY DEF Nodes
<1>3. n3.homing = node.homing /\ n3.enabled = node.enabled
  BY DEF Nodes
<1>4. Sampled(healthy, good) = n1 \/ Sampled(healthy, good) = n2 \/ Sampled(healthy, good) = n3
  BY Zenon DEF Sampled
<1>. QED  BY <1>1, <1>2, <1>3, <1>4, Zenon

LEMMA HomeStep ==
  ASSUME Prompt, TypeOK, ControlInv, HomeInv, [Next]_vars
  PROVE  HomeInv'
<1>. USE DEF vars, process, store, plant
<1>t. node \in Nodes
  BY DEF TypeOK
\* Actions that do not touch a homing, and actions that stop it.
<1>a. ASSUME UNCHANGED <<arm, results>>, node'.homing = node.homing
      PROVE  HomeInv'
  BY <1>a DEF HomeInv
<1>b. ASSUME StopHoming, node'.homing = "no"
      PROVE  HomeInv'
  BY <1>b DEF HomeInv, StopHoming
<1>0. CASE UNCHANGED vars
  BY <1>0, <1>a
<1>1. CASE Ask \/ (\E i \in Inputs : Arrives(i) \/ Expires(i))
  BY <1>1, <1>a DEF Ask, Arrives, Expires
<1>2. ASSUME NEW g \in asked, NEW healthy \in BOOLEAN, NEW stage \in Stages, Enable(g, healthy, stage)
      PROVE  HomeInv'
  <2>. DEFINE ok == Enables(healthy)
  <2>1. ok \in BOOLEAN
    BY <1>t DEF Enables
  <2>. HIDE DEF ok
  <2>2. Following(ok) \in Nodes /\ Following(ok).homing = node.homing
    BY <1>t, <2>1, FollowingFields
  <2>3. CASE stage = "begun"
    <3>1. StopHoming /\ node' = Paused(Following(ok))
      BY <1>2, <2>3 DEF Enable, ok
    <3>. QED  BY <3>1, <2>2, <1>b, PausedFields, Zenon
  <2>4. CASE stage # "begun"
    <3>1. /\ UNCHANGED <<arm, results>>
          /\ node' = node \/ node' = Following(ok)
      BY <1>2, <2>4, StagesAre DEF Enable, ok
    <3>. QED  BY <3>1, <2>2, <1>a, Zenon
  <2>. QED  BY <2>3, <2>4
<1>3. ASSUME NEW g \in 1..MaxGeneration, NEW stage \in Stages, Disable(g, stage)
      PROVE  HomeInv'
  BY <1>3, <1>t, <1>b, PausedFields, Zenon DEF Disable
<1>4. ASSUME NEW stage \in Stages, ReturnHome(stage)
      PROVE  HomeInv'
  <2>. DEFINE d == Disabled(node)
              h == [[[d EXCEPT !.referenced = FALSE] EXCEPT !.samples = 0] EXCEPT !.homing = "quiet"]
  <2>1. node.homing = "no" /\ UNCHANGED <<arm, results>> /\ node' = h
    BY <1>4, Zenon DEF ReturnHome
  <2>2. d \in Nodes
    BY <1>t, DisabledTypes
  <2>3. h.homing = "quiet"
    <3>. HIDE DEF d
    <3>. QED  BY <2>2 DEF Nodes
  <2>4. node'.homing = "quiet"
    BY <2>1, <2>3, Zenon
  <2>. QED  BY <2>1, <2>4 DEF HomeInv
<1>5. ASSUME NEW healthy \in BOOLEAN, NEW good \in BOOLEAN, Calibrate(healthy, good)
      PROVE  HomeInv'
  BY <1>5, <1>t, <1>a, SampledFields, Zenon DEF Calibrate
<1>6. CASE Initialize \/ GripperFollows \/ GripperHolds
  <2>1. node'.homing = node.homing
    BY <1>6, <1>t DEF Initialize, GripperFollows, GripperHolds, Nodes
  <2>. QED  BY <1>6, <2>1, <1>a DEF Initialize, GripperFollows, GripperHolds
<1>7. CASE GripperReports
  <2>. DEFINE h == ~node.enabled
              n == [[node EXCEPT !.feedback = TRUE] EXCEPT !.held = h]
  <2>1. node' = n /\ UNCHANGED <<arm, results>>
    BY <1>7, Zenon DEF GripperReports
  <2>2. n.homing = node.homing
    <3>. HIDE DEF h
    <3>. QED  BY <1>t DEF Nodes
  <2>. QED  BY <2>1, <2>2, <1>a, Zenon
<1>8. ASSUME NEW stage \in Stages, TrackerLost(stage) \/ InputLost(stage)
      PROVE  HomeInv'
  <2>. DEFINE n == [node EXCEPT !.samples = 0]
  <2>1. n \in Nodes /\ n.homing = node.homing
    BY <1>t, NodeFields DEF Nodes
  <2>2. /\ UNCHANGED <<arm, results>>
        /\ \/ node' = n \/ node' = Disabled(n)
           \/ node' = node \/ node' = Disabled(node)
    BY <1>8 DEF TrackerLost, InputLost, SafetyPause
  <2>. HIDE DEF n
  <2>3. node'.homing = node.homing
    BY <2>1, <2>2, <1>t, DisabledFields
  <2>. QED  BY <2>2, <2>3, <1>a
<1>9. CASE HomeStarts
  <2>1. node'.homing = "moving"
    BY <1>9, <1>t DEF HomeStarts, Nodes
  <2>. QED  BY <1>9, <2>1 DEF HomeStarts, HomeInv, QuietOutlasts, Prompt
<1>10. CASE HomeStops
  <2>1. node'.homing = "no"
    BY <1>10, <1>t DEF HomeStops, Nodes
  <2>. QED  BY <1>10, <2>1, <1>b DEF HomeStops
<1>11. ASSUME NEW r \in results, HomeResult(r)
       PROVE  HomeInv'
  <2>1. CASE node.homing = "moving"
    <3>1. arm # "moving" /\ arm # "orphan" /\ results \subseteq {"current"} /\ r = "current"
      BY <1>11, <2>1 DEF HomeInv, TypeOK
    <3>2. results' = {} /\ arm' = arm
      BY <1>11, <3>1 DEF HomeResult
    <3>. QED  BY <3>1, <3>2 DEF HomeInv
  <2>2. CASE node.homing # "moving"
    <3>1. node' = node /\ arm' = arm /\ results' \subseteq results
      BY <1>11, <2>2 DEF HomeResult
    <3>. QED  BY <3>1 DEF HomeInv
  <2>. QED  BY <2>1, <2>2
<1>12. CASE ArmDone
  <2>1. CASE arm = "moving"
    BY <1>12, <2>1 DEF ArmDone, HomeInv
  <2>2. CASE arm = "orphan"
    BY <1>12, <2>2 DEF ArmDone, HomeInv
  <2>. QED  BY <1>12, <2>1, <2>2 DEF ArmDone, TypeOK
<1>13. ASSUME NEW stage \in Stages, Exit(stage)
       PROVE  HomeInv'
  BY <1>13, <1>b DEF Exit, Ends, Blank
<1>14. CASE Crash
  <2>1. node'.homing = "no"
    BY <1>14 DEF Crash, Ends, Blank
  <2>2. arm' # "moving" /\ results' \subseteq {"stale"}
    BY <1>14 DEF Crash
  <2>. QED  BY <2>1, <2>2 DEF HomeInv
<1>15. CASE Restart
  <2>1. UNCHANGED <<arm, results>> /\ node = Blank /\ \E b \in Calibrations : node' = Started(b)
    BY <1>15, Zenon DEF Restart, ControlInv, Asleep
  <2>. QED  BY <2>1, <1>a DEF Started, Blank
<1>. QED
  BY <1>0, <1>1, <1>2, <1>3, <1>4, <1>5, <1>6, <1>7, <1>8, <1>9, <1>10, <1>11, <1>12, <1>13, <1>14, <1>15
  DEF Next, Service, Tick, Callback, External

\* If the quiet period before a move outlasts the results of the moves that were stopped
\* before it, the arm never follows the tracker while it executes a move of this node, and
\* while it follows it has references and a mapping.
THEOREM FollowsAloneCorrect ==
  ASSUME Prompt
  PROVE  Spec => []FollowsAlone
<1>1. Init => ControlInv /\ HomeInv
  <2>1. Init => HomeInv
    BY DEF Init, HomeInv
  <2>. QED  BY <2>1, ControlInit
<1>2. TypeOK /\ ControlInv /\ HomeInv /\ [Next]_vars => ControlInv' /\ HomeInv'
  BY ControlStep, HomeStep
<1>3. ControlInv /\ HomeInv => FollowsAlone
  BY DEF ControlInv, HomeInv, HomeExclusive, ReferenceReady, FollowsAlone
<1>. QED  BY <1>1, <1>2, <1>3, TypesCorrect, PTL DEF Spec

-----------------------------------------------------------------------------
(* The generations implement ArmPermission *)

Readable == "reload" \notin Faults

\* While the node runs the file has what it remembers; no panel has a generation
\* above the next one, and what was voided is not above the last one.
GenerationInv == /\ up => record = disk
                 /\ \A g \in asked : g <= disk.generation + 1
                 /\ \A g \in voided : g <= disk.generation

\* However an operation ends, the file and the memory agree, and its generation
\* is the last one or the one before it still is.
LEMMA PersistKeeps ==
  ASSUME Readable, TypeOK, record = disk, NEW g \in Nat, g > record.generation,
         NEW op \in Operations, NEW ok \in BOOLEAN, NEW stage \in Stages, Persist(g, op, ok, stage)
  PROVE  /\ record' = disk'
         /\ disk'.generation \in Nat /\ disk'.generation >= disk.generation
         /\ stage = "done" => disk'.generation = g
<1>1. Pending(g, op).generation = g /\ Ended(g, op, ok).generation = g
  BY DEF Pending, Ended
<1>2. disk.generation \in Nat /\ g > disk.generation
  BY DEF TypeOK, Records
<1>3. CASE stage = "none"
  <2>1. record' = disk' /\ (disk' = disk \/ disk' = Pending(g, op))
    BY <1>3 DEF Persist, FailedWrite, Readable
  <2>. QED  BY <1>1, <1>2, <1>3, <2>1
<1>4. CASE stage = "begun"
  <2>1. record' = disk' /\ (disk' = Pending(g, op) \/ disk' = Ended(g, op, ok))
    BY <1>4 DEF Persist, FailedWrite, Readable
  <2>. QED  BY <1>1, <1>2, <1>4, <2>1
<1>5. CASE stage = "done"
  <2>1. record' = disk' /\ disk' = Ended(g, op, ok)
    BY <1>5 DEF Persist
  <2>. QED  BY <1>1, <1>2, <1>5, <2>1
<1>. QED  BY <1>3, <1>4, <1>5, StagesAre

\* A pause with a new generation keeps the invariant and is a Pause or a Halt.
LEMMA PauseImplements ==
  ASSUME Readable, TypeOK, GenerationInv, up, NEW g \in Nat, g > record.generation, NEW stage \in Stages,
         Persist(g, "disable", TRUE, stage), Voids(stage), node'.enabled = FALSE, UNCHANGED asked
  PROVE  /\ up' => record' = disk'
         /\ \A a \in asked' : a <= disk'.generation + 1
         /\ \A a \in voided' : a <= disk'.generation
         /\ [Permission!Next]_<<node.enabled, asked, voided>>
<1>1. /\ record' = disk' /\ disk'.generation \in Nat /\ disk'.generation >= disk.generation
      /\ stage = "done" => disk'.generation = g
  BY PersistKeeps DEF GenerationInv, Operations
<1>2. disk.generation \in Nat /\ record = disk /\ asked \subseteq Nat /\ voided \subseteq Nat
  BY DEF TypeOK, Records, GenerationInv
<1>3. \A a \in asked' : a <= disk'.generation + 1
  BY <1>1, <1>2 DEF GenerationInv
<1>4. \A a \in voided' : a <= disk'.generation
  <2>1. CASE stage = "done"
    <3>1. \A a \in asked : a <= g
      BY <1>2 DEF GenerationInv
    <3>. QED  BY <3>1, <2>1, <1>1 DEF Voids
  <2>2. CASE stage # "done"
    BY <2>2, <1>1, <1>2 DEF Voids, GenerationInv
  <2>. QED  BY <2>1, <2>2
<1>5. Permission!Pause \/ Permission!Halt
  BY DEF Permission!Pause, Permission!Halt, Voids
<1>. QED  BY <1>1, <1>3, <1>4, <1>5 DEF Permission!Next

LEMMA PermissionStep ==
  ASSUME Readable, TypeOK, ControlInv, GenerationInv, [Next]_vars
  PROVE  GenerationInv' /\ [Permission!Next]_<<node.enabled, asked, voided>>
<1>. USE DEF vars, process, store, plant
<1>t. /\ node \in Nodes /\ disk \in Records /\ record \in Records /\ asked \subseteq Nat /\ voided \subseteq Nat
      /\ disk.generation \in Nat /\ record.generation \in Nat /\ MaxGeneration \in Nat
  BY TeleopAssumption DEF TypeOK, Records
\* Actions that change neither the generations nor what follows.
<1>a. ASSUME UNCHANGED <<up, disk, record, asked, voided>>, node'.enabled = node.enabled
      PROVE  GenerationInv' /\ [Permission!Next]_<<node.enabled, asked, voided>>
  BY <1>a DEF GenerationInv
<1>p. ASSUME up, NEW g \in Nat, g > record.generation, NEW stage \in Stages, UNCHANGED asked,
             Persist(g, "disable", TRUE, stage), Voids(stage), node'.enabled = FALSE
      PROVE  GenerationInv' /\ [Permission!Next]_<<node.enabled, asked, voided>>
  BY <1>p, PauseImplements DEF GenerationInv
<1>0. CASE UNCHANGED vars
  BY <1>0, <1>a
<1>1. CASE Ask
  <2>. DEFINE g == record.generation + 1
  <2>1. g \in 1..MaxGeneration /\ asked' = asked \cup {g} /\ record = disk
    BY <1>1, <1>t DEF Ask, GenerationInv
  <2>2. g \notin voided
    BY <2>1, <1>t DEF GenerationInv
  <2>3. Permission!Ask(g)
    BY <1>1, <2>1, <2>2 DEF Ask, Permission!Ask
  <2>4. GenerationInv'
    BY <1>1, <2>1, <1>t DEF Ask, GenerationInv
  <2>. QED  BY <2>1, <2>3, <2>4 DEF Permission!Next
<1>2. ASSUME NEW g \in asked, NEW healthy \in BOOLEAN, NEW stage \in Stages, Enable(g, healthy, stage)
      PROVE  GenerationInv' /\ [Permission!Next]_<<node.enabled, asked, voided>>
  <2>. DEFINE ok == Enables(healthy)
  <2>1. ok \in BOOLEAN /\ g \in Nat /\ g > record.generation /\ "enable" \in Operations
    BY <1>2, <1>t DEF Enables, Enable, Newer, Operations
  <2>2. /\ up /\ Persist(g, "enable", ok, stage) /\ UNCHANGED <<up, asked, voided>>
        /\ record = disk
    BY <1>2 DEF Enable, GenerationInv
  <2>. HIDE DEF ok
  <2>3. record' = disk' /\ disk'.generation \in Nat /\ disk'.generation >= disk.generation
    BY <2>1, <2>2, PersistKeeps
  <2>4. GenerationInv'
    BY <2>2, <2>3, <1>t DEF GenerationInv
  <2>5. g \notin voided
    BY <2>1, <2>2, <1>t DEF GenerationInv
  <2>6. Following(ok) \in Nodes /\ Following(ok).enabled = (ok \/ node.enabled)
    BY <2>1, <1>t, FollowingFields
  <2>7. node' = node \/ node' = Following(ok) \/ node' = Paused(Following(ok))
    BY <1>2, StagesAre DEF Enable, ok
  <2>8. node'.enabled = node.enabled \/ node'.enabled = TRUE \/ node'.enabled = FALSE
    BY <2>6, <2>7, <1>t, PausedFields DEF Nodes
  <2>9. Permission!Follow \/ Permission!Halt \/ UNCHANGED <<node.enabled, asked, voided>>
    BY <2>2, <2>5, <2>8 DEF Permission!Follow, Permission!Halt
  <2>. QED  BY <2>4, <2>9 DEF Permission!Next
<1>3. ASSUME NEW g \in 1..MaxGeneration, NEW stage \in Stages, Disable(g, stage)
      PROVE  GenerationInv' /\ [Permission!Next]_<<node.enabled, asked, voided>>
  <2>1. g \in Nat
    BY <1>t
  <2>2. node'.enabled = FALSE
    BY <1>3, <1>t, PausedFields, Zenon DEF Disable
  <2>. QED  BY <1>3, <2>1, <2>2, <1>p DEF Disable, Newer
<1>4. ASSUME NEW stage \in Stages, ReturnHome(stage)
      PROVE  GenerationInv' /\ [Permission!Next]_<<node.enabled, asked, voided>>
  <2>. DEFINE d == Disabled(node)
              h == [[[d EXCEPT !.referenced = FALSE] EXCEPT !.samples = 0] EXCEPT !.homing = "quiet"]
  <2>1. node' = h
    BY <1>4, Zenon DEF ReturnHome
  <2>2. d \in Nodes /\ d.enabled = FALSE
    BY <1>t, DisabledTypes, DisabledFields
  <2>3. h.enabled = FALSE
    <3>. HIDE DEF d
    <3>. QED  BY <2>2 DEF Nodes
  <2>4. node'.enabled = FALSE
    BY <2>1, <2>3, Zenon
  <2>5. record.generation + 1 \in Nat /\ record.generation + 1 > record.generation
    BY <1>t
  <2>. QED  BY <1>4, <2>4, <2>5, <1>p DEF ReturnHome
<1>5. ASSUME NEW healthy \in BOOLEAN, NEW good \in BOOLEAN, Calibrate(healthy, good)
      PROVE  GenerationInv' /\ [Permission!Next]_<<node.enabled, asked, voided>>
  <2>1. node'.enabled = node.enabled
    BY <1>5, <1>t, SampledFields, Zenon DEF Calibrate
  <2>. QED  BY <1>5, <2>1, <1>a DEF Calibrate
<1>6. CASE Initialize \/ HomeStarts \/ HomeStops \/ GripperFollows \/ GripperHolds \/ (\E r \in results : HomeResult(r))
  <2>1. node'.enabled = node.enabled
    BY <1>6, <1>t DEF Initialize, HomeStarts, HomeStops, HomeResult, GripperFollows, GripperHolds, Nodes
  <2>. QED
    BY <1>6, <2>1, <1>a DEF Initialize, HomeStarts, HomeStops, HomeResult, GripperFollows, GripperHolds
<1>7. CASE GripperReports
  <2>. DEFINE h == ~node.enabled
              n == [[node EXCEPT !.feedback = TRUE] EXCEPT !.held = h]
  <2>1. node' = n /\ UNCHANGED <<up, disk, record, asked, voided>>
    BY <1>7, Zenon DEF GripperReports
  <2>2. n.enabled = node.enabled
    <3>. HIDE DEF h
    <3>. QED  BY <1>t DEF Nodes
  <2>. QED  BY <2>1, <2>2, <1>a, Zenon
<1>8. ASSUME NEW stage \in Stages, TrackerLost(stage) \/ InputLost(stage)
      PROVE  GenerationInv' /\ [Permission!Next]_<<node.enabled, asked, voided>>
  <2>. DEFINE n == [node EXCEPT !.samples = 0]
  <2>1. n \in Nodes /\ n.enabled = node.enabled
    BY <1>t, NodeFields DEF Nodes
  <2>2. up /\ UNCHANGED <<up, asked>> /\ (SafetyPause(n, stage) \/ SafetyPause(node, stage))
    BY <1>8 DEF TrackerLost, InputLost
  <2>. HIDE DEF n
  <2>3. CASE node.enabled
    <3>1. /\ Persist(record.generation + 1, "disable", TRUE, stage) /\ Voids(stage)
          /\ node' = Disabled(n) \/ node' = Disabled(node)
      BY <2>2, <2>3 DEF SafetyPause
    <3>2. node'.enabled = FALSE
      BY <3>1, <2>1, <1>t, DisabledFields, Zenon
    <3>3. record.generation + 1 \in Nat /\ record.generation + 1 > record.generation
      BY <1>t
    <3>. QED  BY <2>2, <3>1, <3>2, <3>3, <1>p
  <2>4. CASE ~node.enabled
    <3>1. UNCHANGED <<disk, record, voided>> /\ (node' = n \/ node' = node)
      BY <2>2, <2>4 DEF SafetyPause
    <3>. QED  BY <2>1, <2>2, <3>1, <1>a
  <2>. QED  BY <2>3, <2>4
<1>9. CASE ArmDone \/ (\E i \in Inputs : Arrives(i) \/ Expires(i))
  BY <1>9, <1>a DEF Arrives, Expires, ArmDone
<1>10. ASSUME NEW stage \in Stages, Exit(stage)
       PROVE  GenerationInv' /\ [Permission!Next]_<<node.enabled, asked, voided>>
  <2>1. up /\ up' = FALSE /\ node'.enabled = FALSE /\ UNCHANGED asked
    BY <1>10 DEF Exit, Ends, Blank
  <2>2. CASE node.enabled
    <3>1. Persist(record.generation + 1, "disable", TRUE, stage) /\ Voids(stage)
      BY <1>10, <2>2 DEF Exit
    <3>2. record.generation + 1 \in Nat /\ record.generation + 1 > record.generation
      BY <1>t
    <3>. QED  BY <2>1, <3>1, <3>2, <1>p
  <2>3. CASE ~node.enabled
    <3>1. UNCHANGED <<disk, record, voided>>
      BY <1>10, <2>3 DEF Exit
    <3>2. node'.enabled = node.enabled
      BY <2>1, <2>3, <1>t DEF Nodes
    <3>. QED  BY <2>1, <3>1, <3>2 DEF GenerationInv
  <2>. QED  BY <2>2, <2>3
<1>11. CASE Crash
  <2>1. up /\ up' = FALSE /\ node'.enabled = FALSE /\ UNCHANGED <<asked, voided>>
    BY <1>11 DEF Crash, Ends, Blank
  <2>2. Permission!Halt
    BY <2>1 DEF Permission!Halt
  <2>3. disk'.generation \in Nat /\ disk'.generation >= disk.generation
    <3>1. \A g, op : Pending(g, op).generation = g
      BY DEF Pending
    <3>2. \/ disk' = disk
          \/ \E g \in Nat : g > disk.generation /\ (disk' = Pending(g, "enable") \/ disk' = Pending(g, "disable"))
      BY <1>11, <2>1, <1>t DEF Crash, GenerationInv, Newer
    <3>. QED  BY <3>1, <3>2, <1>t
  <2>4. GenerationInv'
    BY <2>1, <2>3, <1>t DEF GenerationInv
  <2>. QED  BY <2>2, <2>4 DEF Permission!Next
<1>12. CASE Restart
  <2>1. /\ ~up /\ record' = disk' /\ disk' = Restored(disk) /\ UNCHANGED <<asked, voided>>
        /\ \E b \in Calibrations : node' = Started(b)
    BY <1>12, Zenon DEF Restart
  <2>2. node.enabled = FALSE /\ node'.enabled = FALSE
    BY <2>1 DEF ControlInv, Asleep, Started, Blank
  <2>3. disk'.generation = disk.generation
    BY <2>1, <1>t DEF Restored, Records
  <2>4. GenerationInv'
    BY <2>1, <2>3, <1>t DEF GenerationInv
  <2>. QED  BY <2>1, <2>2, <2>4
<1>. QED
  BY <1>0, <1>1, <1>2, <1>3, <1>4, <1>5, <1>6, <1>7, <1>8, <1>9, <1>10, <1>11, <1>12
  DEF Next, Service, Tick, Callback, External

\* If the file can be read after a write that failed, the node implements
\* ArmPermission: across failing writes, crashes and restarts no request to enable
\* has an effect after a pause that was confirmed later than it was made.
THEOREM PermissionCorrect ==
  ASSUME Readable
  PROVE  Spec => ImplementsPermission
<1>1. Init => GenerationInv /\ Permission!Init
  <2>1. ASSUME Init PROVE GenerationInv /\ Permission!Init
    <3>1. record = disk /\ asked = {} /\ voided = {} /\ \E b \in Calibrations : node = Started(b)
      BY <2>1 DEF Init
    <3>2. node.enabled = FALSE
      BY <3>1 DEF Started, Blank
    <3>. QED  BY <3>1, <3>2 DEF GenerationInv, Permission!Init
  <2>. QED  BY <2>1
<1>2. Init => ControlInv
  BY ControlInit
<1>3. TypeOK /\ ControlInv /\ GenerationInv /\ [Next]_vars
        => ControlInv' /\ GenerationInv' /\ [Permission!Next]_<<node.enabled, asked, voided>>
  BY ControlStep, PermissionStep
<1>. QED  BY <1>1, <1>2, <1>3, TypesCorrect, PTL DEF Spec, ImplementsPermission, Permission!Spec
=============================================================================
