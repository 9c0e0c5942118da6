--------------------------- MODULE TeleopControl ---------------------------
(***************************************************************************)
(* tracker_teleoperated: the node that makes the arm follow a tracker      *)
(* (node.py) with the file of its generations (teleop_generation.py) and   *)
(* the rule of its gripper (gripper_follow.py).                            *)
(*                                                                         *)
(* The node spins in one thread, so a callback, a service or a control     *)
(* tick is one action; only the process may die inside one.  Requests to   *)
(* enable travel: a panel reads the generation (Ask) and its request may   *)
(* be delivered at any later time, repeatedly, or never.  The values of    *)
(* poses and joints are the choice whether they are healthy; which of the  *)
(* inputs is younger than its time-out is kept, for that is what stops an  *)
(* arm that nobody watches or that does not report.  The driver of the arm *)
(* is external: it moves, stops and reports results.                       *)
(***************************************************************************)
EXTENDS Naturals, FiniteSets

CONSTANTS MaxGeneration,  \* bound on the generations of a behaviour
          MaxRestarts,    \* bound on the restarts of the node
          Faults          \* what may fail in this instance

\* "write":  a write of the file of generations raises, before or after it took effect
\* "reload": reading the file back after that raises too
\* "late":   the result of a move that was stopped is still under way when the next is sent
\* "crash":  the node dies without its orderly exit
AllFaults == {"write", "reload", "late", "crash"}

ASSUME TeleopAssumption ==
  MaxGeneration \in Nat \ {0} /\ MaxRestarts \in Nat /\ Faults \subseteq AllFaults

VARIABLES
  mode,          \* _mapping_mode
  up, restarts,  \* the node runs; its restarts so far
  disk,          \* the record in the file of generations
  record,        \* the record in memory
  fault,         \* _generation_fault
  node,          \* the rest of the state of the node
  fresh,         \* the inputs whose last message is younger than its time-out
  arm,           \* external: still, in a move of this node, or in one of a dead node
  results,       \* external: results of moves under way to the node
  gripper,       \* external: the last target the gripper was given
  asked,         \* the generations panels have asked to enable with
  voided,        \* history: what was asked when a pause was last confirmed
  loaded         \* history: the generation the node started with

store   == <<disk, record, fault>>
process == <<mode, up, restarts, loaded>>
plant   == <<arm, results, gripper>>
vars    == <<process, store, node, fresh, plant, asked, voided>>

Inputs == {"panel", "joints", "pose"}
\* What a homing looks at: the heartbeat and the feedback.
HomeInputs == {"panel", "joints"}

Operations == {"none", "enable", "disable"}
Records == [generation : Nat, operation : Operations, done : BOOLEAN, success : BOOLEAN]
Nodes == [enabled : BOOLEAN,
          homing : {"no", "quiet", "moving"},  \* _homing, with and without a _pending_home_command
          referenced : BOOLEAN,                \* the reference poses are set
          basis : BOOLEAN,                     \* _mapping_basis is set
          samples : 0..2,                      \* points of an unfinished calibration
          feedback : BOOLEAN,                  \* the gripper has reported an opening
          held : BOOLEAN]                      \* _hold_sent of the GripperFollower

Blank == [enabled |-> FALSE, homing |-> "no", referenced |-> FALSE, basis |-> FALSE,
          samples |-> 0, feedback |-> FALSE, held |-> FALSE]
\* A node that has started, with or without a stored calibration.
Started(b) == [Blank EXCEPT !.basis = b]
Calibrations == IF mode = "workspace" THEN BOOLEAN ELSE {FALSE}

-----------------------------------------------------------------------------
(* The file of generations.  An operation is written twice, before and     *)
(* after it takes place.  Where the writing ends: "none" when begin        *)
(* raised, "begun" when finish raised, "done" when neither did.            *)

Stages == IF "write" \in Faults THEN {"none", "begun", "done"} ELSE {"done"}

Pending(g, op) == [generation |-> g, operation |-> op, done |-> FALSE, success |-> FALSE]
Ended(g, op, ok) == [generation |-> g, operation |-> op, done |-> TRUE, success |-> ok]

\* A write of r that raises: the file has r or still old, and memory has what
\* the file has, or r if the file cannot be read either.
FailedWrite(old, r) == /\ disk' \in {old, r}
                       /\ record' = disk' \/ ("reload" \in Faults /\ record' = r)

Persist(g, op, ok, stage) ==
  /\ \/ stage = "none" /\ FailedWrite(disk, Pending(g, op))
     \/ stage = "begun" /\ FailedWrite(Pending(g, op), Ended(g, op, ok))
     \/ stage = "done" /\ disk' = Ended(g, op, ok) /\ record' = disk'
  /\ fault' = (fault \/ stage # "done")

\* mutant: a generation is accepted once more
NewerOrSame(g) == g >= record.generation
\* begin accepts only a generation above the last one.
Newer(g) == g > record.generation

\* A pause that was written voids what was asked before it.
Voids(stage) == voided' = IF stage = "done" THEN asked ELSE voided

-----------------------------------------------------------------------------
(* What stopping does to the node and to what it commands.                 *)

\* mutant: the gripper is not told to hold
DisabledOpen(n) == [n EXCEPT !.enabled = FALSE, !.referenced = FALSE]
Disabled(n) == IF n.enabled THEN [n EXCEPT !.enabled = FALSE, !.referenced = FALSE,
                                           !.held = @ \/ n.feedback]
               ELSE n

Paused(n) == [Disabled(n) EXCEPT !.homing = "no", !.samples = 0]

\* _disable gives the gripper its measured opening once.
GripperPaused == gripper' = IF node.enabled /\ node.feedback /\ ~node.held THEN "hold" ELSE gripper

\* mutant: the move goes on
StopHomingSilently == UNCHANGED <<arm, results>>
\* _stop_homing: whatever the arm is moving for, move_stop ends it, and the result of
\* that move is still to come.
StopHoming ==
  IF node.homing = "no" THEN UNCHANGED <<arm, results>>
  ELSE /\ arm' = "still"
       /\ results' = IF arm = "still" /\ "current" \notin results THEN results ELSE {"stale"}

-----------------------------------------------------------------------------
Init == /\ mode \in {"workspace", "reference_eef"}
        /\ up = TRUE /\ restarts = 0 /\ loaded = 0
        /\ disk = Ended(0, "none", FALSE) /\ record = disk /\ fault = FALSE
        /\ \E b \in Calibrations : node = Started(b)
        /\ fresh = {}
        /\ arm = "still" /\ results = {} /\ gripper = "none"
        /\ asked = {} /\ voided = {}

(* Services                                                                *)

\* get_generation, answered to a panel that is about to enable.  The last
\* generation is left for the pause that must follow.
Ask == /\ up /\ record.generation + 1 < MaxGeneration
       /\ asked' = asked \cup {record.generation + 1}
       /\ UNCHANGED <<process, store, node, fresh, plant, voided>>

\* mutant: a calibration or a homing under way does not count
EnablesHoming(healthy) == node.enabled \/ (healthy /\ fresh = Inputs)
\* The request is accepted if the arm already follows, or nothing stands
\* against it and the inputs are healthy.
Enables(healthy) ==
  /\ node.homing = "no"
  /\ \/ node.enabled
     \/ /\ healthy /\ fresh = Inputs /\ node.samples = 0
        /\ node.basis \/ mode = "reference_eef"

\* mutant: the reference poses are left from the last time
FollowingFrom(ok) == IF ok THEN [node EXCEPT !.enabled = TRUE] ELSE node
Following(ok) == IF ok /\ ~node.enabled
                 THEN [node EXCEPT !.enabled = TRUE, !.referenced = TRUE, !.basis = TRUE]
                 ELSE node

Enable(g, healthy, stage) ==
  /\ up /\ g \in asked /\ Newer(g) /\ ~fault
  /\ Persist(g, "enable", Enables(healthy), stage)
  /\ node' = CASE stage = "none"  -> node
               [] stage = "begun" -> Paused(Following(Enables(healthy)))
               [] stage = "done"  -> Following(Enables(healthy))
  /\ IF stage = "begun" THEN GripperPaused /\ StopHoming ELSE UNCHANGED plant
  /\ UNCHANGED <<process, fresh, asked, voided>>

\* disable, or set_enabled(FALSE) with the next generation: the arm is paused
\* even if nothing can be written.
Disable(g, stage) ==
  /\ up /\ Newer(g) /\ g <= MaxGeneration
  /\ Persist(g, "disable", TRUE, stage) /\ Voids(stage)
  /\ node' = Paused(node) /\ GripperPaused /\ StopHoming
  /\ UNCHANGED <<process, fresh, asked>>

\* return_home pauses, with a generation even if the arm was paused, and waits
\* for the old commands to drain.
ReturnHome(stage) ==
  /\ up /\ node.homing = "no" /\ HomeInputs \subseteq fresh /\ record.generation < MaxGeneration
  /\ Persist(record.generation + 1, "disable", TRUE, stage) /\ Voids(stage)
  /\ node' = [Disabled(node) EXCEPT !.referenced = FALSE, !.samples = 0, !.homing = "quiet"]
  /\ GripperPaused
  /\ UNCHANGED <<process, fresh, arm, results, asked>>

\* mutant: the points of a calibration that failed are kept
SampledOn(healthy, good) ==
  IF healthy /\ (node.samples < 2 \/ ~good) THEN [node EXCEPT !.samples = @ + 1]
  ELSE [node EXCEPT !.samples = 0, !.basis = TRUE]
\* The third point sets the mapping if the points are good and the file of the
\* calibration can be written; a tracker that is not healthy cancels the points.
Sampled(healthy, good) ==
  IF healthy /\ node.samples < 2 THEN [node EXCEPT !.samples = @ + 1]
  ELSE IF healthy /\ good
       THEN [node EXCEPT !.samples = 0, !.basis = TRUE, !.referenced = FALSE]
       ELSE [node EXCEPT !.samples = 0]

\* calibrate_workspace records a point.
Calibrate(healthy, good) ==
  /\ healthy => "pose" \in fresh
  /\ up /\ mode = "workspace" /\ ~node.enabled /\ node.homing = "no"
  /\ node' = Sampled(healthy, good)
  /\ UNCHANGED <<process, store, fresh, plant, asked, voided>>

\* initialize takes the present poses as the new reference, following or not.
Initialize ==
  /\ up /\ node.homing = "no" /\ node.samples = 0 /\ fresh = Inputs
  /\ node.basis \/ mode = "reference_eef"
  /\ node' = [node EXCEPT !.referenced = TRUE, !.basis = TRUE]
  /\ UNCHANGED <<process, store, fresh, plant, asked, voided>>

-----------------------------------------------------------------------------
(* Subscriptions and the control tick                                      *)

\* mutant: the pause is not fenced
UnfencedPause(n, stage) == /\ node' = Disabled(n) /\ GripperPaused
                           /\ UNCHANGED <<store, voided>>
\* _disable for a reason of the node's own: a fence is written only if the arm
\* follows, and the arm is paused whether or not it can be written.
SafetyPause(n, stage) ==
  IF node.enabled
  THEN /\ Persist(record.generation + 1, "disable", TRUE, stage) /\ Voids(stage)
       /\ node' = Disabled(n) /\ GripperPaused
  ELSE node' = n /\ UNCHANGED <<store, voided, gripper>>

\* An invalid status or pose of the tracker also cancels a calibration.
TrackerLost(stage) == /\ up /\ SafetyPause([node EXCEPT !.samples = 0], stage)
                      /\ UNCHANGED <<process, fresh, arm, results, asked>>

\* A tick that finds the heartbeat, the joints or the pose too old, or no
\* solution; or a tracker that has relocalised.
InputLost(stage) == /\ up /\ node.enabled /\ SafetyPause(node, stage)
                    /\ UNCHANGED <<process, fresh, arm, results, asked>>

\* Assumed of the driver: the quiet period before a move outlasts the results of the
\* moves that were stopped before; the node ignores what arrives in it.
QuietOutlasts == "late" \in Faults \/ "stale" \notin results

\* The tick in which the quiet period of a homing is over sends the move.
HomeStarts == /\ up /\ node.homing = "quiet" /\ HomeInputs \subseteq fresh /\ QuietOutlasts
              /\ node' = [node EXCEPT !.homing = "moving"]
              /\ arm' = "moving"
              /\ UNCHANGED <<process, store, fresh, results, gripper, asked, voided>>

\* The tick that gives up a homing: heartbeat, joints or the limit of its time.
HomeStops == /\ up /\ node.homing # "no"
             /\ node' = [node EXCEPT !.homing = "no"] /\ StopHoming
             /\ UNCHANGED <<process, store, fresh, gripper, asked, voided>>

\* A result has no identifier: it ends whatever move is under way.
HomeResult(r) == /\ up /\ r \in results
                 /\ results' = results \ {r}
                 /\ node' = IF node.homing = "moving" THEN [node EXCEPT !.homing = "no"] ELSE node
                 /\ UNCHANGED <<process, store, fresh, arm, gripper, asked, voided>>

\* A tick while the arm follows sends the estimate if it and the feedback are good.
GripperFollows == /\ up /\ node.enabled /\ node.feedback /\ fresh = Inputs
                  /\ node' = [node EXCEPT !.held = FALSE] /\ gripper' = "estimate"
                  /\ UNCHANGED <<process, store, fresh, arm, results, asked, voided>>

\* A tick, an invalid estimate or an invalid feedback: the last opening, once.
GripperHolds == /\ up /\ node.feedback /\ ~node.held
                /\ node' = [node EXCEPT !.held = TRUE] /\ gripper' = "hold"
                /\ UNCHANGED <<process, store, fresh, arm, results, asked, voided>>

\* The first opening the gripper reports; it is held at once if paused.
GripperReports == /\ up /\ ~node.feedback
                  /\ node' = [node EXCEPT !.feedback = TRUE, !.held = ~node.enabled]
                  /\ gripper' = IF node.enabled THEN gripper ELSE "hold"
                  /\ UNCHANGED <<process, store, fresh, arm, results, asked, voided>>

\* A heartbeat, a joint state or a pose; and the time since the last one passes its limit.
Arrives(i) == /\ up /\ fresh' = fresh \cup {i}
              /\ UNCHANGED <<process, store, node, plant, asked, voided>>
Expires(i) == /\ fresh' = fresh \ {i}
              /\ UNCHANGED <<process, store, node, plant, asked, voided>>

-----------------------------------------------------------------------------
(* The driver and the process                                              *)

ArmDone == /\ arm # "still" /\ arm' = "still"
           /\ results' = CASE arm = "moving" -> results \cup {"current"}
                           [] arm = "orphan" -> results \cup {"stale"}
           /\ UNCHANGED <<process, store, node, fresh, gripper, asked, voided>>

Ends == /\ up' = FALSE /\ node' = Blank /\ fresh' = {}
        /\ UNCHANGED <<mode, restarts, loaded, asked>>

\* main: an orderly exit stops a homing and pauses.
Exit(stage) ==
  /\ up /\ StopHoming /\ Ends
  /\ IF node.enabled
     THEN /\ Persist(record.generation + 1, "disable", TRUE, stage) /\ Voids(stage)
          /\ GripperPaused
     ELSE UNCHANGED <<store, voided, gripper>>

\* The process dies, between two callbacks or after an operation was begun.
Crash == /\ "crash" \in Faults /\ up /\ Ends
         /\ \/ disk' = disk
            \/ \E g \in asked : Newer(g) /\ ~fault /\ disk' = Pending(g, "enable")
            \/ \E g \in 1..MaxGeneration : Newer(g) /\ disk' = Pending(g, "disable")
         /\ arm' = IF arm = "moving" THEN "orphan" ELSE arm
         /\ results' = IF results = {} THEN {} ELSE {"stale"}
         /\ gripper' = IF gripper = "estimate" THEN "orphan" ELSE gripper
         /\ UNCHANGED <<record, fault, voided>>

\* The store reads its file; an operation that was only begun has failed.
Restored(d) == [d EXCEPT !.done = TRUE]

Restart == /\ ~up /\ restarts < MaxRestarts
           /\ up' = TRUE /\ restarts' = restarts + 1
           /\ disk' = Restored(disk) /\ record' = disk' /\ fault' = FALSE
           /\ loaded' = disk'.generation
           /\ \E b \in Calibrations : node' = Started(b)
           /\ UNCHANGED <<mode, fresh, plant, asked, voided>>

Service == \/ Ask
           \/ \E g \in asked, healthy \in BOOLEAN, stage \in Stages : Enable(g, healthy, stage)
           \/ \E g \in 1..MaxGeneration, stage \in Stages : Disable(g, stage)
           \/ \E stage \in Stages : ReturnHome(stage)
           \/ \E healthy, good \in BOOLEAN : Calibrate(healthy, good)
           \/ Initialize
Tick == \/ \E stage \in Stages : InputLost(stage)
        \/ HomeStarts \/ HomeStops \/ GripperFollows \/ GripperHolds
Callback == \/ \E stage \in Stages : TrackerLost(stage)
            \/ \E r \in results : HomeResult(r)
            \/ GripperReports
            \/ \E i \in Inputs : Arrives(i) \/ Expires(i)
External == ArmDone \/ (\E stage \in Stages : Exit(stage)) \/ Crash \/ Restart
Next == Service \/ Tick \/ Callback \/ External

Spec == Init /\ [][Next]_vars

\* The control timer keeps running: an input that is too old is acted upon.
TimesOut == \/ fresh # Inputs /\ \E stage \in Stages : InputLost(stage)
            \/ ~(HomeInputs \subseteq fresh) /\ HomeStops
FairSpec == Spec /\ WF_vars(TimesOut)

-----------------------------------------------------------------------------
TypeOK == /\ mode \in {"workspace", "reference_eef"}
          /\ up \in BOOLEAN /\ restarts \in Nat /\ loaded \in Nat
          /\ disk \in Records /\ record \in Records /\ fault \in BOOLEAN
          /\ node \in Nodes /\ fresh \subseteq Inputs
          /\ arm \in {"still", "moving", "orphan"} /\ results \subseteq {"current", "stale"}
          /\ gripper \in {"none", "estimate", "hold", "orphan"}
          /\ asked \subseteq Nat /\ voided \subseteq Nat

\* The arm never follows the tracker while it executes a move this node sent:
\* whatever ends a homing, a pause, a time-out, a result, either the arm was
\* stopped or the move is over (_stop_homing, _home_result_callback).
HomeExclusive == node.enabled => arm # "moving"

\* While the arm follows, the reference poses and the mapping exist and no
\* homing is under way: no service clears under the tick what its assertions need.
ReferenceReady == node.enabled => node.referenced /\ node.basis /\ node.homing = "no"

\* An arm that follows has what it follows with and does nothing else.
FollowsAlone == ReferenceReady /\ HomeExclusive

\* The gripper follows the estimate only while the arm follows the tracker; a
\* node that is paused and knows an opening has sent it as the last target.
GripperIsHeld == /\ gripper = "estimate" => node.enabled
                 /\ up /\ ~node.enabled /\ node.feedback => gripper = "hold" /\ node.held

\* A repeated enable gets its first answer.  If that was a success of this
\* process the arm still follows: everything that pauses takes a generation.
RepeatedAnswerIsTrue ==
  up /\ ~fault /\ record.operation = "enable" /\ record.success /\ record.generation > loaded
    => node.enabled

\* A pause that was confirmed is never undone by a request to enable that was
\* made before it, however late or often it is delivered, across failing
\* writes, crashes and restarts.
Permission == INSTANCE ArmPermission
                WITH Requests <- 1..MaxGeneration, following <- node.enabled, void <- voided
ImplementsPermission == Permission!Spec

\* Whichever input is lost, the arm comes to rest and stays there, whatever the others do:
\* without the pose it does not follow the tracker; without the panel or the feedback it
\* executes no move of this node either.
InputLossStops ==
  /\ \A i \in HomeInputs :
       <>[](i \notin fresh) => <>[](~node.enabled /\ node.homing = "no" /\ arm # "moving")
  /\ <>[]("pose" \notin fresh) => <>[]~node.enabled
=============================================================================
