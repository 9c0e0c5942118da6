---------------------------- MODULE TeleopPanel ----------------------------
(***************************************************************************)
(* The teleoperation panel (teleop_panel.cpp): one key starts or stops the *)
(* arm and the remote recording together, and what was only half started   *)
(* is rolled back.                                                         *)
(*                                                                         *)
(* The panel runs in one thread, so a press, an answer or a time-out is    *)
(* one action.  Its calls are answered in any order, late or never.  The   *)
(* node is what TeleopControl makes of its services: a generation that     *)
(* only grows and an arm that follows or does not.  The recorder is        *)
(* external.  Who waits for a call stands for the sequence number and the  *)
(* state the code compares in the callback: once they changed, nobody      *)
(* waits.                                                                  *)
(***************************************************************************)
EXTENDS Naturals

CONSTANTS Presses,   \* how often the operator presses each button, and any button
          MaxLosses  \* bound on the calls and answers that are lost

\* The buttons modelled, and "any" of them.
Buttons == {"combined", "toggle", "pause", "record", "home", "discard", "any"}

ASSUME PanelAssumption == Presses \in [Buttons -> Nat] /\ MaxLosses \in Nat

VARIABLES
  node,     \* generation, operation, success: the record of the node; enabled
  recorder, \* external: the state of each request to record, by its UUID
  calls,    \* requests and answers under way
  panel,    \* the members of TeleopPanel
  presses,  \* presses left
  losses    \* losses left

vars == <<node, recorder, calls, panel, presses, losses>>

Ids == 1 .. Presses["combined"] + Presses["record"]
NoId == 0
Terminal == {"completed", "failed", "cancelled"}
Operations == {"Idle", "Starting", "RollingBack", "Stopping", "Discarding"}
Answers == {"none", "ok", "failed"}
Outcome(ok) == IF ok THEN "ok" ELSE "failed"

Init ==
  /\ node = [generation |-> 0, operation |-> "disable", success |-> TRUE, enabled |-> FALSE]
  /\ recorder = [i \in Ids |-> "none"]
  /\ calls = {} /\ presses = Presses /\ losses = MaxLosses
  /\ panel = [operation |-> "Idle", pending |-> FALSE,
              manualEnable |-> FALSE, manualGeneration |-> 0,
              startGeneration |-> 0, request |-> NoId,    \* combined_enable_generation_, combined_request_id_
              pauseControl |-> TRUE, controlDone |-> FALSE, recordDone |-> FALSE,  \* recovery_*
              control |-> "none", record |-> "none", fallback |-> "none",          \* combined_*
              recordPending |-> FALSE, manualStart |-> FALSE, manualRequest |-> NoId,
              ids |-> 0,                                  \* UUIDs created
              state |-> "idle", recording |-> NoId]       \* what the topic of the recorder said

-----------------------------------------------------------------------------
(* Calls                                                                   *)

\* Requests that take effect even if nobody waits for their answer.
Effects == {"set", "start", "stop", "cancel", "home"}

\* mutant: nothing is forgotten, only nobody waits for it
SupersededKept(Q, W) == {IF q.who \in W THEN [q EXCEPT !.who = "nobody"] ELSE q : q \in Q}
\* The calls left in Q when the sequence W waited with has moved on.
Superseded(Q, W) == {q \in Q : q.who \notin W}
              \cup {[q EXCEPT !.who = "nobody"] : q \in {r \in Q : r.who \in W /\ r.call \in Effects}}


\* requestControl asks for the generation first; ControlRead goes on with it.
RequestControl(who, enable, floor) ==
  [call |-> "ask", who |-> who, enable |-> enable, floor |-> floor]
Recording(call, who, id) == [call |-> call, who |-> who, id |-> id]
Answered(call, who, ok) == [call |-> call, who |-> who, ok |-> ok]
\* The answer to q, if somebody waits for it.
Reply(q, answer) == (calls \ {q}) \cup (IF q.who \in {"nobody", "unguarded"} THEN {} ELSE {answer})

\* Who waits with combined_sequence_ and combined_operation_.
Waiters == {"start", "stop", "recovery"}

\* mutant: not beyond the one that is known
Reused(a, b) == IF a = 0 /\ b = 0 THEN 1 ELSE IF a > b THEN a ELSE b
\* Each generation is after those the panel knows of.
After(a, b) == 1 + IF a > b THEN a ELSE b

-----------------------------------------------------------------------------
(* Roll-back of a start                                                    *)

\* A round asks for what has not been confirmed.  Pruning forgets every older
\* question for the generation, whoever asked it.
AdvanceCombinedRecovery(p, Q) ==
  {q \in Q : p.controlDone \/ q.call \notin {"ask", "read"}}
    \cup (IF p.recordDone THEN {}
          ELSE {Recording("cancel_request", "nobody", p.request), Recording("query", "recovery", p.request)})
    \cup (IF p.controlDone THEN {} ELSE {RequestControl("recovery", FALSE, 0)})

BeginCombinedRollback(p, Q) ==
  LET r == [p EXCEPT !.operation = "RollingBack", !.recordPending = FALSE,
                     !.recordDone = p.request = NoId, !.controlDone = ~p.pauseControl]
  IN  /\ panel' = r
      /\ calls' = AdvanceCombinedRecovery(r, Superseded(Q, Waiters))

\* finishCombinedAction
FinishCombined(p, Q) == /\ panel' = [p EXCEPT !.operation = "Idle"]
                        /\ calls' = Superseded(Q, Waiters)

EvaluateCombinedRollback(p, Q) ==
  IF p.controlDone /\ p.recordDone THEN FinishCombined(p, Q) ELSE panel' = p /\ calls' = Q

\* refresh once a second.  A round finds the answers of the last one handled;
\* an answer that takes longer is dropped with its question, as if lost.
RecoveryRound ==
  /\ panel.operation = "RollingBack" /\ \A q \in calls : q.who # "recovery"
  /\ calls' = AdvanceCombinedRecovery(panel, calls)
  /\ UNCHANGED <<node, recorder, panel, presses, losses>>

\* mutant: the enable under way is forgotten
SafeNow(q) == ~q.enabled
\* What get_generation must answer: paused, and the enable of the start is past.
Safe(q) == ~q.enabled /\ q.generation >= panel.startGeneration

RecoveryRead(q) ==
  /\ q.call = "read" /\ q.who = "recovery"
  /\ IF Safe(q)
     THEN EvaluateCombinedRollback([panel EXCEPT !.controlDone = TRUE], calls \ {q})
     ELSE /\ calls' = (calls \ {q}) \cup
               {[call |-> "set", who |-> "nobody", enable |-> FALSE,
                 generation |-> After(q.generation, panel.startGeneration)]}
          /\ UNCHANGED panel
  /\ UNCHANGED <<node, recorder, presses, losses>>

\* get_request: only a final state settles the recording.
Settles(state) == state \in Terminal

\* The answer is the state when it was asked for: a final one stays.
RecoveryFound(q) ==
  /\ q.call = "query"
  /\ EvaluateCombinedRollback([panel EXCEPT !.recordDone = @ \/ Settles(recorder[q.id])], calls \ {q})
  /\ UNCHANGED <<node, recorder, presses, losses>>

-----------------------------------------------------------------------------
(* Combined start, stop and discard                                        *)

EvaluateCombinedStart(p, Q) ==
  \/ "none" \in {p.control, p.record} /\ panel' = p /\ calls' = Q
  \/ {p.control, p.record} = {"ok"} /\ FinishCombined(p, Q)
  \/ /\ "none" \notin {p.control, p.record} /\ "failed" \in {p.control, p.record}
     /\ BeginCombinedRollback(p, Q)

\* mutant: the answer to the pause is not waited for
StopUnanswered(p) == "none" \in {p.control, p.record}
\* A homing that was refused is waited for until the pause is answered.
Unanswered(p) == "none" \in {p.control, p.record} \/ (p.control = "failed" /\ p.fallback = "started")

\* evaluateCombinedStop and evaluateCombinedDiscard
EvaluateCombinedStop(p, Q) ==
  IF p.control = "failed" /\ p.fallback = "none"
  THEN /\ panel' = [p EXCEPT !.fallback = "started"]
       /\ calls' = Q \cup {RequestControl("stop", FALSE, 0)}
  ELSE IF Unanswered(p) THEN panel' = p /\ calls' = Q ELSE FinishCombined(p, Q)

\* mutant: a combined operation under way does not count
AvailableMeanwhile == ~panel.pending
Available == ~panel.pending /\ panel.operation = "Idle"
\* The buttons A and Backspace, and Enter which looks at them.
Records(state) == Available /\ ~panel.recordPending /\ panel.state = state

Press(b) == /\ presses[b] > 0 /\ presses["any"] > 0
            /\ presses' = [presses EXCEPT ![b] = @ - 1, !["any"] = @ - 1]
\* What a combined operation starts with.
Combined(p, operation) == [p EXCEPT !.operation = operation, !.recordPending = TRUE,
                                    !.control = "none", !.record = "none", !.fallback = "none"]

StartCombinedAction ==
  /\ Press("combined") /\ Records("idle")
  /\ LET id == panel.ids + 1
     IN  /\ panel' = [Combined(panel, "Starting") EXCEPT !.ids = id, !.request = id,
                               !.startGeneration = 0, !.pauseControl = TRUE]
         /\ calls' = calls \cup {RequestControl("start", TRUE, 0), Recording("start", "start", id)}
  /\ UNCHANGED <<node, recorder, losses>>

StopCombinedAction ==
  /\ Press("combined") /\ Records("recording")
  /\ panel' = Combined(panel, "Stopping")
  /\ calls' = calls \cup {Recording("stop", "stop", panel.recording), Recording("home", "stop", NoId)}
  /\ UNCHANGED <<node, recorder, losses>>

DiscardCombinedAction ==
  /\ Press("discard") /\ Records("recording")
  /\ panel' = Combined(panel, "Discarding")
  /\ calls' = calls \cup {Recording("cancel", "stop", panel.recording), Recording("home", "stop", NoId)}
  /\ UNCHANGED <<node, recorder, losses>>

-----------------------------------------------------------------------------
(* The other buttons                                                       *)

\* What a pause must outrun: the enable that has been sent and not answered.
Floor(enable) == IF enable THEN 0 ELSE panel.manualGeneration

\* toggle and pause outside a combined start.
ManualControl(enable) ==
  /\ panel' = [panel EXCEPT !.pending = TRUE, !.manualEnable = enable, !.manualGeneration = 0]
  /\ calls' = Superseded(calls, {"manual"}) \cup {RequestControl("manual", enable, Floor(enable))}

\* The topic of the node may still say that it is paused; when it still says
\* that it follows, the button is one that pauses, like the next.
Toggle == /\ Press("toggle") /\ Available
          /\ \E enabled \in {FALSE, node.enabled} : ManualControl(~enabled)
          /\ UNCHANGED <<node, recorder, losses>>

\* The pause button needs no other operation to be over.
Pause == /\ Press("pause")
         /\ IF panel.operation = "Starting" THEN BeginCombinedRollback(panel, calls)
            ELSE ManualControl(FALSE)
         /\ UNCHANGED <<node, recorder, losses>>

\* trigger("return_home")
Home == /\ Press("home") /\ Available
        /\ panel' = [panel EXCEPT !.pending = TRUE]
        /\ calls' = Superseded(calls, {"manual"}) \cup {Recording("home", "manual", NoId)}
        /\ UNCHANGED <<node, recorder, losses>>

\* recordingAction: discard what is being recorded, stop it, or start.
RecordingAction(p, Q, discard) ==
  LET starts == ~discard /\ p.state # "recording"
      id     == p.ids + 1
  IN  /\ panel' = [p EXCEPT !.recordPending = TRUE, !.manualStart = starts,
                            !.ids = IF starts THEN id ELSE @,
                            !.manualRequest = IF starts THEN id ELSE @]
      /\ calls' = Superseded(Q, {"record"}) \cup
           {IF starts THEN Recording("start", "record", id)
            ELSE Recording(IF discard THEN "cancel" ELSE "stop", "record", p.recording)}

Record == /\ Press("record") /\ (Records("idle") \/ Records("recording"))
          /\ RecordingAction(panel, calls, FALSE)
          /\ UNCHANGED <<node, recorder, losses>>

-----------------------------------------------------------------------------
(* Time-outs: refresh finds a deadline passed                              *)

ManualTimeout ==
  /\ panel.pending
  /\ LET p == [panel EXCEPT !.pending = FALSE, !.manualEnable = FALSE]
         Q == Superseded(calls, {"manual"})
     IN  IF panel.manualEnable
         THEN BeginCombinedRollback([p EXCEPT !.request = NoId, !.pauseControl = TRUE,
                                              !.startGeneration = p.manualGeneration], Q)
         ELSE panel' = p /\ calls' = Q
  /\ UNCHANGED <<node, recorder, presses, losses>>

\* What is not a start asks for the status of the recorder instead.
RecordTimeout ==
  /\ panel.recordPending /\ panel.operation = "Idle"
  /\ LET p == [panel EXCEPT !.recordPending = FALSE, !.manualStart = FALSE]
         Q == Superseded(calls, {"record"})
     IN  IF panel.manualStart
         THEN BeginCombinedRollback([p EXCEPT !.request = p.manualRequest, !.pauseControl = FALSE,
                                              !.startGeneration = 0], Q)
         ELSE panel' = p /\ calls' = Q
  /\ UNCHANGED <<node, recorder, presses, losses>>

StartTimeout == /\ panel.operation = "Starting"
                /\ BeginCombinedRollback(panel, calls)
                /\ UNCHANGED <<node, recorder, presses, losses>>

\* The arm is paused for certain, and what was to be stopped or discarded is
\* asked for once more; a discard looks at the status first.
StopTimeout ==
  /\ panel.operation \in {"Stopping", "Discarding"}
  /\ LET p == [panel EXCEPT !.operation = "Idle"]
         Q == Superseded(calls, Waiters) \cup {RequestControl("unguarded", FALSE, 0)}
     IN  IF panel.operation = "Stopping" /\ panel.state = "recording"
         THEN RecordingAction(p, Q, FALSE)
         ELSE /\ panel' = p
              /\ calls' = IF panel.operation = "Stopping" THEN Q
                          ELSE Superseded(Q, {"record"}) \cup {Recording("status", "record", NoId)}
  /\ UNCHANGED <<node, recorder, presses, losses>>

-----------------------------------------------------------------------------
(* Answers                                                                 *)

\* The generation is known: the request itself goes out.  Services that are
\* not ready are a call that is lost, or answered as refused.
ControlRead(q) ==
  /\ q.call = "read" /\ q.who # "recovery"
  /\ LET g == After(q.generation, q.floor)
     IN  /\ calls' = (calls \ {q}) \cup {[call |-> "set", enable |-> q.enable, generation |-> g,
                        who |-> IF q.who = "unguarded" THEN "nobody" ELSE q.who]}
         /\ panel' = [panel EXCEPT
              !.manualGeneration = IF q.enable /\ q.who = "manual" THEN g ELSE @,
              !.startGeneration = IF q.enable /\ q.who = "start" THEN g ELSE @]
  /\ UNCHANGED <<node, recorder, presses, losses>>

ManualAnswered(q) ==
  /\ q.call \in {"control", "homed"} /\ q.who = "manual"
  /\ panel' = [panel EXCEPT !.pending = FALSE,
                            !.manualEnable = IF q.call = "control" THEN FALSE ELSE @]
  /\ calls' = calls \ {q}
  /\ UNCHANGED <<node, recorder, presses, losses>>

\* The answers a combined operation waits for.
CombinedAnswered(q) ==
  /\ \/ /\ q.who = "start" /\ q.call = "control"
        /\ EvaluateCombinedStart([panel EXCEPT !.control = Outcome(q.ok)], calls \ {q})
     \/ /\ q.who = "start" /\ q.call = "started"
        /\ EvaluateCombinedStart([panel EXCEPT !.record = Outcome(q.ok)], calls \ {q})
     \/ /\ q.who = "stop" /\ q.call = "homed"
        /\ EvaluateCombinedStop([panel EXCEPT !.control = Outcome(q.ok)], calls \ {q})
     \/ /\ q.who = "stop" /\ q.call = "control"
        /\ EvaluateCombinedStop([panel EXCEPT !.fallback = Outcome(q.ok)], calls \ {q})
     \/ /\ q.who = "stop" /\ q.call = "ended"
        /\ EvaluateCombinedStop([panel EXCEPT !.record = Outcome(q.ok),
                                              !.recordPending = @ /\ q.ok], calls \ {q})
  /\ UNCHANGED <<node, recorder, presses, losses>>

\* The answers to recordingAction.
RecordAnswered(q) ==
  /\ q.who = "record" /\ q.call \in {"started", "ended"}
  /\ panel' = IF q.call = "started"
              THEN [panel EXCEPT !.manualStart = FALSE,
                                 !.recording = IF q.ok THEN panel.manualRequest ELSE @,
                                 !.recordPending = @ /\ q.ok /\ panel.state # "recording"]
              ELSE [panel EXCEPT !.recordPending = @ /\ q.ok]
  /\ calls' = calls \ {q}
  /\ UNCHANGED <<node, recorder, presses, losses>>

-----------------------------------------------------------------------------
(* Topics                                                                  *)

Active == {i \in Ids : recorder[i] \in {"recording", "saving"}}
Status == IF Active = {} THEN [state |-> "idle", id |-> NoId]
          ELSE LET i == CHOOSE i \in Active : TRUE IN [state |-> recorder[i], id |-> i]

\* updateRecordingStatus
Updated(p, s) == [p EXCEPT !.state = s.state, !.recording = s.id,
                    !.recordPending = @ /\ (s.state = p.state \/ p.manualStart)]
Unawaited(p, s, Q) == IF s.state = p.state \/ p.manualStart THEN Q ELSE Superseded(Q, {"record"})

RecordingStatus ==
  /\ panel' = Updated(panel, Status) /\ calls' = Unawaited(panel, Status, calls)
  /\ UNCHANGED <<node, recorder, presses, losses>>

\* The answer recoverDiscardAfterTimeout waits for.
StatusReported(q) ==
  /\ q.call = "status"
  /\ LET p == Updated(panel, Status)
         Q == Unawaited(panel, Status, calls \ {q})
     IN  IF Status.state = "recording" THEN RecordingAction(p, Q, TRUE) ELSE panel' = p /\ calls' = Q
  /\ UNCHANGED <<node, recorder, presses, losses>>

-----------------------------------------------------------------------------
(* The node, as TeleopControl has it                                       *)

\* Everything that pauses takes a generation.
Fence(n) == [generation |-> n.generation + 1, operation |-> "disable", success |-> TRUE, enabled |-> FALSE]

ControlAsked(q) ==
  /\ q.call = "ask"
  /\ calls' = (calls \ {q}) \cup {[call |-> "read", who |-> q.who, enable |-> q.enable, floor |-> q.floor,
                                   generation |-> node.generation, enabled |-> node.enabled]}
  /\ UNCHANGED <<node, recorder, panel, presses, losses>>

\* A generation that is not new is refused, or answered as before.  An arm that
\* follows goes on; one that does not may refuse to.
ControlSet(q) ==
  /\ q.call = "set"
  /\ LET op == IF q.enable THEN "enable" ELSE "disable"
         new == q.generation > node.generation
         again == q.generation = node.generation /\ op = node.operation
     IN  /\ \E ok \in IF q.enable /\ ~node.enabled THEN BOOLEAN ELSE {TRUE} :
              node' = IF new THEN [generation |-> q.generation, operation |-> op, success |-> ok,
                                   enabled |-> q.enable /\ ok]
                      ELSE node
         /\ calls' = Reply(q, Answered("control", q.who,
                             (new \/ again) /\ node'.success /\ node'.enabled = q.enable))
  /\ UNCHANGED <<recorder, panel, presses, losses>>

HomeCalled(q) ==
  /\ q.call = "home"
  /\ \E ok \in BOOLEAN : /\ node' = IF ok THEN Fence(node) ELSE node
                         /\ calls' = Reply(q, Answered("homed", q.who, ok))
  /\ UNCHANGED <<recorder, panel, presses, losses>>

\* The node pauses for reasons of its own.
SafetyPause == /\ node.enabled /\ node' = Fence(node)
               /\ UNCHANGED <<recorder, calls, panel, presses, losses>>

-----------------------------------------------------------------------------
(* The recorder, as the panel uses it                                      *)

\* One recording at a time; a request that was cancelled before it came is refused.
RecorderStarts(q) ==
  /\ q.call = "start"
  /\ \E s \in IF recorder[q.id] # "none" THEN {recorder[q.id]}
              ELSE IF Active = {} THEN {"recording", "failed"} ELSE {"failed"} :
       /\ recorder' = [recorder EXCEPT ![q.id] = s]
       /\ calls' = Reply(q, Answered("started", q.who, recorder[q.id] = "none" /\ s = "recording"))
  /\ UNCHANGED <<node, panel, presses, losses>>

\* stop and cancel of a recording; what is already being saved may be stopped again.
RecorderEnds(q) ==
  /\ q.call \in {"stop", "cancel"}
  /\ LET old == IF q.id = NoId THEN "none" ELSE recorder[q.id]
     IN  /\ recorder' = IF old # "recording" THEN recorder
                        ELSE [recorder EXCEPT ![q.id] = IF q.call = "stop" THEN "saving" ELSE "cancelled"]
         /\ calls' = Reply(q, Answered("ended", q.who,
                             old = "recording" \/ (q.call = "stop" /\ old \in {"saving", "completed"})))
  /\ UNCHANGED <<node, panel, presses, losses>>

RecorderSaves == /\ \E i \in Ids, s \in Terminal : /\ recorder[i] = "saving"
                                                   /\ recorder' = [recorder EXCEPT ![i] = s]
                 /\ UNCHANGED <<node, calls, panel, presses, losses>>

\* cancel_request, for a request that may not have come yet.
RecorderCancels(q) ==
  /\ q.call = "cancel_request"
  /\ recorder' = IF recorder[q.id] \in {"none", "recording"}
                 THEN [recorder EXCEPT ![q.id] = "cancelled"] ELSE recorder
  /\ calls' = calls \ {q}
  /\ UNCHANGED <<node, panel, presses, losses>>

\* A call or an answer of a roll-back is lost, or comes when its callback has
\* been pruned.  Any other that is lost is one that stays under way.
Lose(q) == /\ losses > 0 /\ losses' = losses - 1
           /\ q.who = "recovery" \/ q.call = "cancel_request"
              \/ (q.call = "set" /\ q.who = "nobody" /\ ~q.enable)
           /\ calls' = calls \ {q}
           /\ UNCHANGED <<node, recorder, panel, presses>>

-----------------------------------------------------------------------------
Operator == \/ StartCombinedAction \/ StopCombinedAction \/ DiscardCombinedAction
            \/ Toggle \/ Pause \/ Home \/ Record
Refresh == \/ RecoveryRound \/ ManualTimeout \/ RecordTimeout \/ StartTimeout \/ StopTimeout
Spin == \/ RecordingStatus
        \/ \E q \in calls : \/ RecoveryRead(q) \/ RecoveryFound(q) \/ ControlRead(q)
                            \/ ManualAnswered(q) \/ CombinedAnswered(q) \/ RecordAnswered(q)
                            \/ StatusReported(q)
Node == SafetyPause \/ \E q \in calls : ControlAsked(q) \/ ControlSet(q) \/ HomeCalled(q)
Recorder == RecorderSaves \/ \E q \in calls : \/ RecorderStarts(q) \/ RecorderEnds(q) \/ RecorderCancels(q)

Next == Operator \/ Refresh \/ Spin \/ Node \/ Recorder \/ \E q \in calls : Lose(q)

Spec == Init /\ [][Next]_vars

\* The timer of the panel runs, the node and the recorder answer what is not
\* lost, and a recording that is being saved is saved.
Fairness == /\ WF_vars(RecoveryRound)
            /\ WF_vars(\E q \in calls : RecoveryRead(q))
            /\ WF_vars(\E q \in calls : RecoveryFound(q))
            /\ WF_vars(\E q \in calls : ControlAsked(q))
            /\ WF_vars(\E q \in calls : ControlSet(q))
            /\ WF_vars(\E q \in calls : RecorderCancels(q))
            /\ WF_vars(RecorderSaves)
FairSpec == Spec /\ Fairness

-----------------------------------------------------------------------------
(* Properties                                                              *)

Waits == {"manual", "start", "stop", "recovery", "record", "unguarded", "nobody"}
Calls == [call : {"ask"}, who : Waits, enable : BOOLEAN, floor : Nat]
    \cup [call : {"read"}, who : Waits, enable : BOOLEAN, floor : Nat, generation : Nat, enabled : BOOLEAN]
    \cup [call : {"set"}, who : Waits, enable : BOOLEAN, generation : Nat]
    \cup [call : {"start", "stop", "cancel", "home", "cancel_request", "query", "status"},
          who : Waits, id : Nat]
    \cup [call : {"control", "homed", "started", "ended"}, who : Waits, ok : BOOLEAN]

\* The type of the state; the sequences of the panel are told apart by who waits.
TypeOK ==
  /\ node \in [generation : Nat, operation : {"enable", "disable"}, success : BOOLEAN, enabled : BOOLEAN]
  /\ recorder \in [Ids -> Terminal \cup {"none", "recording", "saving"}]
  /\ calls \subseteq Calls
  /\ \A q \in calls : q.who = "nobody" => q.call \in Effects \cup {"cancel_request"}
  /\ panel \in [operation : Operations, pending : BOOLEAN, manualEnable : BOOLEAN, manualGeneration : Nat,
                startGeneration : Nat, request : Ids \cup {NoId}, pauseControl : BOOLEAN,
                controlDone : BOOLEAN, recordDone : BOOLEAN,
                control : Answers, record : Answers, fallback : Answers \cup {"started"},
                recordPending : BOOLEAN, manualStart : BOOLEAN, manualRequest : Ids \cup {NoId},
                ids : Ids \cup {0},
                state : {"idle", "recording", "saving"}, recording : Ids \cup {NoId}]
  /\ presses \in [Buttons -> Nat] /\ losses \in 0 .. MaxLosses

Enables(Q) == {q \in Q : q.call = "set" /\ q.enable}
\* No enable under way is beyond generation g, so that the arm stays paused from there.
Past(Q, g)   == \A q \in Enables(Q) : q.generation <= g
Fenced(Q, n) == ~n.enabled /\ Past(Q, n.generation)
Recovering == panel.operation = "RollingBack"

\* README.md:111: after a start that failed, the panel is ready again only when
\* the request to record it is rolling back has ended for good, and the enable
\* it sent, even one that has not arrived, can no longer make the arm follow.
\* (One start is rolled back at a time.  One by hand may be displaced by another;
\* a combined one may not, since no start is made beside it.)
RecoveryConfirms ==
  [][Recovering /\ panel'.operation = "Idle" =>
       /\ panel.request # NoId => recorder[panel.request] \in Terminal
       /\ panel.pauseControl =>
            /\ node.generation >= panel.startGeneration
            /\ node.enabled => node.generation > panel.startGeneration]_vars

\* README.md:111: while a start that has the arm to pause is rolled back nothing
\* is started, not even by an answer that comes late.  (Beside the roll-back of
\* a recording by hand an enable by hand may go on.)
NothingStartsMeanwhile ==
  [][Recovering /\ panel.pauseControl /\ panel'.operation = "RollingBack" =>
       /\ {q.generation : q \in Enables(calls')} \subseteq {q.generation : q \in Enables(calls)}
       /\ {q.id : q \in {r \in calls' : r.call = "start"}}
            \subseteq {q.id : q \in {r \in calls : r.call = "start"}}]_vars

\* A combined stop or discard ends with the arm paused and no enable under way
\* that could undo it, unless a pause is under way after a time-out, or the node
\* refused the pause.
StoppedIsPaused ==
  [][panel.operation \in {"Stopping", "Discarding"} /\ panel'.operation = "Idle"
     => \/ panel'.fallback = "failed"
        \/ \E q \in calls' : q.call = "ask" /\ q.who = "unguarded"
        \/ Fenced(calls', node)]_vars

\* test_panel_recovery.cpp:428: a pause by hand has a later generation than
\* every enable that has been sent and has not reached the node.  (During a
\* roll-back it is the roll-back that has to pause.)
PauseOutrunsEnable ==
  [][~Recovering => \A q \in calls' \ calls : q.call = "set" /\ q.who = "manual" /\ ~q.enable =>
       \A r \in Enables(calls) :
         r.generation > node.generation => r.generation < q.generation]_vars

\* A roll-back ends, whatever was lost, once the node and the recorder answer.
RecoveryEnds == Recovering ~> ~Recovering

=============================================================================
