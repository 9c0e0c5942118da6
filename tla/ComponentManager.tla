-------------------------- MODULE ComponentManager --------------------------
(***************************************************************************)
(* The component manager of the teleoperation host (component_manager.py,  *)
(* camera_devices.py, component_runtime.py, process_guard.py).  It starts  *)
(* and stops the local processes; a stop first pauses the arm, then ends   *)
(* and awaits the remote recording.  A change of the camera's device is a  *)
(* second transaction, with a roll-back; a stop cancels it.                *)
(*                                                                         *)
(* The manager has one thread, so a service or a tick of its timer is one  *)
(* action.  The phases of a transaction follow each other within a tick    *)
(* until one has to wait: each is an operator on the state m that leaves   *)
(* it alone in another phase, and the tick composes them.  Processes,      *)
(* recorder, answers and clock are the environment.                        *)
(***************************************************************************)
EXTENDS Naturals

CONSTANTS Local,         \* the components of LOCAL_COMPONENT_IDS in mode "auto"
          Unstartable,   \* components that may fail to start
          Devices,       \* capture devices that a scan found
          Device0,       \* the configured one
          MaxRequests,   \* bound on the requests to the manager
          MaxRecordings, \* bound on the recordings
          MaxCrashes     \* bound on the processes that end on their own

ASSUME ManagerAssumption ==
  /\ {"umi_camera", "teleop"} \subseteq Local /\ Unstartable \subseteq Local
  /\ Device0 \in Devices
  /\ MaxRequests \in Nat /\ MaxRecordings \in Nat /\ MaxCrashes \in Nat

VARIABLES
  m,         \* the manager and its processes
  recorder,  \* external: the remote recorder and the status on its topic
  requests,  \* requests left
  crashes    \* crashes left

vars == <<m, recorder, requests, crashes>>

Images == {"umi_camera", "estimator"}  \* what a switch stops and starts
NoId == 0
Ids == NoId .. MaxRecordings

\* What RecordingStatus says; "unknown" until the first message.
Unknown == [state |-> "unknown", id |-> NoId, last |-> NoId]
Status(r) == [state |-> r.state, id |-> IF r.state = "idle" THEN NoId ELSE r.id, last |-> r.last]

\* self.operation: future is the call under way.
NoOperation == [phase |-> "none", targets |-> {}, shutdown |-> FALSE, future |-> "none",
                expired |-> FALSE, id |-> NoId, error |-> FALSE]
Nothing == [error |-> FALSE, id |-> NoId]
\* CameraDevices.operation
NoSwitch == [phase |-> "none", old |-> Device0, new |-> Device0, running |-> {},
             future |-> "none", expired |-> FALSE, rollback |-> FALSE]

\* A manager that was just started.
Fresh ==
  [proc |-> [k \in Local |-> "none"],       \* each component's ManagedProcess
   local |-> {},                            \* ownership = "local"
   op |-> NoOperation, switch |-> NoSwitch,
   device |-> Device0, actual |-> Device0,  \* the launch parameter; source["actual"]
   frames |-> FALSE,                        \* the camera's probe has a valid image
   recording |-> Unknown,                   \* recording_state, _id, _last_completed
   last |-> Nothing,                        \* last_operation: what the last stop said
   autostart |-> TRUE, alive |-> "running",
   paused |-> FALSE]                        \* history: the node executed the pause of the transaction

Init ==
  /\ m = Fresh
  /\ recorder = [state |-> "idle", id |-> NoId, last |-> NoId,
                 saved |-> {}, started |-> 0]
  /\ requests = MaxRequests /\ crashes = MaxCrashes

Serving == m.alive \in {"running", "finishing"}

-----------------------------------------------------------------------------
(* Processes                                                               *)

\* process is not None, whatever the process does
Owned(x, k) == x.proc[k] # "none"

\* ManagedProcess.stop for each of K; a second stop does nothing.
Told(x, K) == [x EXCEPT !.proc = [k \in Local |->
                 IF k \in K /\ @[k] = "running" THEN "stopping" ELSE @[k]]]

\* _start for each of K but those that fail; what still has a process is left.
Started(x, K, fails) ==
  LET new == {k \in K \ fails : ~Owned(x, k)}
  IN  [x EXCEPT !.proc = [k \in Local |-> IF k \in new THEN "running" ELSE @[k]],
                !.local = @ \cup new,
                !.frames = @ /\ "umi_camera" \notin new]

\* ManagedProcess.poll, first in each tick
Polled(x) == [x EXCEPT !.proc = [k \in Local |-> IF @[k] = "ended" THEN "none" ELSE @[k]]]

\* mutant: a switch under way is overlooked
StartableAnytime(x) == x.op.phase = "none"
\* No component is started during a transaction, but by the switch itself.
Startable(x) == x.op.phase = "none" /\ x.switch.phase = "none"

\* The discovery wait is over.
Autostart(x, due, fails) ==
  IF x.autostart /\ due /\ Startable(x)
  THEN [Started(x, Local, fails) EXCEPT !.autostart = FALSE] ELSE x

-----------------------------------------------------------------------------
(* Stop, _advance_stop                                                     *)

\* mutant: the control process goes on
PauseIgnored(x) == x
\* A pause that is refused or not answered ends the control process.
NotPaused(x) == Told(x, {"teleop"})

Asked(future, ready) == IF future = "none" /\ ready THEN "asked" ELSE future

PausePhase(x, ready) ==
  LET future == Asked(x.op.future, ready)
      next == [x.op EXCEPT !.phase = "record_query", !.future = "none", !.expired = FALSE]
  IN  IF x.op.phase # "pause" THEN x
      ELSE IF ~Owned(x, "teleop") \/ future = "ok" THEN [x EXCEPT !.op = next]
      ELSE IF future = "failed" \/ x.op.expired THEN [NotPaused(x) EXCEPT !.op = next]
      ELSE [x EXCEPT !.op.future = future]

\* mutant: a call without an answer is awaited for ever
NeverFailed(op) == op
\* A service that is not there or does not answer in time.
CallFailed(op) == IF op.expired THEN [op EXCEPT !.phase = "stop", !.future = "none", !.error = TRUE]
                  ELSE op

Called(op, ready) == IF op.future = "none" /\ ready
                     THEN [op EXCEPT !.future = "asked"] ELSE CallFailed(op)

QueryPhase(x, ready) ==
  LET found == [x.op EXCEPT !.future = "none", !.id = x.recording.id, !.expired = FALSE,
                  !.phase = CASE x.recording.state = "recording" -> "record_stop"
                              [] x.recording.state = "saving"    -> "record_wait"
                              [] OTHER                           -> "stop",
                  !.error = x.recording.state = "error"]
  IN  IF x.op.phase # "record_query" THEN x
      ELSE IF x.op.future = "ok" THEN [x EXCEPT !.op = found]
      ELSE [x EXCEPT !.op = Called(@, ready)]

StopRecordingPhase(x, ready) ==
  IF x.op.phase # "record_stop" THEN x
  ELSE IF x.op.future \in {"ok", "failed"}
  THEN [x EXCEPT !.op.future = "none", !.op.expired = FALSE,
                 !.op.phase = IF x.op.future = "ok" THEN "record_wait" ELSE "stop",
                 !.op.error = x.op.future = "failed"]
  ELSE [x EXCEPT !.op = Called(@, ready)]

\* mutant: any idle recorder
CompletedIdle(x) == x.recording.state = "idle"
\* The recording of this stop, as the topic says, is saved.
Completed(x) == /\ x.recording.state = "idle"
                /\ x.op.id = NoId \/ x.recording.last = x.op.id

WaitPhase(x) ==
  IF x.op.phase # "record_wait" THEN x
  ELSE IF x.recording.state # "error" /\ Completed(x) THEN [x EXCEPT !.op.phase = "stop"]
  ELSE IF x.recording.state = "error" \/ x.op.expired
  THEN [x EXCEPT !.op.phase = "stop", !.op.error = TRUE]
  ELSE x

StopPhase(x) ==
  LET pending == {k \in x.op.targets : Owned(x, k)}
  IN  IF x.op.phase # "stop" THEN x
      ELSE IF pending # {} THEN Told(x, pending)
      ELSE [x EXCEPT !.op = NoOperation, !.paused = FALSE,
                     !.last = [error |-> x.op.error, id |-> x.op.id],
                     !.alive = IF x.op.shutdown THEN "finishing" ELSE @]

\* From each state of X, one phase after the other.
AdvanceStop(X, ready) ==
  LET paused  == {PausePhase(x, ready) : x \in X}
      queried == {QueryPhase(x, ready) : x \in paused}
      ended   == {StopRecordingPhase(x, ready) : x \in queried}
      saved   == {WaitPhase(x) : x \in ended}
  IN  {StopPhase(x) : x \in saved}

-----------------------------------------------------------------------------
(* Change of the camera's device, CameraDevices.tick                       *)

\* _finish
Finish(x) == [x EXCEPT !.switch = NoSwitch, !.actual = x.device, !.paused = FALSE]

SwitchPause(x, ready) ==
  LET future == Asked(x.switch.future, ready)
  IN  IF x.switch.phase # "pause" THEN x
      ELSE IF ~Owned(x, "teleop") \/ future = "ok"
      THEN [Told(x, x.switch.running) EXCEPT !.switch.phase = "release", !.switch.expired = FALSE]
      ELSE IF future = "failed" \/ x.switch.expired THEN Finish(x)
      ELSE [x EXCEPT !.switch.future = future]

SwitchRelease(x) ==
  IF x.switch.phase # "release" THEN x
  ELSE IF \E k \in x.switch.running : Owned(x, k)
  THEN IF x.switch.expired THEN Finish(x) ELSE x
  ELSE [x EXCEPT !.device = IF x.switch.rollback THEN x.switch.old ELSE x.switch.new,
                 !.switch.phase = "start", !.switch.expired = FALSE]

\* The camera first; what fails ends the attempt.
SwitchStart(x, fails) ==
  LET failed == {k \in x.switch.running : ~Owned(x, k)} \cap fails
      y == Started(x, IF "umi_camera" \in failed THEN {} ELSE x.switch.running, fails)
  IN  IF x.switch.phase # "start" THEN x
      ELSE IF failed = {} THEN [y EXCEPT !.switch.phase = "verify"]
      ELSE IF x.switch.rollback THEN Finish(y)
      ELSE [y EXCEPT !.switch.rollback = TRUE, !.switch.phase = "release"]

SwitchVerify(x) ==
  IF x.switch.phase # "verify" THEN x
  ELSE IF "umi_camera" \notin x.switch.running \/ (Owned(x, "umi_camera") /\ x.frames) THEN Finish(x)
  ELSE IF ~x.switch.expired THEN x
  ELSE IF x.switch.rollback THEN Finish(x)
  ELSE [Told(x, x.switch.running) EXCEPT !.switch.rollback = TRUE, !.switch.phase = "release"]

AdvanceSwitch(X, ready, fails) ==
  LET paused   == {SwitchPause(x, ready) : x \in {y \in X : y.op.phase = "none"}}
      released == {SwitchRelease(x) : x \in paused}
      started  == {SwitchStart(x, fails) : x \in released}
  IN  {SwitchVerify(x) : x \in started} \cup {x \in X : x.op.phase # "none"}

\* _tick: ready says that the service the phase needs is there (one at most),
\* fails is what cannot be started.
Tick(ready, due, fails) ==
  /\ Serving
  /\ LET begun == {Autostart(x, due, fails) : x \in {Polled(m)}}
     IN  m' \in AdvanceSwitch(AdvanceStop(begun, ready), ready, fails)
  /\ UNCHANGED <<recorder, requests, crashes>>

-----------------------------------------------------------------------------
(* Services                                                                *)

\* mutant: the switch goes on beside the stop
CancelledNever(x) == x
\* CameraDevices.cancel
Cancelled(x) == [Told(x, x.switch.running) EXCEPT !.switch = NoSwitch]

\* mutant: a stop under way keeps its targets
JoinedLater(op) == [op EXCEPT !.shutdown = TRUE]
\* A shutdown that finds a stop under way.
Joined(op) == [op EXCEPT !.shutdown = TRUE, !.targets = Local]

\* _begin_stop
BeginStop(targets, shutdown) ==
  LET x == Cancelled(m)
  IN  m' = IF m.op.phase = "none"
           THEN [x EXCEPT !.autostart = FALSE, !.paused = FALSE, !.last = Nothing,
                          !.op = [NoOperation EXCEPT !.phase = "pause", !.targets = targets,
                                                     !.shutdown = shutdown]]
           ELSE [x EXCEPT !.op = IF shutdown THEN Joined(@) ELSE @]

\* The tests of _set_running; a stop is for what this session has started.
SetRunning(k, run) ==
  /\ m.op.phase = "none"
  /\ IF run THEN Startable(m) /\ m' = Started(m, {k}, {})
            ELSE k \in m.local /\ BeginStop({k}, FALSE)

StartAll(fails) == Startable(m) /\ m' = Started(m, Local, fails)

\* The tests of reason: the recorder is idle as far as the topic has said.
Editable == Startable(m) /\ m.recording.state = "idle"

RequestSwitch(target) ==
  /\ Editable /\ target # m.actual
  /\ m' = [m EXCEPT !.switch = [NoSwitch EXCEPT !.phase = "pause", !.old = m.actual, !.new = target,
                                         !.running = {k \in Local \cap Images : Owned(m, k)}]]

Request ==
  /\ Serving /\ requests > 0
  /\ \/ \E k \in Local, run \in BOOLEAN : SetRunning(k, run)
     \/ \E fails \in SUBSET Unstartable : StartAll(fails)
     \/ \E shutdown \in BOOLEAN : BeginStop(Local, shutdown)
     \/ \E target \in Devices : RequestSwitch(target)
  /\ requests' = requests - 1
  /\ UNCHANGED <<recorder, crashes>>

-----------------------------------------------------------------------------
(* Answers and time                                                        *)

\* set_enabled(false) of the node, for the stop or for the switch
PauseAnswered(ok) ==
  /\ Serving /\ m.proc["teleop"] = "running"
  /\ \/ /\ m.op.phase = "pause" /\ m.op.future = "asked"
        /\ m' = [m EXCEPT !.op.future = IF ok THEN "ok" ELSE "failed", !.paused = @ \/ ok]
     \/ /\ m.switch.phase = "pause" /\ m.switch.future = "asked"
        /\ m' = [m EXCEPT !.switch.future = IF ok THEN "ok" ELSE "failed", !.paused = @ \/ ok]
  /\ UNCHANGED <<recorder, requests, crashes>>

\* get_status; the tick that finds the answer takes it for the topic's.
StatusAnswered ==
  /\ Serving /\ m.op.phase = "record_query" /\ m.op.future = "asked"
  /\ m' = [m EXCEPT !.op.future = "ok", !.recording = Status(recorder)]
  /\ UNCHANGED <<recorder, requests, crashes>>

\* StopRecording by identifier; STOP_ACCEPTED, ALREADY_STOPPING and
\* ALREADY_SAVED are good.  The answer may be lost.
StopAnswered(lost) ==
  LET known == recorder.state \in {"recording", "saving"} /\ recorder.id = m.op.id
      ok == known \/ recorder.last = m.op.id
  IN  /\ Serving /\ m.op.phase = "record_stop" /\ m.op.future = "asked"
      /\ m' = IF lost THEN m ELSE [m EXCEPT !.op.future = IF ok THEN "ok" ELSE "failed"]
      /\ recorder' = IF known THEN [recorder EXCEPT !.state = "saving"] ELSE recorder
      /\ UNCHANGED <<requests, crashes>>

\* The dead-line of the present phase passes.
Expire ==
  /\ Serving
  /\ \/ /\ m.op.phase \notin {"none", "stop"} /\ ~m.op.expired
        /\ m' = [m EXCEPT !.op.expired = TRUE]
     \/ /\ m.switch.phase # "none" /\ ~m.switch.expired
        /\ m' = [m EXCEPT !.switch.expired = TRUE]
  /\ UNCHANGED <<recorder, requests, crashes>>

-----------------------------------------------------------------------------
(* Processes and the end of the manager                                    *)

\* A valid image; the start of the camera forgets those before, and only the
\* switch waits for one.
Frame == /\ Serving /\ m.proc["umi_camera"] = "running"
         /\ m.switch.phase = "verify" /\ ~m.frames
         /\ m' = [m EXCEPT !.frames = TRUE]
         /\ UNCHANGED <<recorder, requests, crashes>>

Ends(k) == m' = [m EXCEPT !.proc[k] = "ended"] /\ UNCHANGED <<recorder, requests>>
Crash(k) == m.proc[k] = "running" /\ crashes > 0 /\ Ends(k) /\ crashes' = crashes - 1
\* At the latest by the signals that poll and the guard send in the end.
Reclaimed(k) == m.proc[k] = "stopping" /\ Ends(k) /\ UNCHANGED crashes

\* The guard of a component gets a signal when the manager is gone.
Orphaned(k) == m.alive = "gone" /\ m.proc[k] = "running"

Guard(k) == /\ Orphaned(k) /\ m' = Told(m, {k})
            /\ UNCHANGED <<recorder, requests, crashes>>

\* main serves for a second after the shutdown; or the manager is killed.
ManagerEnds == /\ Serving
               /\ m' = [Fresh EXCEPT !.alive = "gone", !.proc = m.proc, !.device = m.device]
               /\ requests' = 0 /\ crashes' = 0
               /\ UNCHANGED recorder
Returns == m.alive = "finishing" /\ ManagerEnds

-----------------------------------------------------------------------------
(* The recorder, external                                                  *)

RecorderStarts ==
  /\ recorder.state \in {"idle", "error"} /\ recorder.started < MaxRecordings
  /\ recorder' = [recorder EXCEPT !.state = "recording", !.started = @ + 1, !.id = recorder.started + 1]
RecorderStops == recorder.state = "recording" /\ recorder' = [recorder EXCEPT !.state = "saving"]
RecorderSaves ==
  /\ recorder.state = "saving"
  /\ recorder' = [recorder EXCEPT !.state = "idle", !.last = recorder.id, !.saved = @ \cup {recorder.id}]
RecorderFails == recorder.state \in {"recording", "saving"} /\ recorder' = [recorder EXCEPT !.state = "error"]
\* Its process is started again and knows no recording.
RecorderRestarts == recorder' = [recorder EXCEPT !.state = "idle", !.last = NoId]
RecorderCancels == recorder.state = "recording" /\ recorder' = [recorder EXCEPT !.state = "idle"]

\* The recorder and its topic move only where the manager still looks: with
\* a request left, or during a stop.
Watched == Serving /\ (requests > 0 \/ m.op.phase # "none")

Recorder ==
  /\ Watched
  /\ \/ RecorderStarts \/ RecorderStops \/ RecorderSaves
     \/ RecorderFails \/ RecorderRestarts \/ RecorderCancels
  /\ UNCHANGED <<m, requests, crashes>>

\* The topic, with any delay; it is read only by a request to switch and by
\* the wait of a stop.
RecordingStatus ==
  /\ Watched /\ m.op.phase \in {"none", "record_wait"} /\ m.switch.phase = "none"
  /\ m' = [m EXCEPT !.recording = Status(recorder)]
  /\ UNCHANGED <<recorder, requests, crashes>>

-----------------------------------------------------------------------------
Next ==
  \/ \E ready, due \in BOOLEAN, fails \in SUBSET Unstartable :
       Tick(ready, due, fails)
  \/ Request
  \/ \E ok \in BOOLEAN : PauseAnswered(ok) \/ StopAnswered(ok)
  \/ StatusAnswered \/ Expire \/ Frame
  \/ \E k \in Local : Crash(k) \/ Reclaimed(k) \/ Guard(k)
  \/ ManagerEnds \/ Recorder \/ RecordingStatus

Spec == Init /\ [][Next]_vars

\* The timer ticks, time passes, and signals that cannot be ignored end a
\* process; no service, start or recorder has to do its part.
Fairness ==
  /\ WF_vars(\E fails \in SUBSET Unstartable : Tick(FALSE, FALSE, fails))
  /\ WF_vars(Expire) /\ WF_vars(Returns)
  /\ WF_vars(\E k \in Local : Reclaimed(k) \/ Guard(k))

FairSpec == Spec /\ Fairness

-----------------------------------------------------------------------------
(* Properties                                                              *)

Phases == {"none", "pause", "record_query", "record_stop", "record_wait", "stop"}
SwitchPhases == {"none", "pause", "release", "start", "verify"}
Futures == {"none", "asked", "ok", "failed"}
States == {"unknown", "idle", "recording", "saving", "error"}
Statuses == [state : States, id : Ids, last : Ids]

\* Every variable keeps its type, and the two transactions exclude each
\* other: a stop cancels the switch, and no switch begins during a stop.
TypeOK ==
  /\ m.proc \in [Local -> {"none", "running", "stopping", "ended"}]
  /\ m.local \subseteq Local
  /\ m.op \in [phase : Phases, targets : SUBSET Local, shutdown : BOOLEAN, future : Futures,
               expired : BOOLEAN, id : Ids, error : BOOLEAN]
  /\ m.switch \in [phase : SwitchPhases, old : Devices, new : Devices,
                   running : SUBSET Images, future : Futures,
                   expired : BOOLEAN, rollback : BOOLEAN]
  /\ m.op.phase = "none" \/ m.switch.phase = "none"
  /\ m.device \in Devices /\ m.actual \in Devices
  /\ {m.frames, m.autostart, m.paused} \subseteq BOOLEAN
  /\ m.last \in [error : BOOLEAN, id : Ids]
  /\ m.recording \in Statuses /\ m.alive \in {"running", "finishing", "gone"}
  /\ recorder \in [state : States, id : Ids, last : Ids, saved : SUBSET Ids, started : Ids]
  /\ requests \in 0 .. MaxRequests /\ crashes \in 0 .. MaxCrashes

\* While it runs, the manager ends a process only when the arm has been paused
\* for this transaction, the control process is being ended too, or there is
\* none.  (A stop that cancels a switch that has not paused yet is an exception:
\* CameraDevices.cancel ends the camera at once.)
PausedFirst ==
  [][\A k \in Local \ {"teleop"} :
       m.proc[k] = "running" /\ m'.proc[k] = "stopping" /\ Serving /\ m.switch.phase # "pause"
         => m.paused \/ m'.proc["teleop"] # "running"]_vars

\* A stop that reports no error has seen the recording that it found to its
\* end: it is saved.  (_advance_stop, with topics and answers out of order.)
SavedOrReported == m.last.error \/ m.last.id \in recorder.saved \cup {NoId}

\* The manager ends its session with no process left, also when the shutdown
\* joined the stop of a single component.
ShutdownStopsAll ==
  [][m.alive = "running" /\ m'.alive = "finishing" => \A k \in Local : m'.proc[k] = "none"]_vars

\* The device of the camera changes only while no camera process exists, so
\* that no process runs with another device than the one reported.
DeviceIsFree == [][m'.device # m.device => m.proc["umi_camera"] \in {"none", "ended"}]_vars

\* Every stop and every switch ends, whatever does not answer.
Busy == m.op.phase # "none" \/ m.switch.phase # "none"
TransactionsEnd == Busy ~> ~Busy

\* Nothing the manager started survives it.
NothingSurvives == m.alive = "gone" ~> \A k \in Local : m.proc[k] \in {"none", "ended"}

\* Whether it goes on or is killed in the middle, the manager comes to rest.
ManagerSettles == TransactionsEnd /\ NothingSurvives

\* A switch that went back and was not cancelled leaves the former device.
SwitchRestores ==
  [][m.switch.rollback /\ m'.switch.phase = "none" /\ m'.op.phase = "none" /\ m'.alive # "gone"
       => m'.device = m.switch.old]_vars
=============================================================================
