---------------------------- MODULE ManagerProofs ----------------------------
(***************************************************************************)
(* The component manager, for any components, devices, requests, crashes   *)
(* and recordings: every state of a tick, not only those between two of    *)
(* them, keeps the invariant.                                              *)
(***************************************************************************)
EXTENDS ComponentManager, TLAPS

-----------------------------------------------------------------------------
(* The inductive invariant *)

Processes  == {"none", "running", "stopping", "ended"}
Operations == [phase : Phases, targets : SUBSET Local, shutdown : BOOLEAN, future : Futures,
               expired : BOOLEAN, id : Ids, error : BOOLEAN]
Switches   == [phase : SwitchPhases, old : Devices, new : Devices,
               running : SUBSET (Local \cap Images), future : Futures,
               expired : BOOLEAN, rollback : BOOLEAN]
Results    == [error : BOOLEAN, id : Ids]
Managers ==
  [proc : [Local -> Processes], local : SUBSET Local, op : Operations, switch : Switches,
   device : Devices, actual : Devices, frames : BOOLEAN, recording : Statuses,
   last : Results, autostart : BOOLEAN, alive : {"running", "finishing", "gone"},
   paused : BOOLEAN]
Recorders == [state : States \ {"unknown"}, id : Ids, last : Ids, saved : SUBSET Ids, started : Ids]

\* What no recording of a result is missing from.
Saved == recorder.saved \cup {NoId}

\* The arm follows no one: it was paused, or its process is not there.
Still(x) == x.paused \/ x.proc["teleop"] # "running"

\* One transaction at a time; a shutdown is for all components.
OneTransaction(x) ==
  /\ x.op.phase = "none" \/ x.switch.phase = "none"
  /\ x.op.shutdown => x.op.targets = Local
  /\ x.switch.phase = "none" => x.switch.running = {}

\* No camera process appears beside a switch.
Camera(x) ==
  x.switch.phase # "none" => "umi_camera" \in x.switch.running \/ ~Owned(x, "umi_camera")

\* A transaction is past its pause only with the arm paused.
Pauses(x) ==
  /\ x.op.phase \notin {"none", "pause"} => Still(x)
  /\ x.switch.phase \notin {"none", "pause"} => Still(x)
  /\ x.op.phase = "pause" /\ x.op.future = "ok" => x.paused
  /\ x.switch.phase = "pause" /\ x.switch.future = "ok" => x.paused

\* What the topic and a stop say of recordings.
Records(x) ==
  /\ x.recording.last \in Saved
  /\ x.recording.state \in {"idle", "unknown"} => x.recording.id = NoId
  /\ x.op.phase = "stop" /\ ~x.op.error => x.op.id \in Saved
  /\ x.last.error \/ x.last.id \in Saved

MInv(x) == x \in Managers /\ OneTransaction(x) /\ Camera(x) /\ Pauses(x) /\ Records(x)

IInv ==
  /\ MInv(m)
  /\ recorder \in Recorders /\ recorder.last \in Saved
  /\ requests \in 0 .. MaxRequests /\ crashes \in 0 .. MaxCrashes

-----------------------------------------------------------------------------
(* The operators on processes, on a state of the manager *)

\* What a step that only tells or starts processes leaves alone.
SameTransactions(x, y) ==
  /\ y.op = x.op /\ y.switch = x.switch /\ y.device = x.device /\ y.actual = x.actual
  /\ y.recording = x.recording /\ y.last = x.last /\ y.alive = x.alive /\ y.paused = x.paused

\* Told ends the processes of K that run.
LEMMA ToldIs ==
  ASSUME NEW x \in Managers, NEW K, NEW y, y = Told(x, K)
  PROVE  /\ y \in Managers /\ SameTransactions(x, y) /\ y.local = x.local
         /\ y.frames = x.frames /\ y.autostart = x.autostart
         /\ \A k \in Local : y.proc[k] = IF k \in K /\ x.proc[k] = "running" THEN "stopping"
                                         ELSE x.proc[k]
<1> DEFINE p == [k \in Local |-> IF k \in K /\ x.proc[k] = "running" THEN "stopping" ELSE x.proc[k]]
<1>1. p \in [Local -> Processes]
  BY DEF Managers, Processes
<1>2. y = [x EXCEPT !.proc = p]
  BY DEF Told
<1> HIDE DEF p
<1>3. y.proc = p
  BY <1>2 DEF Managers
<1>4. y \in Managers /\ SameTransactions(x, y) /\ y.local = x.local
      /\ y.frames = x.frames /\ y.autostart = x.autostart
  BY <1>1, <1>2 DEF Managers, SameTransactions
<1>5. QED
  BY <1>3, <1>4 DEF p

\* Started runs those of K that have no process and do not fail, and nothing else.
LEMMA StartedIs ==
  ASSUME NEW x \in Managers, NEW K \in SUBSET Local, NEW fails, NEW y, y = Started(x, K, fails)
  PROVE  /\ y \in Managers /\ SameTransactions(x, y) /\ y.autostart = x.autostart
         /\ \A k \in Local : y.proc[k] = IF k \in K /\ k \notin fails /\ x.proc[k] = "none"
                                         THEN "running" ELSE x.proc[k]
<1> DEFINE new == {k \in K \ fails : ~Owned(x, k)}
           p == [k \in Local |-> IF k \in new THEN "running" ELSE x.proc[k]]
           l == x.local \cup new
           f == x.frames /\ "umi_camera" \notin new
<1>1. p \in [Local -> Processes] /\ l \in SUBSET Local
  BY DEF Managers, Processes
<1>2. y = [x EXCEPT !.proc = p, !.local = l, !.frames = f]
  BY DEF Started
<1>3. f \in BOOLEAN
  BY DEF Managers
<1>4. \A k \in K : k \in new <=> k \notin fails /\ x.proc[k] = "none"
  BY DEF Owned
<1>5. new \subseteq K
  OBVIOUS
<1> HIDE DEF p, l, f, new
<1>6. y.proc = p
  BY <1>2 DEF Managers
<1>7. y \in Managers /\ SameTransactions(x, y) /\ y.autostart = x.autostart
  BY <1>1, <1>2, <1>3 DEF Managers, SameTransactions
<1>8. QED
  BY <1>4, <1>5, <1>6, <1>7 DEF p

\* What an update of the stop leaves alone.
SameButOp(x, y) ==
  /\ y.proc = x.proc /\ y.switch = x.switch /\ y.device = x.device /\ y.actual = x.actual
  /\ y.recording = x.recording /\ y.last = x.last /\ y.alive = x.alive /\ y.paused = x.paused

\* An update of the stop.
LEMMA OpIs ==
  ASSUME NEW x \in Managers, NEW v \in Operations, NEW y, y = [x EXCEPT !.op = v]
  PROVE  y \in Managers /\ y.op = v /\ SameButOp(x, y)
BY DEF Managers, SameButOp

\* What an update of the switch leaves alone.
SameButSwitch(x, y) ==
  /\ y.proc = x.proc /\ y.op = x.op /\ y.device = x.device /\ y.actual = x.actual
  /\ y.recording = x.recording /\ y.last = x.last /\ y.alive = x.alive /\ y.paused = x.paused

\* An update of the switch.
LEMMA SwitchIs ==
  ASSUME NEW x \in Managers, NEW v \in Switches, NEW y, y = [x EXCEPT !.switch = v]
  PROVE  y \in Managers /\ y.switch = v /\ SameButSwitch(x, y)
BY DEF Managers, SameButSwitch

-----------------------------------------------------------------------------
(* A tick: every state on its way, from that of the manager before it, keeps the invariant *)

\* What the tick has done so far to the process k.
Reached(x, k) ==
  /\ x.proc[k] = "none" => m.proc[k] \in {"none", "ended"}
  /\ k # "teleop" /\ m.switch.phase # "pause" /\ m.proc[k] = "running" /\ x.proc[k] = "stopping"
       => m.paused \/ x.proc["teleop"] # "running"

TickInv(x) ==
  /\ MInv(x)
  /\ x.paused => m.paused
  /\ x.switch.phase = "pause" => m.switch.phase = "pause"
  /\ x.device # m.device => m.proc["umi_camera"] \in {"none", "ended"}
  /\ m.alive = "running" /\ x.alive = "finishing" =>
       /\ x.op.phase = "none" /\ x.switch.phase = "none"
       /\ \A k \in Local : x.proc[k] = "none"
  /\ \A k \in Local : Reached(x, k)

\* The constants that the tick leaves in the fields are of their types.
LEMMA Constants ==
  /\ NoOperation \in Operations /\ NoSwitch \in Switches /\ Nothing \in Results
  /\ NoId \in Ids /\ Unknown \in Statuses /\ {"umi_camera", "teleop"} \subseteq Local
<1>1. NoId \in Ids
  BY ManagerAssumption DEF NoId, Ids
<1>2. QED
  BY <1>1, ManagerAssumption DEF NoOperation, NoSwitch, Nothing, Unknown, Operations, Switches,
     Results, Statuses, Phases, SwitchPhases, Futures, States

\* A phase of the stop that changes only the stop and goes on with it.
LEMMA TickOp ==
  ASSUME NEW x, NEW v \in Operations, NEW y, TickInv(x), y = [x EXCEPT !.op = v],
         x.op.phase # "none", v.phase # "none",
         v.targets = x.op.targets, v.shutdown = x.op.shutdown,
         v.phase # "pause" => Still(x),
         v.phase = "pause" /\ v.future = "ok" => x.paused,
         v.phase = "stop" /\ ~v.error => v.id \in Saved
  PROVE  TickInv(y)
<1>1. x \in Managers /\ y \in Managers /\ y.op = v /\ SameButOp(x, y)
  BY OpIs DEF TickInv, MInv
<1>2. x.switch.phase = "none"
  BY DEF TickInv, MInv, OneTransaction
<1>3. MInv(y)
  BY <1>1, <1>2 DEF TickInv, MInv, OneTransaction, Camera, Pauses, Records, Still, SameButOp
<1>4. ~(m.alive = "running" /\ x.alive = "finishing")
  BY DEF TickInv
<1>5. \A k \in Local : Reached(y, k)
  BY <1>1 DEF TickInv, Reached, SameButOp
<1>6. QED
  BY <1>1, <1>3, <1>4, <1>5 DEF TickInv, SameButOp

\* More processes are told to end: the control process, or others while the arm is still.
LEMMA TickTold ==
  ASSUME NEW x, NEW K, NEW y, TickInv(x), y = Told(x, K),
         m.alive = "running" => x.alive # "finishing",
         K \subseteq {"teleop"} \/ Still(x) \/ m.switch.phase = "pause"
  PROVE  TickInv(y)
<1>1. /\ x \in Managers /\ y \in Managers /\ SameTransactions(x, y)
      /\ \A k \in Local : y.proc[k] = IF k \in K /\ x.proc[k] = "running" THEN "stopping"
                                      ELSE x.proc[k]
  BY ToldIs DEF TickInv, MInv
<1>2. "teleop" \in Local /\ "umi_camera" \in Local
  BY Constants
<1>3. Still(x) => Still(y)
  BY <1>1, <1>2 DEF Still, SameTransactions
<1>4. MInv(y)
  <2>1. Camera(y)
    BY <1>1, <1>2 DEF TickInv, MInv, Camera, Owned, SameTransactions
  <2>2. OneTransaction(y) /\ Records(y)
    BY <1>1 DEF TickInv, MInv, OneTransaction, Records, SameTransactions
  <2>3. Pauses(y)
    BY <1>1, <1>3 DEF TickInv, MInv, Pauses, SameTransactions
  <2>4. QED
    BY <1>1, <2>1, <2>2, <2>3 DEF MInv
<1>5. ASSUME NEW k \in Local
      PROVE  Reached(y, k)
  <2>1. Reached(x, k) /\ (x.paused => m.paused)
    BY DEF TickInv
  <2>2. y.proc[k] = "none" => x.proc[k] = "none"
    BY <1>1
  <2>3. x.proc["teleop"] # "running" => y.proc["teleop"] # "running"
    BY <1>1, <1>2
  <2>4. y.proc[k] = "stopping" => x.proc[k] = "stopping" \/ k \in K
    BY <1>1
  <2>5. Still(x) => m.paused \/ y.proc["teleop"] # "running"
    BY <2>1, <2>3 DEF Still
  <2>6. QED
    BY <2>1, <2>2, <2>3, <2>4, <2>5 DEF Reached
<1>6. QED
  BY <1>1, <1>4, <1>5 DEF TickInv, SameTransactions

\* The stop goes on when the pause was confirmed; otherwise the control process is told to end.
LEMMA TickPause ==
  ASSUME NEW x, TickInv(x), NEW ready
  PROVE  TickInv(PausePhase(x, ready))
<1> DEFINE future == Asked(x.op.future, ready)
           next   == [x.op EXCEPT !.phase = "record_query", !.future = "none", !.expired = FALSE]
<1>1. x \in Managers /\ x.op \in Operations
  BY DEF TickInv, MInv, Managers
<1>2. /\ next \in Operations /\ next.phase = "record_query" /\ next.future = "none"
      /\ next.targets = x.op.targets /\ next.shutdown = x.op.shutdown
  BY <1>1 DEF Operations, Phases, Futures
<1>3. CASE x.op.phase # "pause"
  BY <1>3 DEF PausePhase
<1>4. CASE x.op.phase = "pause" /\ (~Owned(x, "teleop") \/ future = "ok")
  <2>1. Still(x)
    BY <1>4 DEF Asked, Owned, Still, TickInv, MInv, Pauses
  <2>2. PausePhase(x, ready) = [x EXCEPT !.op = next]
    BY <1>4 DEF PausePhase
  <2> HIDE DEF next
  <2>3. QED
    BY <1>2, <1>4, <2>1, <2>2, TickOp
<1>5. CASE x.op.phase = "pause" /\ ~(~Owned(x, "teleop") \/ future = "ok")
             /\ (future = "failed" \/ x.op.expired)
  <2> DEFINE z == NotPaused(x)
  <2>1. z = Told(x, {"teleop"})
    BY DEF NotPaused
  <2>2. m.alive = "running" => x.alive # "finishing"
    BY <1>5 DEF TickInv
  <2>3. PausePhase(x, ready) = [z EXCEPT !.op = next]
    BY <1>5 DEF PausePhase
  <2> HIDE DEF z, next
  <2>4. TickInv(z)
    BY <2>1, <2>2, TickTold
  <2>5. z.op = x.op /\ z.proc["teleop"] # "running"
    BY <1>1, <2>1, ToldIs, Constants DEF SameTransactions
  <2>6. Still(z)
    BY <2>5 DEF Still
  <2>7. QED
    BY <1>2, <1>5, <2>3, <2>4, <2>5, <2>6, TickOp
<1>6. CASE x.op.phase = "pause" /\ ~(~Owned(x, "teleop") \/ future = "ok")
             /\ ~(future = "failed" \/ x.op.expired)
  <2> DEFINE v == [x.op EXCEPT !.future = future]
  <2>1. future \in Futures /\ future # "ok"
    BY <1>1, <1>6 DEF Asked, Operations, Futures
  <2>2. /\ v \in Operations /\ v.phase = "pause" /\ v.future # "ok"
        /\ v.targets = x.op.targets /\ v.shutdown = x.op.shutdown
    BY <1>1, <1>6, <2>1 DEF Operations
  <2>3. PausePhase(x, ready) = [x EXCEPT !.op = v]
    BY <1>6 DEF PausePhase
  <2> HIDE DEF v
  <2>4. QED
    BY <1>6, <2>2, <2>3, TickOp
<1>7. QED
  BY <1>3, <1>4, <1>5, <1>6

\* A call that fails reports an error, another one is awaited.
LEMMA CalledIs ==
  ASSUME NEW v \in Operations, NEW ready, NEW w, w = Called(v, ready)
  PROVE  /\ w \in Operations /\ w.targets = v.targets /\ w.shutdown = v.shutdown
         /\ w.phase = v.phase \/ (w.phase = "stop" /\ w.error)
<1>1. CASE v.future = "none" /\ ready
  BY <1>1 DEF Called, Operations, Futures
<1>2. CASE ~(v.future = "none" /\ ready)
  BY <1>2 DEF Called, CallFailed, Operations, Futures, Phases
<1>3. QED
  BY <1>1, <1>2

\* The recording that a stop finds is its own from now on.
LEMMA TickQuery ==
  ASSUME NEW x, TickInv(x), NEW ready
  PROVE  TickInv(QueryPhase(x, ready))
<1>1. x \in Managers /\ x.op \in Operations /\ x.recording \in Statuses
  BY DEF TickInv, MInv, Managers
<1>2. CASE x.op.phase # "record_query"
  BY <1>2 DEF QueryPhase
<1>3. CASE x.op.phase = "record_query" /\ x.op.future = "ok"
  <2> DEFINE p == CASE x.recording.state = "recording" -> "record_stop"
                    [] x.recording.state = "saving"    -> "record_wait"
                    [] OTHER                           -> "stop"
             v == [x.op EXCEPT !.future = "none", !.id = x.recording.id, !.expired = FALSE,
                               !.phase = p, !.error = x.recording.state = "error"]
  <2>1. /\ p \in {"record_stop", "record_wait", "stop"}
        /\ p = "stop" => x.recording.state \notin {"recording", "saving"}
    OBVIOUS
  <2>2. QueryPhase(x, ready) = [x EXCEPT !.op = v]
    BY <1>3 DEF QueryPhase
  <2> HIDE DEF p
  <2>3. v \in Operations
    BY <1>1, <2>1 DEF Operations, Statuses, Futures, Phases
  <2>4. /\ v.targets = x.op.targets /\ v.shutdown = x.op.shutdown /\ v.phase = p
        /\ v.id = x.recording.id /\ v.error = (x.recording.state = "error")
    BY <1>1 DEF Operations
  <2>5. v.phase = "stop" /\ ~v.error => v.id \in Saved
    <3>1. x.recording.state \in {"idle", "unknown"} => x.recording.id \in Saved
      BY DEF TickInv, MInv, Records, Saved
    <3>2. QED
      BY <1>1, <2>1, <2>4, <3>1 DEF Statuses, States
  <2>6. Still(x)
    BY <1>3 DEF TickInv, MInv, Pauses
  <2> HIDE DEF v
  <2>7. QED
    BY <1>3, <2>1, <2>2, <2>3, <2>4, <2>5, <2>6, TickOp
<1>4. CASE x.op.phase = "record_query" /\ x.op.future # "ok"
  <2> DEFINE v == Called(x.op, ready)
  <2>1. QueryPhase(x, ready) = [x EXCEPT !.op = v]
    BY <1>4 DEF QueryPhase
  <2> HIDE DEF v
  <2>2. /\ v \in Operations /\ v.targets = x.op.targets /\ v.shutdown = x.op.shutdown
        /\ v.phase = "record_query" \/ (v.phase = "stop" /\ v.error)
    BY <1>1, <1>4, CalledIs DEF v
  <2>3. Still(x)
    BY <1>4 DEF TickInv, MInv, Pauses
  <2>4. QED
    BY <1>4, <2>1, <2>2, <2>3, TickOp
<1>5. QED
  BY <1>2, <1>3, <1>4

\* A recorder that refuses the stop, or does not answer, is an error.
LEMMA TickStopRecording ==
  ASSUME NEW x, TickInv(x), NEW ready
  PROVE  TickInv(StopRecordingPhase(x, ready))
<1>1. x \in Managers /\ x.op \in Operations
  BY DEF TickInv, MInv, Managers
<1>2. CASE x.op.phase # "record_stop"
  BY <1>2 DEF StopRecordingPhase
<1>3. CASE x.op.phase = "record_stop"
  <2>1. Still(x)
    BY <1>3 DEF TickInv, MInv, Pauses
  <2>2. CASE x.op.future \in {"ok", "failed"}
    <3> DEFINE p == IF x.op.future = "ok" THEN "record_wait" ELSE "stop"
               v == [x.op EXCEPT !.future = "none", !.expired = FALSE, !.phase = p,
                                 !.error = x.op.future = "failed"]
    <3>1. StopRecordingPhase(x, ready) = [x EXCEPT !.op = v]
      BY <1>1, <1>3, <2>2 DEF StopRecordingPhase, Managers, Operations
    <3>2. v \in Operations /\ v.targets = x.op.targets /\ v.shutdown = x.op.shutdown
      BY <1>1 DEF Operations, Futures, Phases
    <3>3. v.phase = "record_wait" \/ (v.phase = "stop" /\ v.error)
      BY <1>1, <2>2 DEF Operations
    <3> HIDE DEF v
    <3>4. QED
      BY <1>3, <2>1, <3>1, <3>2, <3>3, TickOp
  <2>3. CASE x.op.future \notin {"ok", "failed"}
    <3> DEFINE v == Called(x.op, ready)
    <3>1. StopRecordingPhase(x, ready) = [x EXCEPT !.op = v]
      BY <1>3, <2>3 DEF StopRecordingPhase
    <3> HIDE DEF v
    <3>2. /\ v \in Operations /\ v.targets = x.op.targets /\ v.shutdown = x.op.shutdown
          /\ v.phase = "record_stop" \/ (v.phase = "stop" /\ v.error)
      BY <1>1, <1>3, CalledIs DEF v
    <3>3. QED
      BY <1>3, <2>1, <3>1, <3>2, TickOp
  <2>4. QED
    BY <2>2, <2>3
<1>4. QED
  BY <1>2, <1>3

\* The wait ends well only with the recording of this stop saved.
LEMMA TickWait ==
  ASSUME NEW x, TickInv(x)
  PROVE  TickInv(WaitPhase(x))
<1>1. x \in Managers /\ x.op \in Operations
  BY DEF TickInv, MInv, Managers
<1>2. ASSUME x.op.phase = "record_wait", NEW e \in BOOLEAN,
             WaitPhase(x) = [x EXCEPT !.op = [x.op EXCEPT !.phase = "stop", !.error = e]],
             e \/ Completed(x)
      PROVE  TickInv(WaitPhase(x))
  <2> DEFINE v == [x.op EXCEPT !.phase = "stop", !.error = e]
  <2>1. /\ v \in Operations /\ v.targets = x.op.targets /\ v.shutdown = x.op.shutdown
        /\ v.phase = "stop" /\ v.error = e /\ v.id = x.op.id
    BY <1>1 DEF Operations, Phases
  <2>2. Still(x)
    BY <1>2 DEF TickInv, MInv, Pauses
  <2>3. Completed(x) => v.id \in Saved
    BY <2>1 DEF TickInv, MInv, Records, Completed, Saved
  <2>4. WaitPhase(x) = [x EXCEPT !.op = v]
    BY <1>2
  <2> HIDE DEF v
  <2>5. QED
    BY <1>2, <2>1, <2>2, <2>3, <2>4, TickOp
<1>3. CASE WaitPhase(x) = x
  BY <1>3
<1>4. CASE x.op.phase = "record_wait" /\ x.recording.state # "error" /\ Completed(x)
  <2>1. WaitPhase(x) = [x EXCEPT !.op = [x.op EXCEPT !.phase = "stop", !.error = x.op.error]]
    BY <1>1, <1>4 DEF WaitPhase, Managers, Operations
  <2>2. x.op.error \in BOOLEAN
    BY <1>1 DEF Operations
  <2>3. QED
    BY <1>2, <1>4, <2>1, <2>2
<1>5. CASE x.op.phase = "record_wait" /\ ~(x.recording.state # "error" /\ Completed(x))
             /\ (x.recording.state = "error" \/ x.op.expired)
  <2>1. WaitPhase(x) = [x EXCEPT !.op = [x.op EXCEPT !.phase = "stop", !.error = TRUE]]
    BY <1>1, <1>5 DEF WaitPhase, Managers, Operations
  <2>2. QED
    BY <1>2, <1>5, <2>1
<1>6. QED
  BY <1>3, <1>4, <1>5 DEF WaitPhase

\* The targets are told with the arm still; a stop is over when none of them has a process,
\* and a shutdown then, too.
LEMMA TickStop ==
  ASSUME NEW x, TickInv(x)
  PROVE  TickInv(StopPhase(x))
<1> DEFINE pending == {k \in x.op.targets : Owned(x, k)}
           y == StopPhase(x)
<1>1. x \in Managers /\ x.op \in Operations /\ x.switch \in Switches
  BY DEF TickInv, MInv, Managers
<1>2. CASE x.op.phase # "stop"
  BY <1>2 DEF StopPhase
<1>3. CASE x.op.phase = "stop" /\ pending # {}
  <2>1. y = Told(x, pending)
    BY <1>3 DEF StopPhase
  <2>2. Still(x) /\ (m.alive = "running" => x.alive # "finishing")
    BY <1>3 DEF TickInv, MInv, Pauses
  <2> HIDE DEF pending, y
  <2>3. TickInv(y)
    BY <2>1, <2>2, TickTold
  <2>4. QED
    BY <2>3 DEF y
<1>4. CASE x.op.phase = "stop" /\ pending = {}
  <2> DEFINE l == [error |-> x.op.error, id |-> x.op.id]
             a == IF x.op.shutdown THEN "finishing" ELSE x.alive
  <2>1. y = [x EXCEPT !.op = NoOperation, !.paused = FALSE, !.last = l, !.alive = a]
    BY <1>1, <1>4 DEF StopPhase, Managers
  <2>2. l \in Results /\ a \in {"running", "finishing", "gone"}
    BY <1>1 DEF Results, Operations, Managers
  <2> HIDE DEF l, a, y
  <2>3. y \in Managers
    BY <1>1, <2>1, <2>2, Constants DEF Managers
  <2>4. /\ y.op = NoOperation /\ y.paused = FALSE /\ y.last = l /\ y.alive = a
        /\ y.proc = x.proc /\ y.switch = x.switch /\ y.device = x.device
        /\ y.recording = x.recording
    BY <1>1, <2>1 DEF Managers
  <2>5. y.op.phase = "none" /\ y.op.shutdown = FALSE
    BY <2>4 DEF NoOperation
  <2>6. x.switch.phase = "none"
    BY <1>4 DEF TickInv, MInv, OneTransaction
  <2>7. l.error = x.op.error /\ l.id = x.op.id
    BY DEF l
  <2>8. MInv(y)
    <3>1. OneTransaction(y)
      BY <2>4, <2>5, <2>6 DEF TickInv, MInv, OneTransaction
    <3>2. Camera(y) /\ Pauses(y)
      BY <2>4, <2>5, <2>6 DEF Camera, Pauses
    <3>3. Records(y)
      BY <1>4, <2>4, <2>5, <2>7 DEF TickInv, MInv, Records
    <3>4. QED
      BY <2>3, <3>1, <3>2, <3>3 DEF MInv
  <2>9. m.alive = "running" /\ y.alive = "finishing" => \A k \in Local : y.proc[k] = "none"
    <3>1. ASSUME m.alive = "running", y.alive = "finishing", NEW k \in Local
          PROVE  y.proc[k] = "none"
      <4>1. x.op.shutdown
        BY <1>4, <2>4, <3>1 DEF a, TickInv
      <4>2. k \in x.op.targets
        BY <4>1 DEF TickInv, MInv, OneTransaction
      <4>3. ~Owned(x, k)
        BY <1>4, <4>2
      <4>4. QED
        BY <2>4, <4>3 DEF Owned
    <3>2. QED
      BY <3>1
  <2>10. \A k \in Local : Reached(y, k)
    BY <2>4 DEF TickInv, Reached
  <2>11. TickInv(y)
    BY <2>4, <2>5, <2>6, <2>8, <2>9, <2>10 DEF TickInv
  <2>12. QED
    BY <2>11 DEF y
<1>5. QED
  BY <1>2, <1>3, <1>4

\* A phase of the switch that changes only the switch and goes on with it.
LEMMA TickSwitch ==
  ASSUME NEW x, NEW v \in Switches, NEW y, TickInv(x), y = [x EXCEPT !.switch = v],
         x.switch.phase # "none", v.phase # "none", v.running = x.switch.running,
         v.phase = "pause" => x.switch.phase = "pause",
         v.phase # "pause" => Still(x),
         v.phase = "pause" /\ v.future = "ok" => x.paused
  PROVE  TickInv(y)
<1>1. x \in Managers /\ y \in Managers /\ y.switch = v /\ SameButSwitch(x, y)
  BY SwitchIs DEF TickInv, MInv
<1>2. x.op.phase = "none"
  BY DEF TickInv, MInv, OneTransaction
<1>3. MInv(y)
  <2>1. OneTransaction(y) /\ Records(y)
    BY <1>1, <1>2 DEF TickInv, MInv, OneTransaction, Records, SameButSwitch
  <2>2. Camera(y)
    BY <1>1 DEF TickInv, MInv, Camera, Owned, SameButSwitch
  <2>3. Pauses(y)
    BY <1>1, <1>2 DEF TickInv, MInv, Pauses, Still, SameButSwitch
  <2>4. QED
    BY <1>1, <2>1, <2>2, <2>3 DEF MInv
<1>4. ~(m.alive = "running" /\ x.alive = "finishing")
  BY DEF TickInv
<1>5. \A k \in Local : Reached(y, k)
  BY <1>1 DEF TickInv, Reached, SameButSwitch
<1>6. QED
  BY <1>1, <1>3, <1>4, <1>5 DEF TickInv, SameButSwitch

\* The end of a switch, _finish.
LEMMA TickFinish ==
  ASSUME NEW x, TickInv(x), x.switch.phase # "none"
  PROVE  TickInv(Finish(x))
<1> DEFINE y == Finish(x)
<1>1. x \in Managers /\ x.op.phase = "none"
  BY DEF TickInv, MInv, OneTransaction
<1>2. y \in Managers
  BY <1>1, Constants DEF Finish, Managers
<1>3. /\ y.switch = NoSwitch /\ y.paused = FALSE /\ y.op = x.op /\ y.proc = x.proc
      /\ y.device = x.device /\ y.recording = x.recording /\ y.last = x.last
      /\ y.alive = x.alive
  BY <1>1 DEF Finish, Managers
<1> HIDE DEF y
<1>4. y.switch.phase = "none" /\ y.switch.running = {}
  BY <1>3 DEF NoSwitch
<1>5. MInv(y)
  BY <1>1, <1>2, <1>3, <1>4 DEF TickInv, MInv, OneTransaction, Camera, Pauses, Records
<1>6. \A k \in Local : Reached(y, k)
  BY <1>3 DEF TickInv, Reached
<1>7. TickInv(y)
  BY <1>1, <1>3, <1>4, <1>5, <1>6 DEF TickInv
<1>8. QED
  BY <1>7 DEF y

\* The camera is told to end only after the pause.
LEMMA TickSwitchPause ==
  ASSUME NEW x, TickInv(x), NEW ready
  PROVE  TickInv(SwitchPause(x, ready))
<1> DEFINE future == Asked(x.switch.future, ready)
<1>1. x \in Managers /\ x.switch \in Switches
  BY DEF TickInv, MInv, Managers
<1>2. CASE x.switch.phase # "pause"
  BY <1>2 DEF SwitchPause
<1>3. CASE x.switch.phase = "pause" /\ (~Owned(x, "teleop") \/ future = "ok")
  <2> DEFINE z == Told(x, x.switch.running)
             v == [x.switch EXCEPT !.phase = "release", !.expired = FALSE]
  <2>1. Still(x)
    BY <1>3 DEF Asked, Owned, Still, TickInv, MInv, Pauses
  <2>2. m.alive = "running" => x.alive # "finishing"
    BY <1>3 DEF TickInv
  <2>3. z \in Managers /\ z.switch = x.switch /\ TickInv(z)
    BY <1>1, <2>1, <2>2, ToldIs, TickTold DEF SameTransactions
  <2>4. Still(z)
    BY <1>1, <2>1, ToldIs, Constants DEF Still, SameTransactions
  <2>5. SwitchPause(x, ready) = [z EXCEPT !.switch = v]
    <3>1. SwitchPause(x, ready) = [z EXCEPT !.switch.phase = "release", !.switch.expired = FALSE]
      BY <1>3 DEF SwitchPause
    <3> HIDE DEF z
    <3>2. [z EXCEPT !.switch.phase = "release", !.switch.expired = FALSE]
            = [z EXCEPT !.switch = [z.switch EXCEPT !.phase = "release", !.expired = FALSE]]
      BY <2>3 DEF Managers, Switches
    <3>3. QED
      BY <2>3, <3>1, <3>2
  <2>6. v \in Switches /\ v.phase = "release" /\ v.running = x.switch.running
    BY <1>1 DEF Switches, SwitchPhases
  <2> HIDE DEF z, v
  <2>7. QED
    BY <1>3, <2>3, <2>4, <2>5, <2>6, TickSwitch
<1>4. CASE x.switch.phase = "pause" /\ ~(~Owned(x, "teleop") \/ future = "ok")
             /\ (future = "failed" \/ x.switch.expired)
  BY <1>4, TickFinish DEF SwitchPause
<1>5. CASE x.switch.phase = "pause" /\ ~(~Owned(x, "teleop") \/ future = "ok")
             /\ ~(future = "failed" \/ x.switch.expired)
  <2> DEFINE v == [x.switch EXCEPT !.future = future]
  <2>1. future \in Futures /\ future # "ok"
    BY <1>1, <1>5 DEF Asked, Switches, Futures
  <2>2. v \in Switches /\ v.phase = "pause" /\ v.future # "ok" /\ v.running = x.switch.running
    BY <1>1, <1>5, <2>1 DEF Switches
  <2>3. SwitchPause(x, ready) = [x EXCEPT !.switch = v]
    BY <1>5 DEF SwitchPause
  <2> HIDE DEF v
  <2>4. QED
    BY <1>5, <2>2, <2>3, TickSwitch
<1>6. QED
  BY <1>2, <1>3, <1>4, <1>5

\* The device changes when the camera, if there was one, has no process.
LEMMA TickSwitchRelease ==
  ASSUME NEW x, TickInv(x)
  PROVE  TickInv(SwitchRelease(x))
<1>1. x \in Managers /\ x.switch \in Switches
  BY DEF TickInv, MInv, Managers
<1>2. CASE x.switch.phase # "release"
  BY <1>2 DEF SwitchRelease
<1>3. CASE x.switch.phase = "release" /\ \E k \in x.switch.running : Owned(x, k)
  BY <1>3, TickFinish DEF SwitchRelease
<1>4. CASE x.switch.phase = "release" /\ ~\E k \in x.switch.running : Owned(x, k)
  <2> DEFINE d == IF x.switch.rollback THEN x.switch.old ELSE x.switch.new
             v == [x.switch EXCEPT !.phase = "start", !.expired = FALSE]
             z == [x EXCEPT !.device = d]
  <2>1. SwitchRelease(x) = [z EXCEPT !.switch = v]
    BY <1>1, <1>4 DEF SwitchRelease, Managers, Switches
  <2>2. d \in Devices
    BY <1>1 DEF Switches
  <2>3. v \in Switches /\ v.phase = "start" /\ v.running = x.switch.running
    BY <1>1 DEF Switches, SwitchPhases
  <2> HIDE DEF d, v
  <2>4. z \in Managers
    BY <1>1, <2>2 DEF Managers
  <2>5. z.proc = x.proc /\ z.switch = x.switch /\ z.op = x.op /\ z.alive = x.alive
        /\ z.paused = x.paused /\ z.recording = x.recording /\ z.last = x.last
    BY <1>1 DEF Managers
  <2> HIDE DEF z
  <2>6. Still(x) /\ Still(z)
    BY <1>4, <2>5 DEF TickInv, MInv, Pauses, Still
  <2>7. m.proc["umi_camera"] \in {"none", "ended"}
    <3>1. ~Owned(x, "umi_camera")
      BY <1>4 DEF TickInv, MInv, Camera
    <3>2. QED
      BY <3>1, Constants DEF TickInv, Reached, Owned
  <2>8. MInv(z)
    BY <2>4, <2>5 DEF TickInv, MInv, OneTransaction, Camera, Pauses, Records, Owned, Still
  <2>9. \A k \in Local : Reached(z, k)
    BY <2>5 DEF TickInv, Reached
  <2>10. TickInv(z)
    BY <2>5, <2>7, <2>8, <2>9 DEF TickInv
  <2>11. QED
    BY <1>4, <2>1, <2>3, <2>5, <2>6, <2>10, TickSwitch
<1>5. QED
  BY <1>2, <1>3, <1>4

\* The switch starts what it had ended, and never the control process.
LEMMA TickStarted ==
  ASSUME NEW x, NEW K \in SUBSET Local, NEW fails, NEW y, TickInv(x), y = Started(x, K, fails),
         x.switch.phase # "none", K \subseteq x.switch.running
  PROVE  TickInv(y) /\ y.op = x.op /\ y.switch = x.switch /\ y.paused = x.paused
<1>1. /\ x \in Managers /\ y \in Managers /\ SameTransactions(x, y)
      /\ \A k \in Local : y.proc[k] = IF k \in K /\ k \notin fails /\ x.proc[k] = "none"
                                      THEN "running" ELSE x.proc[k]
  BY StartedIs DEF TickInv, MInv
<1>2. "teleop" \in Local /\ "umi_camera" \in Local /\ "teleop" \notin K
  BY <1>1, Constants DEF Managers, Switches, Images
<1>3. y.proc["teleop"] = x.proc["teleop"] /\ (Still(x) => Still(y))
  BY <1>1, <1>2 DEF Still, SameTransactions
<1>4. MInv(y)
  <2>1. Camera(y)
    BY <1>1, <1>2 DEF TickInv, MInv, Camera, Owned, SameTransactions
  <2>2. OneTransaction(y) /\ Records(y)
    BY <1>1 DEF TickInv, MInv, OneTransaction, Records, SameTransactions
  <2>3. Pauses(y)
    BY <1>1, <1>3 DEF TickInv, MInv, Pauses, SameTransactions
  <2>4. QED
    BY <1>1, <2>1, <2>2, <2>3 DEF MInv
<1>5. ~(m.alive = "running" /\ x.alive = "finishing")
  BY DEF TickInv
<1>6. \A k \in Local : Reached(y, k)
  BY <1>1, <1>3 DEF TickInv, Reached
<1>7. QED
  BY <1>1, <1>4, <1>5, <1>6 DEF TickInv, SameTransactions

\* A start that fails goes back to the former device, once.
LEMMA TickSwitchStart ==
  ASSUME NEW x, TickInv(x), NEW fails
  PROVE  TickInv(SwitchStart(x, fails))
<1> DEFINE failed == {k \in x.switch.running : ~Owned(x, k)} \cap fails
           K == IF "umi_camera" \in failed THEN {} ELSE x.switch.running
           y == Started(x, K, fails)
<1>1. x \in Managers /\ x.switch \in Switches
  BY DEF TickInv, MInv, Managers
<1>2. CASE x.switch.phase # "start"
  BY <1>2 DEF SwitchStart
<1>3. CASE x.switch.phase = "start"
  <2>1. K \in SUBSET Local /\ K \subseteq x.switch.running
    BY <1>1 DEF Switches
  <2>2. SwitchStart(x, fails) = IF failed = {} THEN [y EXCEPT !.switch.phase = "verify"]
                                ELSE IF x.switch.rollback THEN Finish(y)
                                ELSE [y EXCEPT !.switch.rollback = TRUE, !.switch.phase = "release"]
    BY <1>3 DEF SwitchStart
  <2> HIDE DEF failed, K
  <2>3. TickInv(y) /\ y.op = x.op /\ y.switch = x.switch /\ y.paused = x.paused
    BY <1>3, <2>1, TickStarted
  <2> HIDE DEF y
  <2>4. y \in Managers /\ Still(y)
    BY <1>3, <2>3 DEF TickInv, MInv, Pauses
  <2>5. TickInv([y EXCEPT !.switch.phase = "verify"])
    <3> DEFINE v == [x.switch EXCEPT !.phase = "verify"]
    <3>1. [y EXCEPT !.switch.phase = "verify"] = [y EXCEPT !.switch = v]
      BY <2>3, <2>4
    <3>2. v \in Switches /\ v.phase = "verify" /\ v.running = x.switch.running
      BY <1>1 DEF Switches, SwitchPhases
    <3> HIDE DEF v
    <3>3. QED
      BY <1>3, <2>3, <2>4, <3>1, <3>2, TickSwitch
  <2>6. TickInv([y EXCEPT !.switch.rollback = TRUE, !.switch.phase = "release"])
    <3> DEFINE v == [x.switch EXCEPT !.rollback = TRUE, !.phase = "release"]
    <3>1. [y EXCEPT !.switch.rollback = TRUE, !.switch.phase = "release"] = [y EXCEPT !.switch = v]
      BY <2>3, <2>4 DEF Managers, Switches
    <3>2. v \in Switches /\ v.phase = "release" /\ v.running = x.switch.running
      BY <1>1 DEF Switches, SwitchPhases
    <3> HIDE DEF v
    <3>3. QED
      BY <1>3, <2>3, <2>4, <3>1, <3>2, TickSwitch
  <2>7. TickInv(Finish(y))
    BY <1>3, <2>3, TickFinish
  <2>8. QED
    BY <2>2, <2>5, <2>6, <2>7
<1>4. QED
  BY <1>2, <1>3

\* A camera without an image is ended, with the arm still, and the former device tried.
LEMMA TickSwitchVerify ==
  ASSUME NEW x, TickInv(x)
  PROVE  TickInv(SwitchVerify(x))
<1>1. x \in Managers /\ x.switch \in Switches
  BY DEF TickInv, MInv, Managers
<1>2. CASE SwitchVerify(x) = x
  BY <1>2
<1>3. CASE x.switch.phase = "verify" /\ SwitchVerify(x) = Finish(x)
  BY <1>3, TickFinish
<1>4. CASE x.switch.phase = "verify"
           /\ SwitchVerify(x) = [Told(x, x.switch.running) EXCEPT !.switch.rollback = TRUE,
                                                                  !.switch.phase = "release"]
  <2> DEFINE z == Told(x, x.switch.running)
             v == [x.switch EXCEPT !.rollback = TRUE, !.phase = "release"]
  <2>1. Still(x) /\ (m.alive = "running" => x.alive # "finishing")
    BY <1>4 DEF TickInv, MInv, Pauses
  <2>2. z \in Managers /\ z.switch = x.switch /\ TickInv(z)
    BY <1>1, <2>1, ToldIs, TickTold DEF SameTransactions
  <2>3. SwitchVerify(x) = [z EXCEPT !.switch.rollback = TRUE, !.switch.phase = "release"]
    BY <1>4
  <2> HIDE DEF z
  <2>4. SwitchVerify(x) = [z EXCEPT !.switch = v]
    BY <2>2, <2>3 DEF Managers, Switches
  <2>5. v \in Switches /\ v.phase = "release" /\ v.running = x.switch.running
    BY <1>1 DEF Switches, SwitchPhases
  <2>6. Still(z)
    BY <1>4, <2>2 DEF TickInv, MInv, Pauses
  <2> HIDE DEF v
  <2>7. QED
    BY <1>4, <2>2, <2>4, <2>5, <2>6, TickSwitch
<1>5. QED
  BY <1>2, <1>3, <1>4 DEF SwitchVerify

\* Before the phases: what ended is forgotten, and everything may be started.
LEMMA TickBegins ==
  ASSUME IInv, NEW due, NEW fails
  PROVE  TickInv(Autostart(Polled(m), due, fails))
<1> DEFINE p == [k \in Local |-> IF m.proc[k] = "ended" THEN "none" ELSE m.proc[k]]
           x == Polled(m)
           z == Started(x, Local, fails)
           y == [z EXCEPT !.autostart = FALSE]
<1>1. MInv(m) /\ m \in Managers
  BY DEF IInv, MInv
<1>2. p \in [Local -> Processes] /\ x = [m EXCEPT !.proc = p]
  BY <1>1 DEF Managers, Processes, Polled
<1> HIDE DEF p
<1>3. x \in Managers /\ x.proc = p /\ SameTransactions(m, x)
  BY <1>1, <1>2 DEF Managers, SameTransactions
<1> HIDE DEF x
<1>4. \A k \in Local : x.proc[k] = IF m.proc[k] = "ended" THEN "none" ELSE m.proc[k]
  BY <1>3 DEF p
<1>5. TickInv(x)
  <2>1. Still(m) => Still(x)
    BY <1>3, <1>4, Constants DEF Still, SameTransactions
  <2>2. Camera(x)
    BY <1>1, <1>3, <1>4, Constants DEF MInv, Camera, Owned, SameTransactions
  <2>3. OneTransaction(x) /\ Records(x)
    BY <1>1, <1>3 DEF MInv, OneTransaction, Records, SameTransactions
  <2>4. Pauses(x)
    BY <1>1, <1>3, <2>1 DEF MInv, Pauses, SameTransactions
  <2>5. \A k \in Local : Reached(x, k)
    BY <1>4 DEF Reached
  <2>6. QED
    BY <1>3, <2>2, <2>3, <2>4, <2>5 DEF TickInv, MInv, SameTransactions
<1>6. CASE x.autostart /\ due /\ Startable(x)
  <2>1. /\ z \in Managers /\ SameTransactions(x, z)
        /\ \A k \in Local : z.proc[k] = IF k \in Local /\ k \notin fails /\ x.proc[k] = "none"
                                        THEN "running" ELSE x.proc[k]
    BY <1>3, StartedIs
  <2> HIDE DEF z
  <2>2. y \in Managers /\ y.proc = z.proc /\ SameTransactions(x, y)
    BY <2>1 DEF Managers, SameTransactions
  <2> HIDE DEF y
  <2>3. x.op.phase = "none" /\ x.switch.phase = "none"
    BY <1>6 DEF Startable
  <2>4. MInv(y)
    BY <1>5, <2>2, <2>3
    DEF TickInv, MInv, OneTransaction, Camera, Pauses, Records, SameTransactions
  <2>5. \A k \in Local : Reached(y, k)
    BY <1>4, <2>1, <2>2 DEF Reached
  <2>6. TickInv(y)
    BY <1>3, <2>2, <2>3, <2>4, <2>5 DEF TickInv, SameTransactions
  <2>7. Autostart(x, due, fails) = y
    BY <1>6 DEF Autostart, y, z
  <2>8. QED
    BY <2>6, <2>7 DEF x
<1>7. CASE ~(x.autostart /\ due /\ Startable(x))
  <2>1. Autostart(x, due, fails) = x
    BY <1>7 DEF Autostart
  <2>2. QED
    BY <1>5, <2>1 DEF x
<1>8. QED
  BY <1>6, <1>7

\* The phases after each other: what a tick leaves keeps the invariant.
LEMMA TickIs ==
  ASSUME IInv, NEW ready, NEW due, NEW fails, Tick(ready, due, fails)
  PROVE  TickInv(m')
<1> DEFINE begun == {Autostart(x, due, fails) : x \in {Polled(m)}}
<1>1. \A x \in begun : TickInv(x)
  BY TickBegins
<1>2. m' \in AdvanceSwitch(AdvanceStop(begun, ready), ready, fails)
  BY DEF Tick
<1> HIDE DEF begun
<1>3. \A x \in AdvanceStop(begun, ready) : TickInv(x)
  <2> DEFINE paused  == {PausePhase(x, ready) : x \in begun}
             queried == {QueryPhase(x, ready) : x \in paused}
             ended   == {StopRecordingPhase(x, ready) : x \in queried}
             saved   == {WaitPhase(x) : x \in ended}
  <2>1. \A x \in paused : TickInv(x)
    BY <1>1, TickPause
  <2>2. \A x \in queried : TickInv(x)
    <3> HIDE DEF paused
    <3>1. QED
      BY <2>1, TickQuery
  <2>3. \A x \in ended : TickInv(x)
    <3> HIDE DEF queried
    <3>1. QED
      BY <2>2, TickStopRecording
  <2>4. \A x \in saved : TickInv(x)
    <3> HIDE DEF ended
    <3>1. QED
      BY <2>3, TickWait
  <2>5. AdvanceStop(begun, ready) = {StopPhase(x) : x \in saved}
    BY DEF AdvanceStop
  <2> HIDE DEF saved
  <2>6. QED
    BY <2>4, <2>5, TickStop
<1> DEFINE stopped == AdvanceStop(begun, ready)
<1> HIDE DEF stopped
<1>4. \A x \in AdvanceSwitch(stopped, ready, fails) : TickInv(x)
  <2> DEFINE paused   == {SwitchPause(x, ready) : x \in {y \in stopped : y.op.phase = "none"}}
             released == {SwitchRelease(x) : x \in paused}
             started  == {SwitchStart(x, fails) : x \in released}
  <2>1. \A x \in stopped : TickInv(x)
    BY <1>3 DEF stopped
  <2>2. \A x \in paused : TickInv(x)
    BY <2>1, TickSwitchPause
  <2>3. \A x \in released : TickInv(x)
    <3> HIDE DEF paused
    <3>1. QED
      BY <2>2, TickSwitchRelease
  <2>4. \A x \in started : TickInv(x)
    <3> HIDE DEF released
    <3>1. QED
      BY <2>3, TickSwitchStart
  <2>5. AdvanceSwitch(stopped, ready, fails)
          = {SwitchVerify(x) : x \in started} \cup {x \in stopped : x.op.phase # "none"}
    BY DEF AdvanceSwitch
  <2> HIDE DEF started
  <2>6. QED
    BY <2>1, <2>4, <2>5, TickSwitchVerify
<1>5. QED
  BY <1>2, <1>4 DEF stopped

-----------------------------------------------------------------------------
(* The steps *)

\* What a step may not do to the device, the shutdown and the processes.
Proper ==
  /\ m'.device # m.device => m.proc["umi_camera"] \in {"none", "ended"}
  /\ m.alive = "running" /\ m'.alive = "finishing" => \A k \in Local : m'.proc[k] = "none"
  /\ \A k \in Local \ {"teleop"} :
       m.proc[k] = "running" /\ m'.proc[k] = "stopping" /\ Serving /\ m.switch.phase # "pause"
         => m.paused \/ m'.proc["teleop"] # "running"

\* A tick is proper.
LEMMA TickProper ==
  ASSUME TickInv(m')
  PROVE  MInv(m') /\ Proper
BY DEF TickInv, Reached, Proper

\* A start of components, outside a transaction.
LEMMA StartKeeps ==
  ASSUME IInv, Startable(m), NEW K \in SUBSET Local, NEW fails, m' = Started(m, K, fails)
  PROVE  MInv(m') /\ Proper
<1>1. MInv(m) /\ m \in Managers
  BY DEF IInv, MInv
<1>2. /\ m' \in Managers /\ SameTransactions(m, m')
      /\ \A k \in Local : m'.proc[k] = IF k \in K /\ k \notin fails /\ m.proc[k] = "none"
                                       THEN "running" ELSE m.proc[k]
  <2>1. m' \in Managers /\ SameTransactions(m, m')
    BY <1>1, StartedIs
  <2>2. ASSUME NEW k \in Local
        PROVE  m'.proc[k] = IF k \in K /\ k \notin fails /\ m.proc[k] = "none"
                            THEN "running" ELSE m.proc[k]
    BY <1>1, StartedIs
  <2>3. QED
    BY <2>1, <2>2
<1>3. m.op.phase = "none" /\ m.switch.phase = "none"
  BY DEF Startable
<1>4. MInv(m')
  BY <1>1, <1>2, <1>3 DEF MInv, OneTransaction, Camera, Pauses, Records, SameTransactions
<1>5. Proper
  BY <1>2 DEF Proper, SameTransactions
<1>6. QED
  BY <1>4, <1>5

\* A stop cancels a switch under way; what that ends was to be ended by the switch.
LEMMA StopKeeps ==
  ASSUME IInv, NEW targets \in SUBSET Local, NEW shutdown \in BOOLEAN,
         shutdown => targets = Local, BeginStop(targets, shutdown)
  PROVE  MInv(m') /\ Proper
<1> DEFINE z == Told(m, m.switch.running)
           x == [z EXCEPT !.switch = NoSwitch]
<1>1. MInv(m) /\ m \in Managers /\ m.op \in Operations
  BY DEF IInv, MInv, Managers
<1>2. /\ z \in Managers /\ SameTransactions(m, z)
      /\ \A k \in Local : z.proc[k] = IF k \in m.switch.running /\ m.proc[k] = "running"
                                      THEN "stopping" ELSE m.proc[k]
  BY <1>1, ToldIs
<1> HIDE DEF z
<1>3. x \in Managers /\ x.switch = NoSwitch /\ SameButSwitch(z, x)
  BY <1>2, SwitchIs, Constants
<1>4. x = Cancelled(m)
  BY DEF Cancelled, z
<1> HIDE DEF x
<1>5. NoSwitch.phase = "none" /\ NoSwitch.running = {}
  BY DEF NoSwitch
<1>6. Still(m) => x.proc["teleop"] # "running" \/ m.paused
  BY <1>2, <1>3, Constants DEF Still, SameButSwitch
<1>7. \A k \in Local : m.proc[k] = "running" /\ x.proc[k] = "stopping" /\ m.switch.phase # "pause"
        => m.paused \/ x.proc["teleop"] # "running"
  <2>1. ASSUME NEW k \in Local, m.proc[k] = "running", x.proc[k] = "stopping",
               m.switch.phase # "pause"
        PROVE  Still(m)
    <3>1. k \in m.switch.running
      BY <1>2, <1>3, <2>1 DEF SameButSwitch
    <3>2. m.switch.phase # "none"
      BY <1>1, <3>1 DEF MInv, OneTransaction
    <3>3. QED
      BY <1>1, <2>1, <3>2 DEF MInv, Pauses
  <2>2. QED
    BY <1>6, <2>1
<1>8. x.op = m.op /\ x.device = m.device /\ x.alive = m.alive /\ x.last = m.last
      /\ x.recording = m.recording /\ x.paused = m.paused
  BY <1>2, <1>3 DEF SameTransactions, SameButSwitch
<1>9. CASE m.op.phase = "none"
  <2> DEFINE v == [NoOperation EXCEPT !.phase = "pause", !.targets = targets, !.shutdown = shutdown]
  <2>1. m' = [x EXCEPT !.autostart = FALSE, !.paused = FALSE, !.last = Nothing, !.op = v]
    BY <1>4, <1>9 DEF BeginStop
  <2>2. /\ v \in Operations /\ v.phase = "pause" /\ v.future = "none"
        /\ v.shutdown = shutdown /\ v.targets = targets
    BY Constants DEF NoOperation, Operations, Phases
  <2> HIDE DEF v
  <2>3. m' \in Managers
    BY <1>3, <2>1, <2>2, Constants DEF Managers
  <2>4. /\ m'.op = v /\ m'.paused = FALSE /\ m'.last = Nothing /\ m'.proc = x.proc
        /\ m'.switch = NoSwitch /\ m'.device = m.device /\ m'.alive = m.alive
        /\ m'.recording = m.recording
    BY <1>3, <1>8, <2>1 DEF Managers
  <2>5. Nothing.id \in Saved
    BY DEF Nothing, Saved
  <2>6. MInv(m')
    <3>1. OneTransaction(m') /\ Camera(m') /\ Pauses(m')
      BY <1>5, <2>2, <2>4 DEF OneTransaction, Camera, Pauses
    <3>2. Records(m')
      BY <1>1, <2>2, <2>4, <2>5 DEF MInv, Records
    <3>3. QED
      BY <2>3, <3>1, <3>2 DEF MInv
  <2>7. Proper
    BY <1>7, <2>4 DEF Proper
  <2>8. QED
    BY <2>6, <2>7
<1>10. CASE m.op.phase # "none"
  <2> DEFINE v == IF shutdown THEN Joined(m.op) ELSE m.op
  <2>1. m' = [x EXCEPT !.op = v]
    BY <1>3, <1>4, <1>8, <1>10 DEF BeginStop, Managers
  <2>2. /\ v \in Operations /\ v.phase = m.op.phase /\ v.future = m.op.future
        /\ v.error = m.op.error /\ v.id = m.op.id /\ (v.shutdown => v.targets = Local)
    BY <1>1 DEF Joined, Operations, MInv, OneTransaction
  <2> HIDE DEF v
  <2>3. m' \in Managers /\ m'.op = v /\ SameButOp(x, m')
    BY <1>3, <2>1, <2>2, OpIs
  <2>4. Still(m) => Still(m')
    BY <1>6, <1>8, <2>3 DEF Still, SameButOp
  <2>5. MInv(m')
    <3>1. OneTransaction(m') /\ Camera(m')
      BY <1>3, <1>5, <2>2, <2>3 DEF OneTransaction, Camera, SameButOp
    <3>2. Pauses(m')
      BY <1>1, <1>3, <1>5, <1>8, <2>2, <2>3, <2>4 DEF MInv, Pauses, SameButOp
    <3>3. Records(m')
      BY <1>1, <1>8, <2>2, <2>3 DEF MInv, Records, SameButOp
    <3>4. QED
      BY <2>3, <3>1, <3>2, <3>3 DEF MInv
  <2>6. Proper
    BY <1>7, <1>8, <2>3 DEF Proper, SameButOp
  <2>7. QED
    BY <2>5, <2>6
<1>11. QED
  BY <1>9, <1>10

\* A switch begins outside a transaction; without a camera there is none to be ended.
LEMMA SwitchKeeps ==
  ASSUME IInv, NEW target \in Devices, RequestSwitch(target)
  PROVE  MInv(m') /\ Proper
<1> DEFINE v == [NoSwitch EXCEPT !.phase = "pause", !.old = m.actual, !.new = target,
                                 !.running = {k \in Local \cap Images : Owned(m, k)}]
<1>1. MInv(m) /\ m \in Managers
  BY DEF IInv, MInv
<1>2. /\ v \in Switches /\ v.phase = "pause" /\ v.future = "none"
      /\ v.running = {k \in Local \cap Images : Owned(m, k)}
  BY <1>1, Constants DEF NoSwitch, Switches, SwitchPhases, Managers
<1>3. m' = [m EXCEPT !.switch = v] /\ m.op.phase = "none"
  BY DEF RequestSwitch, Editable, Startable
<1> HIDE DEF v
<1>4. m' \in Managers /\ m'.switch = v /\ SameButSwitch(m, m')
  BY <1>1, <1>2, <1>3, SwitchIs
<1>5. Camera(m')
  BY <1>2, <1>4, Constants DEF Camera, Owned, Images, SameButSwitch
<1>6. OneTransaction(m') /\ Pauses(m') /\ Records(m')
  BY <1>1, <1>2, <1>3, <1>4 DEF MInv, OneTransaction, Pauses, Records, SameButSwitch
<1>7. QED
  BY <1>4, <1>5, <1>6 DEF MInv, Proper, SameButSwitch

\* A request keeps the invariant, and is proper.
LEMMA RequestKeeps ==
  ASSUME IInv, Request
  PROVE  MInv(m') /\ Proper
<1>1. ASSUME NEW k \in Local, NEW run \in BOOLEAN, SetRunning(k, run)
      PROVE  MInv(m') /\ Proper
  <2>1. CASE run
    BY <1>1, <2>1, StartKeeps DEF SetRunning
  <2>2. CASE ~run
    BY <1>1, <2>2, StopKeeps DEF SetRunning
  <2>3. QED
    BY <2>1, <2>2
<1>2. ASSUME NEW fails \in SUBSET Unstartable, StartAll(fails)
      PROVE  MInv(m') /\ Proper
  BY <1>2, StartKeeps DEF StartAll
<1>3. ASSUME NEW shutdown \in BOOLEAN, BeginStop(Local, shutdown)
      PROVE  MInv(m') /\ Proper
  BY <1>3, StopKeeps
<1>4. ASSUME NEW target \in Devices, RequestSwitch(target)
      PROVE  MInv(m') /\ Proper
  BY <1>4, SwitchKeeps
<1>5. QED
  BY <1>1, <1>2, <1>3, <1>4 DEF Request

\* The answer to a pause comes to the transaction that asked for it.
LEMMA AnswerKeeps ==
  ASSUME IInv, NEW ok \in BOOLEAN, PauseAnswered(ok)
  PROVE  MInv(m') /\ Proper
<1> DEFINE future == IF ok THEN "ok" ELSE "failed"
           paused == m.paused \/ ok
<1>1. MInv(m) /\ m \in Managers /\ m.op \in Operations /\ m.switch \in Switches
  BY DEF IInv, MInv, Managers
<1>2. future \in Futures /\ paused \in BOOLEAN /\ (future = "ok" => paused)
  BY <1>1 DEF Futures, Managers
<1>3. CASE m.op.phase = "pause" /\ m' = [m EXCEPT !.op.future = future, !.paused = paused]
  <2> DEFINE v == [m.op EXCEPT !.future = future]
  <2>1. /\ v \in Operations /\ v.phase = "pause" /\ v.future = future /\ v.targets = m.op.targets
        /\ v.shutdown = m.op.shutdown
    BY <1>1, <1>2, <1>3 DEF Operations
  <2>2. m' = [m EXCEPT !.op = v, !.paused = paused]
    BY <1>3
  <2> HIDE DEF v, future, paused
  <2>3. m' \in Managers
    BY <1>1, <1>2, <2>1, <2>2 DEF Managers
  <2>4. /\ m'.op = v /\ m'.paused = paused /\ m'.proc = m.proc /\ m'.switch = m.switch
        /\ m'.device = m.device /\ m'.recording = m.recording /\ m'.last = m.last
        /\ m'.alive = m.alive
    BY <1>1, <2>2 DEF Managers
  <2>5. m.switch.phase = "none"
    BY <1>1, <1>3 DEF MInv, OneTransaction
  <2>6. MInv(m')
    BY <1>1, <1>2, <1>3, <2>1, <2>3, <2>4, <2>5
    DEF MInv, OneTransaction, Camera, Pauses, Records, Owned
  <2>7. QED
    BY <2>4, <2>6 DEF Proper
<1>4. CASE m.switch.phase = "pause" /\ m' = [m EXCEPT !.switch.future = future, !.paused = paused]
  <2> DEFINE v == [m.switch EXCEPT !.future = future]
  <2>1. /\ v \in Switches /\ v.phase = "pause" /\ v.future = future
        /\ v.running = m.switch.running
    BY <1>1, <1>2, <1>4 DEF Switches
  <2>2. m' = [m EXCEPT !.switch = v, !.paused = paused]
    BY <1>4
  <2> HIDE DEF v, future, paused
  <2>3. m' \in Managers
    BY <1>1, <1>2, <2>1, <2>2 DEF Managers
  <2>4. /\ m'.switch = v /\ m'.paused = paused /\ m'.proc = m.proc /\ m'.op = m.op
        /\ m'.device = m.device /\ m'.recording = m.recording /\ m'.last = m.last
        /\ m'.alive = m.alive
    BY <1>1, <2>2 DEF Managers
  <2>5. m.op.phase = "none"
    BY <1>1, <1>4 DEF MInv, OneTransaction
  <2>6. MInv(m')
    BY <1>1, <1>2, <1>4, <2>1, <2>3, <2>4, <2>5
    DEF MInv, OneTransaction, Camera, Pauses, Records, Owned
  <2>7. QED
    BY <2>4, <2>6 DEF Proper
<1>5. QED
  BY <1>3, <1>4 DEF PauseAnswered

\* What the recorder says is a status the manager can rely on.
LEMMA StatusIs ==
  ASSUME IInv
  PROVE  /\ Status(recorder) \in Statuses /\ Status(recorder).last \in Saved
         /\ Status(recorder).state \in {"idle", "unknown"} => Status(recorder).id = NoId
BY Constants DEF IInv, Status, Statuses, Recorders

\* A status, by an answer or by the topic, that updates the call under way at most.
LEMMA StatusKeeps ==
  ASSUME IInv, NEW f \in Futures, f = m.op.future \/ m.op.phase # "pause",
         m' = [m EXCEPT !.op = [m.op EXCEPT !.future = f], !.recording = Status(recorder)]
  PROVE  MInv(m') /\ Proper
<1> DEFINE v == [m.op EXCEPT !.future = f]
           r == Status(recorder)
<1>1. MInv(m) /\ m \in Managers /\ m.op \in Operations
  BY DEF IInv, MInv, Managers
<1>2. /\ v \in Operations /\ v.phase = m.op.phase /\ v.future = f /\ v.targets = m.op.targets
      /\ v.shutdown = m.op.shutdown /\ v.id = m.op.id /\ v.error = m.op.error
  BY <1>1 DEF Operations
<1>3. r \in Statuses /\ r.last \in Saved /\ (r.state \in {"idle", "unknown"} => r.id = NoId)
  BY StatusIs
<1>4. m' = [m EXCEPT !.op = v, !.recording = r]
  OBVIOUS
<1> HIDE DEF v, r
<1>5. m' \in Managers
  BY <1>1, <1>2, <1>3, <1>4 DEF Managers
<1>6. /\ m'.op = v /\ m'.recording = r /\ m'.proc = m.proc /\ m'.switch = m.switch
      /\ m'.device = m.device /\ m'.paused = m.paused /\ m'.last = m.last /\ m'.alive = m.alive
  BY <1>1, <1>4 DEF Managers
<1>7. OneTransaction(m') /\ Camera(m') /\ Pauses(m')
  BY <1>1, <1>2, <1>6 DEF MInv, OneTransaction, Camera, Pauses, Owned, Still
<1>8. Records(m')
  BY <1>1, <1>2, <1>3, <1>6 DEF MInv, Records
<1>9. QED
  BY <1>5, <1>6, <1>7, <1>8 DEF MInv, Proper

\* A change of the stop that keeps its phase, and of the pause keeps the answer.
LEMMA OpKeeps ==
  ASSUME IInv, NEW v \in Operations, m' = [m EXCEPT !.op = v],
         v.phase = m.op.phase, v.targets = m.op.targets, v.shutdown = m.op.shutdown,
         v.id = m.op.id, v.error = m.op.error,
         v.future = m.op.future \/ m.op.phase # "pause"
  PROVE  MInv(m') /\ Proper
<1>1. MInv(m) /\ m \in Managers
  BY DEF IInv, MInv
<1>2. m' \in Managers /\ m'.op = v /\ SameButOp(m, m')
  BY <1>1, OpIs
<1>3. OneTransaction(m') /\ Camera(m') /\ Pauses(m')
  BY <1>1, <1>2 DEF MInv, OneTransaction, Camera, Pauses, Owned, Still, SameButOp
<1>4. Records(m')
  BY <1>1, <1>2 DEF MInv, Records, SameButOp
<1>5. QED
  BY <1>2, <1>3, <1>4 DEF MInv, Proper, SameButOp

\* A process ends, or the guard of one of a manager that is gone tells it to.
LEMMA ProcessKeeps ==
  ASSUME IInv, NEW k \in Local, NEW s \in {"ended", "stopping"}, m.proc[k] # "none",
         m' = [m EXCEPT !.proc = [m.proc EXCEPT ![k] = s]], s = "ended" \/ m.alive = "gone"
  PROVE  MInv(m') /\ Proper
<1> DEFINE p == [m.proc EXCEPT ![k] = s]
<1>1. MInv(m) /\ m \in Managers
  BY DEF IInv, MInv
<1>2. p \in [Local -> Processes]
  BY <1>1 DEF Managers, Processes
<1>3. \A j \in Local : p[j] = IF j = k THEN s ELSE m.proc[j]
  BY <1>1 DEF Managers
<1>4. m' = [m EXCEPT !.proc = p]
  OBVIOUS
<1> HIDE DEF p
<1>5. m' \in Managers /\ m'.proc = p /\ SameTransactions(m, m')
  BY <1>1, <1>2, <1>4 DEF Managers, SameTransactions
<1>6. Still(m) => Still(m')
  BY <1>3, <1>5, Constants DEF Still, SameTransactions
<1>7. Camera(m')
  BY <1>1, <1>3, <1>5, Constants DEF MInv, Camera, Owned, SameTransactions
<1>8. OneTransaction(m') /\ Records(m')
  BY <1>1, <1>5 DEF MInv, OneTransaction, Records, SameTransactions
<1>9. Pauses(m')
  BY <1>1, <1>5, <1>6 DEF MInv, Pauses, SameTransactions
<1>10. Proper
  BY <1>3, <1>5 DEF Proper, Serving, SameTransactions
<1>11. QED
  BY <1>5, <1>7, <1>8, <1>9, <1>10 DEF MInv

\* A manager that ends leaves its processes and the device, and nothing under way.
LEMMA EndKeeps ==
  ASSUME IInv, ManagerEnds
  PROVE  MInv(m') /\ Proper
<1>1. MInv(m) /\ m \in Managers
  BY DEF IInv, MInv
<1>2. Fresh \in Managers
  BY Constants, ManagerAssumption DEF Fresh, Managers, Processes
<1>3. m' = [Fresh EXCEPT !.alive = "gone", !.proc = m.proc, !.device = m.device]
  BY DEF ManagerEnds
<1>4. m' \in Managers
  BY <1>1, <1>2, <1>3 DEF Managers
<1>5. /\ m'.op = Fresh.op /\ m'.switch = Fresh.switch /\ m'.last = Fresh.last
      /\ m'.recording = Fresh.recording /\ m'.alive = "gone" /\ m'.proc = m.proc
      /\ m'.device = m.device
  BY <1>2, <1>3 DEF Managers
<1>6. /\ Fresh.op = NoOperation /\ Fresh.switch = NoSwitch /\ Fresh.last = Nothing
      /\ Fresh.recording = Unknown
  BY DEF Fresh
<1>7. OneTransaction(m') /\ Camera(m') /\ Pauses(m')
  BY <1>5, <1>6 DEF OneTransaction, Camera, Pauses, NoOperation, NoSwitch
<1>8. Records(m')
  BY <1>5, <1>6 DEF Records, NoOperation, Nothing, Unknown, Saved
<1>9. QED
  BY <1>4, <1>5, <1>7, <1>8 DEF MInv, Proper

\* The dead-line of a switch passes.
LEMMA SwitchExpires ==
  ASSUME IInv, m' = [m EXCEPT !.switch.expired = TRUE]
  PROVE  MInv(m') /\ Proper
<1> DEFINE v == [m.switch EXCEPT !.expired = TRUE]
<1>1. MInv(m) /\ m \in Managers /\ m.switch \in Switches
  BY DEF IInv, MInv, Managers
<1>2. /\ v \in Switches /\ v.phase = m.switch.phase /\ v.running = m.switch.running
      /\ v.future = m.switch.future
  BY <1>1 DEF Switches
<1>3. m' = [m EXCEPT !.switch = v]
  OBVIOUS
<1> HIDE DEF v
<1>4. m' \in Managers /\ m'.switch = v /\ SameButSwitch(m, m')
  BY <1>1, <1>2, <1>3, SwitchIs
<1>5. OneTransaction(m') /\ Camera(m') /\ Pauses(m') /\ Records(m')
  BY <1>1, <1>2, <1>4
  DEF MInv, OneTransaction, Camera, Pauses, Records, Owned, Still, SameButSwitch
<1>6. QED
  BY <1>4, <1>5 DEF MInv, Proper, SameButSwitch

\* An image changes only what the manager knows of the camera.
LEMMA FrameKeeps ==
  ASSUME IInv, m' = [m EXCEPT !.frames = TRUE]
  PROVE  MInv(m') /\ Proper
<1>1. MInv(m) /\ m \in Managers
  BY DEF IInv, MInv
<1>2. m' \in Managers /\ m'.proc = m.proc /\ SameTransactions(m, m')
  BY <1>1 DEF Managers, SameTransactions
<1>3. OneTransaction(m') /\ Camera(m') /\ Pauses(m') /\ Records(m')
  BY <1>1, <1>2
  DEF MInv, OneTransaction, Camera, Pauses, Records, Owned, Still, SameTransactions
<1>4. QED
  BY <1>2, <1>3 DEF MInv, Proper, SameTransactions

\* The invariant of what a step makes of the manager is that of the next state, when the
\* recorder loses no saved recording.
LEMMA MovesOn ==
  ASSUME MInv(m'), recorder.saved \subseteq recorder'.saved
  PROVE  MInv(m)'
<1>1. Saved \subseteq Saved'
  BY DEF Saved
<1>2. Records(m)'
  BY <1>1 DEF MInv, Records
<1>3. QED
  BY <1>2 DEF MInv, OneTransaction, Camera, Pauses, Still, Owned

-----------------------------------------------------------------------------
(* The theorems *)

\* Every step keeps the invariant and is proper.
LEMMA StepIs ==
  ASSUME IInv, Next
  PROVE  IInv' /\ Proper
<1>1. MInv(m) /\ m \in Managers /\ m.op \in Operations /\ m.switch \in Switches
  BY DEF IInv, MInv, Managers
<1>2. ASSUME UNCHANGED <<recorder, requests, crashes>>, MInv(m'), Proper
      PROVE  IInv' /\ Proper
  BY <1>2, MovesOn DEF IInv, Saved
<1>3. ASSUME NEW ready \in BOOLEAN, NEW due \in BOOLEAN, NEW fails \in SUBSET Unstartable,
             Tick(ready, due, fails)
      PROVE  IInv' /\ Proper
  BY <1>2, <1>3, TickIs, TickProper DEF Tick
<1>4. CASE Request
  <2>1. /\ MInv(m') /\ Proper /\ recorder' = recorder
        /\ requests' \in 0 .. MaxRequests /\ crashes' = crashes
    BY <1>4, RequestKeeps, ManagerAssumption DEF Request, IInv
  <2>2. QED
    BY <2>1, MovesOn DEF IInv, Saved
<1>5. ASSUME NEW ok \in BOOLEAN, PauseAnswered(ok)
      PROVE  IInv' /\ Proper
  BY <1>2, <1>5, AnswerKeeps DEF PauseAnswered
<1>6. ASSUME NEW lost \in BOOLEAN, StopAnswered(lost)
      PROVE  IInv' /\ Proper
  <2>1. /\ recorder' \in Recorders /\ recorder'.saved = recorder.saved
        /\ recorder'.last = recorder.last
    BY <1>6 DEF StopAnswered, IInv, Recorders, States
  <2>2. PICK f \in Futures : m' = [m EXCEPT !.op = [m.op EXCEPT !.future = f]]
    <3>1. m.op.future \in Futures /\ m = [m EXCEPT !.op = [m.op EXCEPT !.future = m.op.future]]
      BY <1>1 DEF Managers, Operations
    <3>2. \/ m' = m
          \/ \E f \in {"ok", "failed"} : m' = [m EXCEPT !.op = [m.op EXCEPT !.future = f]]
      BY <1>6 DEF StopAnswered
    <3>3. QED
      BY <3>1, <3>2 DEF Futures
  <2>3. MInv(m') /\ Proper
    <3> DEFINE v == [m.op EXCEPT !.future = f]
    <3>1. /\ v \in Operations /\ v.phase = m.op.phase /\ v.targets = m.op.targets
          /\ v.shutdown = m.op.shutdown /\ v.id = m.op.id /\ v.error = m.op.error
      BY <1>1 DEF Operations
    <3>2. m.op.phase # "pause"
      BY <1>6 DEF StopAnswered
    <3>3. m' = [m EXCEPT !.op = v]
      BY <2>2
    <3> HIDE DEF v
    <3>4. QED
      BY <3>1, <3>2, <3>3, OpKeeps
  <2>4. MInv(m)'
    BY <2>1, <2>3, MovesOn
  <2>5. recorder'.last \in Saved'
    BY <2>1 DEF IInv, Saved
  <2>6. QED
    BY <1>6, <2>1, <2>3, <2>4, <2>5 DEF IInv, StopAnswered
<1>7. CASE StatusAnswered
  <2>1. m' = [m EXCEPT !.op = [m.op EXCEPT !.future = "ok"], !.recording = Status(recorder)]
    BY <1>7 DEF StatusAnswered
  <2>2. m.op.phase # "pause" /\ "ok" \in Futures
    BY <1>7 DEF StatusAnswered, Futures
  <2>3. QED
    BY <1>2, <1>7, <2>1, <2>2, StatusKeeps DEF StatusAnswered
<1>8. CASE RecordingStatus
  <2>1. m' = [m EXCEPT !.recording = Status(recorder)]
    BY <1>8 DEF RecordingStatus
  <2>2. m.op = [m.op EXCEPT !.future = m.op.future] /\ m.op.future \in Futures
    BY <1>1 DEF Operations
  <2>3. m' = [m EXCEPT !.op = m.op, !.recording = Status(recorder)]
    BY <1>1, <2>1 DEF Managers
  <2>4. QED
    BY <1>2, <1>8, <2>2, <2>3, StatusKeeps DEF RecordingStatus
<1>9. CASE Expire
  <2>1. CASE m' = [m EXCEPT !.op.expired = TRUE]
    <3> DEFINE v == [m.op EXCEPT !.expired = TRUE]
    <3>1. /\ v \in Operations /\ v.phase = m.op.phase /\ v.targets = m.op.targets
          /\ v.shutdown = m.op.shutdown /\ v.id = m.op.id /\ v.error = m.op.error
          /\ v.future = m.op.future
      BY <1>1 DEF Operations
    <3>2. m' = [m EXCEPT !.op = v]
      BY <2>1
    <3> HIDE DEF v
    <3>3. QED
      BY <1>2, <1>9, <3>1, <3>2, OpKeeps DEF Expire
  <2>2. CASE m' = [m EXCEPT !.switch.expired = TRUE]
    BY <1>2, <1>9, <2>2, SwitchExpires DEF Expire
  <2>3. QED
    BY <1>9, <2>1, <2>2 DEF Expire
<1>10. CASE Frame
  BY <1>2, <1>10, FrameKeeps DEF Frame
<1>11. ASSUME NEW k \in Local, Crash(k) \/ Reclaimed(k)
       PROVE  IInv' /\ Proper
  <2>1. /\ m.proc[k] # "none" /\ m' = [m EXCEPT !.proc = [m.proc EXCEPT ![k] = "ended"]]
        /\ UNCHANGED <<recorder, requests>> /\ crashes' \in 0 .. MaxCrashes
    BY <1>11, ManagerAssumption DEF Crash, Reclaimed, Ends, IInv
  <2>2. MInv(m') /\ Proper
    BY <2>1, ProcessKeeps
  <2>3. QED
    BY <2>1, <2>2, MovesOn DEF IInv, Saved
<1>12. ASSUME NEW k \in Local, Guard(k)
       PROVE  IInv' /\ Proper
  <2>1. m.alive = "gone" /\ m.proc[k] = "running" /\ m' = Told(m, {k})
    BY <1>12 DEF Guard, Orphaned
  <2>2. m' = [m EXCEPT !.proc = [m.proc EXCEPT ![k] = "stopping"]]
    <3> DEFINE p == [j \in Local |-> IF j \in {k} /\ m.proc[j] = "running" THEN "stopping"
                                     ELSE m.proc[j]]
    <3>1. p = [m.proc EXCEPT ![k] = "stopping"]
      BY <1>1, <2>1 DEF Managers
    <3>2. m' = [m EXCEPT !.proc = p]
      BY <2>1 DEF Told
    <3>3. QED
      BY <3>1, <3>2
  <2>3. MInv(m') /\ Proper
    BY <2>1, <2>2, ProcessKeeps
  <2>4. QED
    BY <1>2, <1>12, <2>3 DEF Guard
<1>13. CASE ManagerEnds
  <2>1. /\ MInv(m') /\ Proper /\ recorder' = recorder
        /\ requests' \in 0 .. MaxRequests /\ crashes' \in 0 .. MaxCrashes
    BY <1>13, EndKeeps, ManagerAssumption DEF ManagerEnds
  <2>2. QED
    BY <2>1, MovesOn DEF IInv, Saved
<1>14. CASE Recorder
  <2>1. m' = m /\ UNCHANGED <<requests, crashes>>
    BY <1>14 DEF Recorder
  <2>2. recorder \in Recorders /\ recorder.last \in Saved
    BY DEF IInv
  <2>3. /\ recorder' \in Recorders /\ recorder.saved \subseteq recorder'.saved
        /\ recorder'.last \in recorder'.saved \cup {NoId}
    <3>1. CASE RecorderStarts
      <4>1. recorder.started + 1 \in Ids
        BY <2>2, <3>1, ManagerAssumption DEF RecorderStarts, Recorders, Ids, NoId
      <4>2. QED
        BY <2>2, <3>1, <4>1 DEF RecorderStarts, Recorders, States, Saved
    <3>2. CASE RecorderStops \/ RecorderFails \/ RecorderCancels
      BY <2>2, <3>2 DEF RecorderStops, RecorderFails, RecorderCancels, Recorders, States, Saved
    <3>3. CASE RecorderSaves
      BY <2>2, <3>3 DEF RecorderSaves, Recorders, States, Saved
    <3>4. CASE RecorderRestarts
      BY <2>2, <3>4, Constants DEF RecorderRestarts, Recorders, States, Saved
    <3>5. QED
      BY <1>14, <3>1, <3>2, <3>3, <3>4 DEF Recorder
  <2>4. MInv(m)'
    BY <1>1, <2>1, <2>3, MovesOn
  <2>5. Proper
    BY <2>1 DEF Proper
  <2>6. QED
    BY <2>1, <2>3, <2>4, <2>5 DEF IInv, Saved
<1>15. QED
  BY <1>3, <1>4, <1>5, <1>6, <1>7, <1>8, <1>9, <1>10, <1>11, <1>12, <1>13, <1>14 DEF Next

\* A step that changes nothing is proper and keeps the invariant.
LEMMA StutterIs ==
  ASSUME IInv, UNCHANGED vars
  PROVE  IInv' /\ Proper
<1>1. UNCHANGED <<m, recorder, requests, crashes>>
  BY DEF vars
<1>2. MInv(m)'
  BY <1>1, MovesOn DEF IInv
<1>3. QED
  BY <1>1, <1>2 DEF IInv, Saved, Proper

\* A manager that was just started.
LEMMA InitInvariant ==
  ASSUME Init
  PROVE  IInv
<1>1. m = Fresh
  BY DEF Init
<1>2. m \in Managers
  BY <1>1, Constants, ManagerAssumption DEF Fresh, Managers, Processes
<1>3. /\ m.op = NoOperation /\ m.switch = NoSwitch /\ m.last = Nothing
      /\ m.recording = Unknown
  BY <1>1 DEF Fresh
<1>4. OneTransaction(m) /\ Camera(m) /\ Pauses(m)
  BY <1>3 DEF OneTransaction, Camera, Pauses, NoOperation, NoSwitch
<1>5. Records(m)
  BY <1>3 DEF Records, NoOperation, Nothing, Unknown, Saved
<1>6. recorder \in Recorders /\ recorder.last \in Saved
  BY Constants DEF Init, Recorders, Saved, States, NoId
<1>7. requests \in 0 .. MaxRequests /\ crashes \in 0 .. MaxCrashes
  BY ManagerAssumption DEF Init
<1>8. QED
  BY <1>2, <1>4, <1>5, <1>6, <1>7 DEF IInv, MInv

\* The invariant holds in every state, and every step is proper.
THEOREM ManagerInvariant == Spec => []IInv /\ [][Proper]_vars
<1>1. Init => IInv
  BY InitInvariant
<1>2. IInv /\ [Next]_vars => IInv' /\ [Proper]_vars
  BY StepIs, StutterIs
<1>3. QED
  BY <1>1, <1>2, PTL DEF Spec

\* Every variable keeps its type, and the two transactions exclude each other.
THEOREM TypesCorrect == Spec => []TypeOK
<1>1. IInv => TypeOK
  BY DEF IInv, MInv, OneTransaction, Managers, Operations, Switches, Results, Recorders,
     Processes, TypeOK
<1>2. QED
  BY <1>1, ManagerInvariant, PTL

\* A stop that reports no error has seen the recording that it found saved, whatever the
\* recorder does and whatever is lost or late.
THEOREM SavedOrReportedCorrect == Spec => []SavedOrReported
<1>1. IInv => SavedOrReported
  BY DEF IInv, MInv, Records, Saved, SavedOrReported
<1>2. QED
  BY <1>1, ManagerInvariant, PTL

\* The manager ends no process before the arm is paused, but the control process.
THEOREM PausedFirstCorrect == Spec => PausedFirst
<1>1. [Proper]_vars =>
        [\A k \in Local \ {"teleop"} :
           m.proc[k] = "running" /\ m'.proc[k] = "stopping" /\ Serving /\ m.switch.phase # "pause"
             => m.paused \/ m'.proc["teleop"] # "running"]_vars
  BY DEF Proper
<1>2. QED
  BY <1>1, ManagerInvariant, PTL DEF PausedFirst

\* The manager ends its session with no process left.
THEOREM ShutdownStopsAllCorrect == Spec => ShutdownStopsAll
<1>1. [Proper]_vars =>
        [m.alive = "running" /\ m'.alive = "finishing" => \A k \in Local : m'.proc[k] = "none"]_vars
  BY DEF Proper
<1>2. QED
  BY <1>1, ManagerInvariant, PTL DEF ShutdownStopsAll

\* The device of the camera changes only while no camera process exists.
THEOREM DeviceIsFreeCorrect == Spec => DeviceIsFree
<1>1. [Proper]_vars =>
        [m'.device # m.device => m.proc["umi_camera"] \in {"none", "ended"}]_vars
  BY DEF Proper
<1>2. QED
  BY <1>1, ManagerInvariant, PTL DEF DeviceIsFree
=============================================================================
