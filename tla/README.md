# A verified model of FastUMI data collection

FastUMI records demonstrations for robot learning: a hand-held gripper with cameras
and a VIVE tracker, a ROS 2 service that records one *collection* after another into
MCAP bags, a teleoperation of a real arm with the same tracker, and the tools that
turn the bags into training sets.  This directory models the parts of it whose
correctness depends on the order in which threads, callbacks, failures and restarts
meet, checks the models with TLC, and proves what matters most with TLAPS.

Three parts are here.  The recording of a collection: the queue and thread that write its
bag, the controller that runs its lifecycle, the directories it leaves on the disk.  The
operator's panel of that recording with the idempotent requests it sends.  And the
teleoperation: the node that makes the arm follow, the panel that starts and stops it
together with a remote recording, the manager of the processes of its host.  The inventory
covers the whole repository, and the plan says what comes next.

Paths below are relative to `src/ros2_ws/src/`; `fastumi_data/` without more is
`fastumi_data/fastumi_data/`.

## 1. Inventory

### Recording a collection

| Component | State | Operations | Used by |
| --- | --- | --- | --- |
| `QueuedBagWriter` (`collection_writer.py`) | queue, byte count, flags, first error, counts, a thread | `start`, `offer`, `finish`, `abort`, the thread's loop | the controller; `on_error` calls it back |
| `CollectionController` (`collection_state.py`) | lifecycle state, active collection, admission, first writer error, keyframe gate, cached static transforms, clock generation, cache of results | `start`, `stop`, `save`, `cancel`, `stop_and_save`, `stop_and_cancel`, `delete`, the `on_*` callbacks, `tick`, `shutdown` | service threads, the input thread, a timer, the main thread |
| `CollectionStorage` (`collection_storage.py`) | the data root: `.staging`, the task directories, the recycle area, a file lock | `acquire`, `create_staging`, `discard`, `publish`, `delete`, `cleanup_staging`, `release` | the controller, under none of its locks |
| `collection_node.py` | executors and callback groups | maps services and topics to the controller; publishes its status from several threads; its shutdown order | ROS |
| `collection_health.py` | windows of rates, ages and pairs | `blockers` of a start | the controller reads it |
| `CollectionPanel` (`fastumi_rviz_plugins`) | pending and confirmed request identifier, last status, epoch of the service, list of records | buttons with their questions, responses, status topic, list, time-outs | the operator |

The hard part is that every request runs in a thread of its own, and that the
controller's lock is released for everything slow: opening a bag, waiting for a
keyframe, joining the writing thread, writing files, renaming.  Meanwhile sensor
callbacks enqueue messages, the writing thread fails, another request arrives, the
process is shut down or killed.  What makes it correct: a record in a task directory
is whole; a failed or cancelled collection is never there; an answer is true; nothing
is forgotten in the staging area; the service never wedges.

### Teleoperation (`tracker_teleoperated/`)

| Component | State | Operations |
| --- | --- | --- |
| `node.py` | enabled, homing, pending move, references, time of the last heartbeat, feedback and pose | `enable`/`disable` with a generation, `return_home`, the result of a move, a control tick |
| `teleop_generation.py` | the highest generation and its result, in a file | `begin`, `finish`, recovery of an interrupted operation |
| `gripper_follow.py` | last estimate and feedback, hold already sent | `update_*`, `step` |
| `teleop_panel.cpp` | combined start/stop/cancel with its sub-requests and roll-back | keys, responses, status, time-outs |
| `component_manager.py`, `component_runtime.py`, `process_guard.py` | processes with identities, one stop operation in phases | start, stop all, shutdown: pause, query, stop recording, wait, reclaim |
| `camera_devices.py` | the device of the camera, one change of it in phases | pause, release, start, verify, roll-back, cancel |

Hard: responses that come after a time-out, an enable that is still under way when the
operator pauses, a node that restarts in between, a recorder on another machine.
Correct if an arm that the operator paused stays paused until he enables it again, if
a combined start is either complete or undone, and if every stop comes to its end.

### Control from a policy, devices, off-line tools

`fastumi_rm75` (bridge from a policy to the arm: enable, emergency stop, watch-dogs),
`dp_infer` and `dp_infer_lerobot` (observation buffer, policy), `fastumi_usb_camera`
(capture thread, one-place frame buffer, clock mapping that may be rebuilt under way),
`unitree_gripper`, `vive_tracker`, `gripper_openness`, `fastumi_gripper_estimator`,
`stereo_camera`, `tof_stereo_camera`, `xv_sdk_ros2`; `replay_annotation.py` and
`episode_manager.py` (annotation of recorded bags); converters, exporters and
calibrations, which are sequential programs over finished files; `model/dp`,
`pick_place`, `datatool` and the scripts at the top, which train networks or move
files.  `PROJECT.json` lists each with what is done about it, and every hazard with
its line.

## 2. The modules

| Module | What it is |
| --- | --- |
| `BagWriter` | `collection_writer.py`, one action per critical section or backend call |
| `CollectionController` | `collection_state.py` with the operations of `collection_storage.py` it calls |
| `CollectionStorage` | `collection_storage.py`, one action per system call |
| `CollectionLedger` | what the service promises of each record, in four actions |
| `CollectionPanel` | `collection_panel.cpp` and `collection_panel_state.hpp`, with `_run` of the controller and `list_records` of the storage |
| `ArmPermission` | what the generations of the teleoperation promise, in four actions |
| `TeleopControl` | `node.py`, `teleop_generation.py`, `gripper_follow.py` |
| `TeleopPanel` | `teleop_panel.cpp`, composed with the services of the node and a recorder |
| `ComponentManager` | `component_manager.py`, `component_runtime.py`, `process_guard.py`, `camera_devices.py` |
| `MC...` | the instances for TLC |
| `BagWriterProofs` | types with the byte count, `FileIsPrefix`, `FirstErrorDecides` and `ResultIsComplete` of the writer |
| `ControllerRefinement` | types of the controller, `Exclusive`, `ErrorIsFinal`, and that the controller implements the ledger |
| `ControllerSafety` | `SavedIsComplete`, `OpenBagIsSafe`, `StagingIsHeld`, `Settled`, `BagOpensComplete` |
| `CollectionPanelProofs` | types and safety of the panel: `DoneIsTrue`, `OneAtATime`, `AtMostOnce` |
| `StorageProofs` | types and safety of the storage: `NumbersGrow`, `NothingIsLost` |
| `TeleopControlProofs` | types and safety of the node, and that it implements `ArmPermission` |
| `TeleopPanelProofs` | types and safety of the panel: `RecoveryConfirms`, `NothingStartsMeanwhile`, `StoppedIsPaused` |
| `ManagerProofs` | types and safety of the manager: `SavedOrReported`, `PausedFirst`, `ShutdownStopsAll`, `DeviceIsFree` |

How they fit: `BagWriter` establishes what `CollectionController` assumes of a bag;
`CollectionPanel` sees of the controller only requests and statuses; `TeleopPanel` has
the services of the node in the form that `TeleopControl` gives them (a generation that
only grows, a pause that takes one) and `ComponentManager` has only the pause.

### BagWriter

Producers call `offer`, callers call `finish` or `abort` (the controller does so from
two threads), one thread writes.  `offer` and the thread release the lock in the middle,
so `OfferFull`, `OfferFails`, `OfferReports` and `Take`, `CheckError`, `Write`, `Count`
are separate actions: an overflow is detected under the lock and recorded after it.
`Condition.wait` is a state of the thread that only a notification leaves.  The backend
is external: `Write` and `Close` may fail, and nothing is said of how long they take.
A message is its topic, with a size; `accepted`, `skipped` and `aborted` are history variables.

### CollectionController

* `worker[w]` is the program counter of a service thread and the collection it works
  on.  A request is accepted in one action (`Start`, `Stop`, `Save`, `Cancel`,
  `Delete`), which is the critical section where the code tests the state the last time and
  moves on; then one action per lock section, wait or file operation up to the answer.
  A rejected request changes nothing and is not an action; `Target` is the test that a stop, a
  save or a cancel names the active collection (`_check_target`).  `stop_and_save` is
  `Stop` with its flag set; `stop_and_cancel` is a `Cancel` of a collection that is
  still being recorded.
* `input` is the thread of the subscription callbacks between two of its lock sections:
  the static-transform cache and the report of a new clock generation are written in one
  and used in the next.
* `gate` is the object that the h264 start and the input thread share.
* `writer` and `log` are what the controller sees of a bag.  The queue and the thread are
  reduced to what `BagWriter` establishes: offers are accepted in order or make the
  writer fail, a thread that was closed ends, and the bag is complete if it ended with no
  failure and nothing thrown away.
* `disk` is the directory of a collection: where it is (staging, task, recycle area,
  removed), whether it has its owner marker, what its session file says, whether its bag
  is complete, and whether a removal has already taken something out of it.  File
  operations are separate steps, and each may fail as far as `Faults` allows.
* `exit` is the main thread in `shutdown` and `release`; `Restart` is the end of the
  process at any point, followed by `acquire` of the next one.
* `told` is history: what completed requests answered.

`Faults` names what may fail in an instance: preparing a directory or bag, the queue, a
write, a join that times out, the session file, the rename, the removal of the marker, a
removal of a directory.  `OrderlyExit` says whether the executors, when shut down, wait
for the callbacks that are running.  `collection_node.py:780-789` shuts them down
before the controller, and rclpy, which is external, normally waits; with FALSE a
service thread may still be in a request while `shutdown` runs.  The keyframe run has
FALSE, the others TRUE: that records are whole and open bags left alone is claimed, and
proved, with TRUE only; a request that runs on after `shutdown` has cleaned up finds its
directory gone.  The other proofs assume neither.

### CollectionStorage

The controller has the directories in steps large enough for its own races; this module has
them in the steps of the operating system.  A directory is its place and the set of its files,
of which `rmtree` takes one after the other in any order.

* `service[s]` is a process on the data root: off, cleaning (in `acquire` or `release`) or up.
  The lock of the root keeps the others off; `Crash` gives it back as the kernel does.
* `life` is the one thread that is inside the life of a collection, which `Exclusive` of the
  controller establishes: the listings from which the number is chosen (`Look`, `List`), the
  directory and its marker (`Create`, `Mark`), discard, publish.  `Fill` is the bag, the
  snapshots and the session file, of which this module tells only whether they are there.
* `deleter[d]` is a deletion: find, rename, remove the task's directory.

What it shows rests on small orders in the code: the task is listed before the recycle area
(a record that moves between the two listings is seen), the clean-up comes before the unlock,
and the owner marker counts only in the staging area.

### CollectionLedger

A record is absent, unsaved, saved, dropped or in the recycle area.  Unsaved becomes
saved or dropped once; saved becomes deleted; an answer (`saved`, `cancelled`,
`deleted`) is given only when it is a fact.  There is no crash in it: that a crash
looks like a drop of unsaved collections and nothing else is what the refinement says.

### CollectionPanel

* `panel[p]` is what `CollectionPanel` remembers: the pending request, the last status
  (`view`) and whether it is connected, the version at which it asked for the list, the rows
  it shows, and the open question.  Qt runs it in one thread, so a press, an answer, a
  status and a timer are one action each; `QMessageBox` runs the event loop, so a question
  is two actions (`Ask`, `Agree` or `Decline`) with anything in between.
* `service` is the controller as a client sees it: state, version, `_last`, the bounded
  cache of results and `_inflight`.  `Enter` is the entry of `_run`, which repeats a kept
  result, refuses a request under way, or carries the request out up to its first critical
  section (`Carry`); `Succeed`, `Fail` or `Throw` is the rest of the body, `Close` the end of
  `_run`.  What a request does is reduced to the state it leaves the lifecycle in.
  `stop_and_save` has one transient state instead of two.
* A status is published by several threads: `Delayed` takes a snapshot that `LateStatus`
  delivers after newer ones.  Of the queries for the list only the newest is kept, as
  `list_epoch_` does.
* `MaxFaults` bounds what nobody is responsible for: a request sent again, a status held
  back, a time-out although the answer is on its way, the end of the service.  `Restart`
  comes when the panel has noticed: it is a start by hand and takes longer than the 3 s
  of `check_connection`.
* `asked`, `executed`, `succeeded`, `closed` and `forgotten` are history.

### ArmPermission and TeleopControl

`ArmPermission` has requests to enable that are asked for, a pause that voids all of them,
and an arm that follows only after a request that is not void.

`TeleopControl` is the node.  It spins in one thread, so a service, a callback or a
control tick is one action, and only the process may die inside one (`Crash`).

* `disk`, `record` and `fault` are the file of generations, its copy in memory and
  `_generation_fault`.  An operation is written before and after it takes effect, so each
  service has a stage at which the writing may fail, with or without effect on the file.
* A panel reads the generation and sends its request with the next one (`Ask`); the request
  may be delivered at any later time, repeatedly or never: `asked` never loses a member.
* `node` has the flags the services and the tick test: enabled, homing (quiet period or
  moving), reference poses, mapping, points of a calibration, the gripper's feedback and
  hold.  The values of poses and joints are the choice whether they are healthy; `fresh` is
  which of heartbeat, feedback and pose is younger than its time-out.
* `arm` and `results` are the external driver: a move of this node or of one that died, and
  results without an identifier.  A result stays under way when its move is stopped.
  `QuietOutlasts` is what the node relies on: that it comes before the quiet period of the next
  homing is over, in which it is ignored (`node.py:780`).
* `Faults` names what may fail in an instance: a write, reading the file back after
  that, a result that does not keep to `QuietOutlasts`, a crash.

### TeleopPanel

The panel's calls to node and recorder are in `calls` until somebody answers; `who` in a call says
who waits for it.  That stands for the sequence number and the state which the code compares in
each callback (`sequence_`, `combined_sequence_`, `recording_sequence_`): once they have moved
on, the call stays under way if it has an effect and nobody waits for the answer.

* `StartCombinedAction`, `StopCombinedAction`, `DiscardCombinedAction`, `Toggle`, `Pause`,
  `Home` and `Record` are the keys; `ControlRead` goes on with the generation that was read.
* `RecoveryRound` is one round of a roll-back, sent by the timer when the answers of the round
  before have come or are late; late counts as lost (`Lose`).
* The topic that says whether the arm follows lags: `Toggle` takes either value.  The state
  of a request is read when its answer is handled, because terminal states stay.
* The recorder is external: one recording at a time, requests with identifiers, and a
  cancellation by identifier that also holds for a request that has not arrived.

### ComponentManager

The manager has one thread.  Its state is the record `m`; a service is one action and so is a
tick of its timer.  Within a tick the phases of a transaction follow each other until one
has to wait, so each phase is an operator from `m` to `m` that leaves it alone in
another phase, and `Tick` composes them in the order of the code.  The parameters of a tick
are what it finds: whether the service it needs is there, whether the discovery wait is over,
which components fail to start.

* `op` is the stop (`pause`, `record_query`, `record_stop`, `record_wait`, `stop`), `switch`
  the change of the camera's device (`pause`, `release`, `start`, `verify`, with a roll-back).
  `future` is the call under way, `expired` its dead-line.
* `proc[k]` is a process from its start until it is polled after its end; the escalation of
  signals is in it only as its end.  `Guard` is the process guard that ends what a killed
  manager has left.
* The recorder is external and can restart; its topic is late but keeps its order.
* The topic of the recorder and the frames of the camera are taken only where the manager
  reads them (`Watched`, `Frame`); that leaves out no state it can tell apart.

## 3. Runs

| Run | Instance | States | Shows |
| --- | --- | --- | --- |
| `writer` | 1 producer, 2 callers, an image of 2 bytes and a pose of 1, limits of 2 messages and 2 bytes, 2 messages | 0.6 M | prefix, nothing skipped, the first error, completeness of an `ok`, the thread ends, failures are reported, callers return |
| `controller` | 2 service threads, 2 collections, raw images, every fault but the marker and the queue, a crash or an orderly exit at any step | 3.5 M | the safety of the lifecycle, refinement of the ledger, records across restarts |
| `controller_keyframe` | 1 service thread, h264, 2 clock generations, fair | 0.4 M | the gate, and liveness |
| `teleop_control` | 3 generations, 2 restarts, failing writes, crashes | 0.6 M | the arm's permission, homing, gripper, loss of heartbeat, feedback or pose |
| `teleop_panel` | any two presses, one lost call | 0.6 M | roll-backs, late answers, pauses |
| `component_manager` | automatic start, 2 requests, 2 devices, 1 recording, 1 crash | 0.3 M | stops, shutdown, change of the camera |
| `collection_storage` | 2 services, 3 collections of 2 tasks, 2 deletions, 3 starts, every fault, a kill at any step | 0.6 M | numbers, files that are kept |
| `collection_panel` | 1 panel and other clients, 2 requests, 1 fault, a cache of 1 result, 1 old record | 0.4 M | true reports, one execution, a view that settles |
| `time_base_mixed`, `second_pause`, `switch_rollback`, `wrong_record_deleted` | no fault but the one meant | small | see Findings |

Why the bounds are enough.  *Writer*: a hole or a wrong report needs one message written, one
queued and one that overflows; the limits are reached alone and together; two callers cover a
`finish` that races an `abort`.  Its safety is proved for all values of the constants, so the
instance is chosen for the liveness.  *Controller*: a lifecycle step needs one thread and a race
two (that deletions also race each other is in `collection_storage`); a full queue is to the
controller a failure of the writer and is in the keyframe run; the second collection is there for
whatever survives the first (a thread that would not end, a directory that would not go away, a
late message).  One data message is enough to tell a complete bag from a partial one, two
generations to mix them, one restart to lose or keep a record.  *Node*: the bound is on what is
asked for by hand, and the node adds fences of its own beyond it; an enable, the pause that voids
it and an enable after that take three generations, and what the instance shows of safety is
proved for every number of them.  *Storage*: a number can be lost or used twice by a record that
is there, one that is deleted and one that is started; a second task tells the directories apart,
a third start is the one that cleans up after a kill in a clean-up.  *TeleopPanel*: a roll-back
needs one press, a late answer of one action meeting another two, and a round that is sent again
one loss.  *ComponentManager*: two requests let a shutdown join a stop, a stop cancel a switch,
or a switch follow a start.  *CollectionPanel*: a second request makes the answers of the first
late, and with a cache of one its result is evicted; one fault is a lost connection, a time-out,
an overtaken status or a restart.  (The safety properties hold with two faults, too, in 5.9 M
states, which takes too long for a run that is repeated after each change.)

Deadlock is not checked for `CollectionController`, `CollectionStorage`, `TeleopControl`,
`TeleopPanel`, `ComponentManager` and `CollectionPanel`, each of which may stop in its last state
when the bounded requests, generations or collections are used up; the liveness properties and
`Settled` say instead that at rest the operator can go on.

Every property has a mutant in `PROJECT.json`: a small change of a definition of the
model, written beside it and marked `mutant`, that a plausible slip in the code would
amount to and that makes TLC report a violation.

### Fairness

* Writer: `HungDiskSpec` assumes only that a caller in `finish` or `abort` goes on, since its
  join has a time-out; the first part of `NothingIsStuck`, that callers return, holds even if the
  disk hangs.  The second part has its condition in itself: if the disk answers (`DiskAnswers`:
  the thread and a producer inside `offer` keep running), the thread ends and failures are
  reported.
* Controller: `FairSpec` is weak fairness of the steps of each service thread inside a
  request, and of the timer's `Sync`.  Nothing is assumed of the writing threads, the
  sensors, the operator or shutdown.  That requests end (in `LifecycleMoves`) therefore rests
  on time-outs being possible (`"timeout" \in Faults`), which is why that run has them.
* Node: weak fairness of `TimesOut`, the control timer acting on a heartbeat, feedback or pose
  that is too old.  Nothing is assumed of the arm, the panel or the tracker; the other inputs
  may come and go.
* TeleopPanel: its timer sends the next round of a roll-back, node and recorder answer what is not
  lost, and a recording that is being saved is saved.  The code repeats the rounds without
  a limit exactly because it can end in no other way.
* Manager: its timer ticks, dead-lines pass, signals that cannot be ignored end a
  process.  The tick that is assumed finds no service ready; no service, start or recorder
  has to do its part, so `ManagerSettles` rests on dead-lines alone.
* CollectionPanel: the threads of the service go on (each of their waits has a time-out),
  statuses arrive, the timer runs.  A query for the list that is sent again and again is
  answered at last (strong fairness, since each new query supersedes the one under way).

## 4. Findings

Four runs state what a comment, a test or the documentation says and TLC refutes it.

* `time_base_mixed`.  `on_image_timing` reports a rebuilt clock mapping only in STARTING
  and RECORDING; `_stop` sets STOPPING before it ends the admission.  A new generation in
  between is written to the bag, not reported, and the collection is saved with two time bases
  (`collection_state.py:508`: they must not be mixed in an episode).
* `second_pause`.  A second press of S before the first has been sent forgets the enable it
  has to outrun: `dispatch` clears `manual_enable_generation_` with the first press
  (`teleop_panel.cpp:317`), so an enable and a pause with the same generation are under way, and
  if the enable comes first the pause is refused and the arm follows
  (`test_panel_recovery.cpp:428`).  The panel reports the refusal as a failure.
* `switch_rollback`.  A change of the camera goes back because the new device gives no
  image, but keeps the dead-line that has just passed: unless the camera ends within one
  tick, the change finishes with the camera stopped and the new device configured
  (`camera_devices.py:185`, which names the outcome 已恢复原设备 at line 193).
* `wrong_record_deleted`.  The row of a record is read again after the operator was asked
  about it, and the list may have been replaced while the question was open: another record
  goes to the recycle area (`collection_panel.cpp:722`).

Met while modelling, and not stated by a run:

* `publish` removes the owner marker after the rename.  If that fails the caller is told
  SAVE_FAILED and the state is ERROR, although the record is in its task; a cancel then
  answers that it was cancelled (`collection_storage.py:416`).
* `delete` removes the task directory if it is empty, and `publish` makes it and renames into
  it in two steps (`collection_storage.py:409-410`, `466`): with nothing failing, a save ends
  in ERROR and the demonstration can only be cancelled.
* A crash in `create_staging` before the marker is written, and a removal that fails or is
  killed after it took the marker (`shutil.rmtree` follows the order of the directory), leave a
  directory in `.staging` that no clean-up recognises (`fastumi_data/README.md:251` has it cleaned
  at exit and at the next start).  After such a removal every cancel answers STAGING_NOT_OWNED and
  only a restart leaves ERROR (`collection_storage.py:335`, `390`).
* `_begin_recording` copies the cached static transforms before it opens the admission:
  a transform that arrives in between is in the cache and in no bag of that collection
  (`collection_state.py:872`).
* The questions about stop-and-cancel and about cancel read the active collection after the
  answer, too; the service refuses a target that is no longer active, so only the answer
  is unexpected.
* `_last[:2]` keeps the identifier of the previous request while its code is overwritten by a
  later failure (`collection_state.py:644`), although `CollectionStatus.msg` describes the two
  as the last request and its result.
* The result of a stopped move can end the next homing (`node.py:778`); a file of generations
  that can neither be written nor read back leaves memory ahead of the disk.  These are the
  faults `late` and `reload`, see Proofs.
* The panel has one roll-back.  A, then Space, and neither is answered: the start times out first
  and is rolled back; when the enable times out, `refresh` clears `combined_request_id_`
  (`teleop_panel.cpp:999`) and the roll-back of the enable takes the place of the first, which
  neither repeats the cancellation nor waits for it any more.  If the one that was sent is lost,
  the panel becomes idle and the late start records (`test_panel_recovery.cpp:447` has it
  cancelled).  If both dead-lines pass within one tick it is not cancelled at all, since every
  roll-back clears the one dead-line of all recording requests (`teleop_panel.cpp:613`).
* A pause by hand during a roll-back has no floor for its generation either: the roll-back has
  to pause.
* A stop that cancels a switch in its first phase ends the camera and the estimator before
  the pause and the save (`tracker_teleoperated/README.md:117` has them last).  `PausedFirst`
  excepts this case.  `cancel` also leaves `source.actual` as it was (`camera_devices.py:101-107`).
* A recording that is cancelled, or a recorder that restarts, during `record_wait` makes the stop
  wait for the whole `save_timeout_s` and report an error.  The branch for the component
  `recorder` (`component_manager.py:508`) is never taken.

## 5. Proofs

All are for any number of threads, collections, messages and restarts, and any set of faults.

**Writer** (`BagWriterProofs`).  `TypesCorrect`; `FileIsPrefixCorrect`: what is in the bag, then
the message in the thread's hand unless it is lost, then the queue, is what was accepted, as long
as nothing failed or was aborted, and once something failed the bag does not grow. That equation
is the inductive strengthening: the prefix alone does not say what the thread may write next.
`NothingSkippedCorrect`: a message that did not fit has left an error, or the offer that met the
full queue is about to record one.  `FirstErrorDecidesCorrect`: the controller hears of one
failure, of the one that stays.  `OkIsCompleteCorrect` adds that a thread leaves its loop only
with an empty queue and a closing flag.  That `_queued_bytes` is a natural number is part of the
types: it equals the sizes of what is in the queue until `abort` throws the queue away.  A sum
over a sequence is a recursion, about which nothing can be proved here by induction, so the
invariant says that some function on positions adds the sizes up one by one; each step extends or
shifts it.

**Controller, types** (`ControllerRefinement`, its first part).  `TypesCorrect`: one step per
action, each over lemmas on what an update of a writer, a directory or a thread keeps.

**Controller, refinement** (`ControllerRefinement`).  The inductive invariant `IInv` is

* `TypeOK`;
* `Busy`: while the service is open, the step of each thread determines the state
  (`starting`, `stopping`, `saving`, `cancelling`), and
* `Alone`: one thread at most is inside the lifecycle.  Neither is inductive without the
  other: the state is the lock, and only the thread that set it may release it;
* `Holding`, `Unissued`, `Unstaged`: a thread works on a collection of its own, and one
  that was not started has no directory and no owner;
* `ActiveStaged`, `Unsaved`, `SavedByThread`, `Moved`: where the directory of the active
  collection is, given which step its thread has reached.  A cancel that finds the
  record already published would answer a falsehood, and these parts exclude it.

From it follow `ExclusiveCorrect`, `ErrorIsFinalCorrect` and `LedgerCorrect`:
`Spec => Ledger!Spec`, each step a step of the ledger or a stutter, crashes included.
`LedgerCorrect` has one hypothesis, `"marker" \notin Faults`: with it the finding above
is a counterexample.  Nothing is assumed about `OrderlyExit`.  TLC checked `IInv` as an
invariant of the runs' instances before it was proved.

**Controller, safety** (`ControllerSafety`).  What a record, a bag or the operator may rely on
needs the logs, the writers and the state together.  The inductive invariant `JInv` adds to
`IInv`

* `Logs`: of each bag, that START is its first message and only that, that nothing is accepted
  after STOP, that a thread that ended with no failure and nothing thrown away has completed
  it, and, in h264 mode, that its head is in order;
* `Dirs`: a published directory is complete, has its list and its log is well-formed;
* `Reached`: what a thread knows at each step of its request; in the steps of a save, all that
  `_verify_writer` has found (`Vouched`), so that the rename publishes a whole record;
* `OpenInv`, while the service is open: which collection is the active one at each step, that
  messages are admitted only into its open bag whose head is there, that an open bag is the
  active one's or the one just about to become so, and that what is in the staging area is
  somebody's;
* `ExitInv`, when the executors wait: nothing runs in a shutdown, and the one bag that may be
  open is aborted and joined before anything is removed;
* `InputRests`: shutdown comes after the input thread.

`OpenInv` speaks of all threads, and most steps move one of them.  `LifeNow` and `LifeThen` turn
it into what is known of the one request inside the lifecycle (`LifeAt(pc, c)`) and back, which
`Alone` allows; each step is then a step of that request from one `pc` to the next
(`LifeGoes`), of a deletion beside it, of the input thread, of a writer's thread or of the main
thread.  From `JInv` follow `StagingIsHeldCorrect` without a hypothesis, and

* `SavedIsCompleteCorrect` and `OpenBagIsSafeCorrect` if `OrderlyExit`;
* `SettledCorrect` if `"marker" \notin Faults`, for the reason of `LedgerCorrect`;
* `BagOpensCompleteCorrect` if `KeyframeStart`: without the gate a transform can be missed, as
  the findings say.

TLC checked `JInv` in instances of one and two threads, in both modes and with both exits,
before it was proved; it refuted earlier forms of `HoldsAt` and `AdmitInv`.

**Storage** (`StorageProofs`).  The inductive invariant is the conjunction of `TypeOK`,
`NumbersGrow` and

* `Locked`: only the service with the lock is not off, and only in one that is up does anything
  run; so a clean-up is alone;
* `Latest`, `Placed`: the collection inside its life is the one started last, with its directory
  where the step of its thread has it, whole from the time it waits to be saved; a deletion is at
  another one, a record;
* `Cleans`, `Whole`: a clean-up is at a directory of the staging area; a record is whole, and its
  task has a directory while it is in there;
* `Bounded`, `Seen`: the numbers are below the count of the starts; a sibling still in its task
  when that has been listed is among the numbers seen, and so is every sibling, wherever it has
  gone, when the recycle area has been listed too.

`Seen` is the argument for the two listings in their order: a deletion between them moves a
number from one that has been seen to one that will be.  `NumbersGrowCorrect` and
`NothingIsLostCorrect`, an action property, follow.  `NextIndex` chooses a largest member; that
there is one for every bounded set of natural numbers rests on the well-foundedness of the
natural numbers.  There is no hypothesis but that `NoService` is not a service.

**Panel** (`CollectionPanelProofs`).  The inductive invariant is `TypeOK /\ Linked /\ Vouched /\
Ended /\ OneAtATime /\ Counted`: each result under way, kept or on its way to a panel belongs to
a request that was made with that number (`Linked`); a success among them was carried out
(`Vouched`); what a panel waits for no longer has come to its end or to a reported time-out
(`Ended`); an execution that was counted is under way, in the cache, forgotten, or of a process
that ended (`Counted`).  `DoneIsTrue` and `AtMostOnce` follow; `OneAtATime` is a part of it.
No hypothesis is needed, neither on the size of the cache nor on the faults.

**Node** (`TeleopControlProofs`).  The inductive invariant has three parts.  `ControlInv`
ties the flags of the node together: while the arm follows there are references and a mapping
and no homing, the gripper's last target is what the flags say, and the last answer is true.
`HomeInv` says that the arm moves for this node only in the moving phase of a homing, that a
result of that move comes after it, and that none of an older move is under way meanwhile.
`GenerationInv` is the argument of the generations: while the node runs the file has what it
remembers, no panel has a generation above the next one, and what was voided is not above the
last one.  From them follow `ReferenceReadyCorrect`,
`GripperIsHeldCorrect`, `RepeatedAnswerCorrect`, and with one hypothesis each

* `FollowsAloneCorrect`, if the quiet period outlasts the results of stopped moves (`Prompt`):
  otherwise a result without an identifier ends the next homing while the arm moves;
* `PermissionCorrect`, `Spec => Permission!Spec`, if the file can be read after a failed
  write (`Readable`): otherwise the generation in memory may be one that the next process does
  not find, and it accepts an enable from before the pause.

**Manager** (`ManagerProofs`).  A tick runs through many phases, and the action properties
compare its first state with its last.  `MInv` therefore speaks of any state `x` of the manager,
`TickInv(x)` of one on the way of a tick from `m`, and a lemma for each operator of the tick says
that it keeps `TickInv`.  `MInv` is: a stop and a change of the camera exclude each other, and a
shutdown stops everything (`OneTransaction`); beside a change no camera process appears
(`Camera`); past its first phase a transaction has the arm paused or the control process gone
(`Pauses`); what the topic and a stop without an error say of a recording has been saved
(`Records`).  The second half of the last is why a stop that joins an earlier one, or that asks
for a recording that ended meanwhile, still tells the truth.  From it follow
`SavedOrReportedCorrect`, `PausedFirstCorrect`, `ShutdownStopsAllCorrect` and
`DeviceIsFreeCorrect`, with no hypothesis.

**Teleoperation panel** (`TeleopPanelProofs`).  `IInv` speaks of the panel, of every call under way
and of what the node and the recorder have done.

* `PanelInv`: an enable by hand is waited for only when idle or beside a roll-back that has nothing
  to pause.
* `Fits`: who waits for a call follows from the operation, so that an answer that finds its
  caller belongs to the operation that made the call.  One press by hand at most is under way
  (`OneManual`).
* `Dated`: what was read of the node is not newer than the node, and an enable is beyond it by one
  at most.  A fence therefore voids every enable under way, whoever sent it.
* `Stopped`: in a combined stop each pause is beyond every enable under way, and an answer that
  says ok means `Fenced`: the arm is paused and no enable under way can change that.
* `Confirmed`: what a roll-back has found stays true, since terminal states of a request are
  final and no enable beyond its pause is made.

Each step keeps `IInv` and is a `Step`: when a roll-back ends what it waited for is true, while a
roll-back has something to pause nothing adds an enable or a start (`Quiet`), and a stop that
ends is `Fenced`, or its pause was refused or is under way.  `PanelInvariant` says so for `Spec`;
`RecoveryConfirmsCorrect`, `NothingStartsMeanwhileCorrect` and `StoppedIsPausedCorrect` follow
with no hypothesis.  TLC checked `IInv` with two and three presses and a lost call before it was
proved.

**Model-checked only.**  The liveness properties (fairness and `ENABLED` are beyond the
prover): `NothingIsStuck`, `LifecycleMoves`, `InputLossStops`, `RecoveryEnds`, `ManagerSettles`,
`ViewSettles`.  What the findings refute is no theorem of this code.

## 6. What is not modelled

* Collection: health and episode quality, an exception the code does not catch in the
  lifecycle.  A message has no payload but what a property needs.  In the controller directory
  and marker are made in one step, and a removal that fails leaves them in any state.  Images
  carry a clock generation from 1 on: 0 is an old camera in compatibility mode
  (`frame_timestamper.hpp:58`), which the code treats as one more generation.
* Storage: symbolic links and entries that are not of this service, the time in the name of a
  directory (the number alone is unique), a search that meets a directory just removed and
  raises without any effect.  The answers PUBLISH_EXISTS and TRASH_EXISTS need two directories
  of one name.  `Release` waits for the request that is under way (`AtRest`): an orderly exit, in
  the sense of the controller's `OrderlyExit`, is assumed here and by the theorems.
* CollectionPanel: a conflict of request identifiers (those of a panel carry a nonce), paging
  and filter of the list, the reason why a start is blocked, a query for the list that fails,
  a query for the status that is sent while one is under way, all texts; so also what an answer
  shows when a status has confirmed the request before (`collection_panel.cpp:553`).  A row
  that is no longer there when the question is answered deletes nothing in the model; the code
  reads it without a test (`collection_panel.cpp:722`), which is undefined.
* TeleopControl: trajectories, filters, limits and solver (a tick without a solution is
  `InputLost`), parameters reloaded at run time, diagnostics.
* TeleopPanel: the buttons for calibration and for the components, the freshness of topics,
  the lists of recordings and video sources.  A service that is not ready is a call that is lost
  or refused.  A pause that is carried out but reported as failed, because its generation could not
  be written, is in `TeleopControl` (`Stages`) and not here, where it would be one more
  refusal.  The topic of the recorder says what is so when it
  is handled, never an older state, as it may for a moment in the program; what an operation waits
  for is asked of the recorder, and the topic decides only which keys can be pressed and whose
  answer is awaited.
* ComponentManager: components that somebody else runs, the scan of devices, the health
  report, process identities, the steps from one signal to the next.  Recording is enabled
  (`recording_enabled`); a status of the recorder counts as fresh until the next one, where the
  code refuses a change of the camera when it is older than 2 s; a query that is answered with
  None ends as one that is not answered; the start of one component that fails
  (`component_manager.py:307`) changes only a text.
* The rest of the inventory, for the reasons given in `PROJECT.json`: device drivers and
  neural networks, numerical code, sequential tools.

## 7. Plan

1. Proofs: `BagWriter` as an implementation of the writer the controller assumes.
2. `EpisodeManager` (an event is published before it is committed), the observation buffer of
   `dp_infer`, the watch-dogs of `fastumi_rm75`, the frame buffer and clock mapping of the camera.

## 8. Running it

```
tlc -workers 2 -config MCControllerRaw.cfg MCCollectionController
tlapm ControllerRefinement.tla
```

The `.cfg` of each run is named in `PROJECT.json`.
