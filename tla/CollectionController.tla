----------------------- MODULE CollectionController -----------------------
(***************************************************************************)
(* fastumi_data/collection_state.py: CollectionController, the lifecycle   *)
(* of a collection, with the part of collection_storage.py it calls.       *)
(*                                                                         *)
(* Service threads (Workers) run the requests, one input thread runs the   *)
(* subscription callbacks, each bag has a writing thread, a timer calls    *)
(* tick and the main thread calls shutdown.  One action is one critical    *)
(* section, one wait, or one file system call.  A request the code rejects *)
(* changes nothing here: identifiers, versions and the cache of results    *)
(* are not part of this module.                                            *)
(*                                                                         *)
(* A bag's queue and thread are reduced to what BagWriter shows of them:   *)
(* the bag holds a prefix of the accepted messages, all of them if the     *)
(* thread ended without a failure and nothing was thrown away.             *)
(***************************************************************************)
EXTENDS Naturals, Sequences, FiniteSets

CONSTANTS Workers,         \* threads of the service executor
          MaxCollections,  \* bound on the collections one behaviour starts
          MaxData,         \* bound on the sensor messages of a collection
          MaxGeneration,   \* bound on the generations of the camera clock mapping
          MaxExits,        \* bound on the restarts of the service
          KeyframeStart,   \* image_mode is h264: a collection starts at a keyframe
          Faults,          \* what may fail in this instance
          OrderlyExit      \* the executors wait for running callbacks when shut down

AllFaults == {"prepare", "overflow", "write", "timeout", "session", "publish",
              "marker", "discard"}

ASSUME ControllerAssumption ==
  /\ MaxCollections \in Nat /\ MaxData \in Nat /\ MaxGeneration \in Nat /\ MaxExits \in Nat
  /\ KeyframeStart \in BOOLEAN /\ OrderlyExit \in BOOLEAN
  /\ Faults \subseteq AllFaults

VARIABLES
  state, active,    \* _state and the collection of _active, 0 for None
  admitting,        \* _admitting
  writerError,      \* _writer_error
  gate,             \* the _StartGate: its collection and how far it got
  tfCached,         \* _tf_static holds the static transform
  generation,       \* _clock_generation
  issued,           \* collections started so far
  worker,           \* per service thread: next step, its collection, save after stop
  input,            \* what the input thread still has to do inside a callback
  exit,             \* where shutdown stands, the collection it aborts
  exits,            \* restarts so far
  writer,           \* QueuedBagWriter of each collection
  log,              \* messages offer accepted for each collection
  disk,             \* the directory of each collection
  taskDir,          \* the directory of the task exists
  told              \* history: what completed requests reported of each collection

caches  == <<tfCached, generation>>
service == <<state, active, admitting, writerError, gate, caches>>
process == <<issued, input, exit, exits>>
bags    == <<writer, log>>
files   == <<disk, taskDir>>
vars    == <<service, process, worker, bags, files, told>>

Collections == 1..MaxCollections
None == 0

NoGate   == [col |-> None, is |-> "none"]
NoWriter == [thread |-> "none", closing |-> FALSE, failed |-> FALSE, dropped |-> FALSE]
NoDir    == [where |-> "none", marker |-> FALSE, session |-> "none",
             bag |-> "partial", intact |-> TRUE]
Idle     == [pc |-> "idle", col |-> None, save |-> FALSE]
Quiet    == [pc |-> "idle", gen |-> 0, raise |-> FALSE]
Running  == [pc |-> "no", col |-> None]

\* A message is its kind; a timing message carries the generation of the clock mapping.
Message(kind)  == [kind |-> kind, gen |-> 0]
Timing(g)      == [kind |-> "timing", gen |-> g]
Holds(c, kind) == Cardinality({i \in DOMAIN log[c] : log[c][i].kind = kind})

Init ==
  /\ state = "idle" /\ active = None /\ admitting = FALSE /\ writerError = ""
  /\ gate = NoGate /\ tfCached = FALSE /\ generation = 0
  /\ issued = 0
  /\ worker = [w \in Workers |-> Idle]
  /\ input = Quiet
  /\ exit = Running /\ exits = 0
  /\ writer = [c \in Collections |-> NoWriter]
  /\ log = [c \in Collections |-> <<>>]
  /\ disk = [c \in Collections |-> NoDir]
  /\ taskDir = FALSE
  /\ told = [c \in Collections |-> {}]

At(w, pc)   == worker[w].pc = pc
Goto(w, pc) == worker' = [worker EXCEPT ![w].pc = pc]
Done(w)     == worker' = [worker EXCEPT ![w] = Idle]
Col(w)      == worker[w].col

\* Requests and messages come in until shutdown has stopped the executors.
Open == exit.pc = "no"

-----------------------------------------------------------------------------
(* The bag of a collection *)

Accepting(c) == LET r == writer[c] IN r.thread = "run" /\ ~r.closing /\ ~r.failed

\* _on_writer_error: the first failure is kept.
Noted(code) == IF writerError = "" THEN code ELSE writerError

\* offer takes the first k of the messages; it stops when the queue is full.
Offered(c, messages, k, closing) ==
  LET full == k < Len(messages) /\ Accepting(c)
  IN  /\ IF Accepting(c) THEN k = Len(messages) \/ "overflow" \in Faults ELSE k = 0
      /\ log' = [log EXCEPT ![c] = @ \o SubSeq(messages, 1, k)]
      /\ writer' = [writer EXCEPT ![c].failed = @ \/ full, ![c].closing = @ \/ closing]
      /\ writerError' = IF full THEN Noted("overflow") ELSE writerError

OfferFirst(c, messages, k) == Offered(c, messages, k, FALSE)

\* A write or the close fails; the thread reports it and drains the queue.
WriterFails(c) ==
  /\ "write" \in Faults /\ writer[c].thread = "run" /\ ~writer[c].failed
  /\ writer' = [writer EXCEPT ![c].failed = TRUE]
  /\ writerError' = Noted("write")
  /\ UNCHANGED <<state, active, admitting, gate, caches, process, worker, log, files, told>>

WriterEnds(c) ==
  /\ writer[c].thread = "run" /\ writer[c].closing
  /\ writer' = [writer EXCEPT ![c].thread = "dead"]
  /\ disk' = [disk EXCEPT ![c].bag =
       IF writer[c].failed \/ writer[c].dropped THEN @ ELSE "complete"]
  /\ UNCHANGED <<service, process, worker, log, taskDir, told>>

\* abort: queued messages are thrown away, if there are any.
Aborted(c, drop) ==
  writer' = [writer EXCEPT ![c].closing = TRUE,
                           ![c].dropped = @ \/ (drop /\ writer[c].thread = "run")]

\* join in finish and abort: the thread is gone, or the time is up.
Joined(c) == writer[c].thread # "run"

TimedOut(c) == "timeout" \in Faults /\ writer[c].thread = "run"

\* abort().thread_stopped
AbortTrusted(c) == TRUE  \* mutant: thread_stopped is not looked at
AbortStopped(c) == Joined(c)

-----------------------------------------------------------------------------
(* start *)

\* The state is checked again, and changed, under the lock.
StartableOnce == state \in {"idle", "starting"}  \* mutant: the first check is trusted
Startable     == state = "idle"

Start(w) ==
  /\ At(w, "idle") /\ Open
  /\ Startable /\ issued < MaxCollections
  /\ state' = "starting"
  /\ issued' = issued + 1
  /\ worker' = [worker EXCEPT ![w] = [pc |-> "stage", col |-> issued + 1, save |-> FALSE]]
  /\ UNCHANGED <<active, admitting, writerError, gate, caches, input, exit, exits, bags,
                 files, told>>

Locked == exit.pc \notin {"unlocked", "down"}

\* create_staging and the snapshots.
Stage(w) ==
  /\ At(w, "stage")
  /\ \/ /\ Locked
        /\ disk' = [disk EXCEPT ![Col(w)].where = "staging", ![Col(w)].marker = TRUE]
        /\ \/ Goto(w, "open")
           \/ "prepare" \in Faults /\ Goto(w, "undo")
     \/ /\ ~Locked \/ "prepare" \in Faults
        /\ Goto(w, "undo") /\ UNCHANGED disk
  /\ UNCHANGED <<service, process, bags, taskDir, told>>

\* The previous collection's failure is forgotten and the bag is opened.
OpenBag(w) ==
  /\ At(w, "open")
  /\ writerError' = ""
  /\ \/ /\ disk[Col(w)].where = "staging"
        /\ writer' = [writer EXCEPT ![Col(w)].thread = "run"]
        /\ Goto(w, "activate")
     \/ /\ disk[Col(w)].where # "staging" \/ "prepare" \in Faults
        /\ Goto(w, "undo") /\ UNCHANGED writer
  /\ UNCHANGED <<state, active, admitting, gate, caches, process, log, files, told>>

Activate(w) ==
  /\ At(w, "activate")
  /\ active' = Col(w)
  /\ Goto(w, IF KeyframeStart THEN "arm" ELSE "begin")
  /\ UNCHANGED <<state, admitting, writerError, gate, caches, process, bags, files, told>>

StartMessages == <<Message("START")>> \o IF tfCached THEN <<Message("tf")>> ELSE <<>>

\* _begin_recording: START and the cached static transform, before any sensor data.
Begin(w) ==
  /\ At(w, "begin")
  /\ \E k \in 0..Len(StartMessages) :
       /\ OfferFirst(Col(w), StartMessages, k)
       /\ Goto(w, IF k = 0 THEN "undo" ELSE "admit")
  /\ UNCHANGED <<state, active, admitting, gate, caches, process, files, told>>

Admit(w) ==
  /\ At(w, "admit")
  /\ admitting' = TRUE
  /\ Goto(w, "ready")
  /\ UNCHANGED <<state, active, writerError, gate, caches, process, bags, files, told>>

\* _await_keyframe_start: put up the gate, sleep, take it down.
Arm(w) ==
  /\ At(w, "arm")
  /\ gate' = [col |-> Col(w), is |-> "armed"]
  /\ Goto(w, "wait")
  /\ UNCHANGED <<state, active, admitting, writerError, caches, process, bags, files, told>>

\* The gate was opened, failed or was cancelled, or the wait timed out: a late keyframe
\* must not open it.
WaitEnds(w) ==
  /\ At(w, "wait")
  /\ gate' = NoGate
  /\ Goto(w, IF gate.is = "done" THEN "ready" ELSE "undo")
  /\ UNCHANGED <<state, active, admitting, writerError, caches, process, bags, files, told>>

Ready(w) ==
  /\ At(w, "ready")
  /\ state' = "recording"
  /\ Done(w)
  /\ UNCHANGED <<active, admitting, writerError, gate, caches, process, bags, files, told>>

\* The start failed: stop admitting, abort the writer, remove the directory.
Undo(w) ==
  /\ At(w, "undo")
  /\ admitting' = FALSE
  /\ IF writer[Col(w)].thread = "none"
       THEN Goto(w, "undiscard") /\ UNCHANGED writer
       ELSE Goto(w, "unjoin") /\ \E drop \in BOOLEAN : Aborted(Col(w), drop)
  /\ UNCHANGED <<state, active, writerError, gate, caches, process, log, files, told>>

UndoJoin(w) ==
  /\ At(w, "unjoin")
  /\ \/ /\ AbortStopped(Col(w)) /\ Goto(w, "undiscard") /\ UNCHANGED <<state, writer>>
     \/ /\ TimedOut(Col(w)) /\ Done(w)
        /\ state' = "error"
        /\ writer' = [writer EXCEPT ![Col(w)].failed = TRUE]
  /\ UNCHANGED <<active, admitting, writerError, gate, caches, process, log, files, told>>

\* _is_owned_staging: in the staging area, with its marker.
Owned(c)   == disk[c].where = "staging" /\ disk[c].marker
Removed(c) == [disk EXCEPT ![c].where = "removed", ![c].marker = FALSE]

\* discard refuses a directory without its marker; rmtree may fail half way, and
\* the marker may be among the files already gone.
DiscardOk(c)    == /\ Locked /\ (Owned(c) \/ disk[c].where # "staging")
                   /\ disk' = IF Owned(c) THEN Removed(c) ELSE disk
DiscardFails(c) == \/ (~Locked \/ (disk[c].where = "staging" /\ ~disk[c].marker))
                      /\ UNCHANGED disk
                   \/ /\ Locked /\ Owned(c) /\ "discard" \in Faults
                      /\ \E marker \in BOOLEAN :
                           disk' = [disk EXCEPT ![c].intact = FALSE, ![c].marker = marker]

\* A failing discard is ignored here.
UndoDiscard(w) ==
  /\ At(w, "undiscard")
  /\ DiscardOk(Col(w)) \/ DiscardFails(Col(w))
  /\ Goto(w, "undone")
  /\ UNCHANGED <<service, process, bags, taskDir, told>>

\* mutant: the failed collection is still the active one
UndoneActive(w) ==
  /\ At(w, "undone")
  /\ admitting' = FALSE /\ state' = "idle"
  /\ Done(w)
  /\ UNCHANGED <<active, writerError, gate, caches, process, bags, files, told>>

Undone(w) ==
  /\ At(w, "undone")
  /\ admitting' = FALSE /\ active' = None /\ state' = "idle"
  /\ Done(w)
  /\ UNCHANGED <<writerError, gate, caches, process, bags, files, told>>

-----------------------------------------------------------------------------
(* stop and stop_and_save *)

\* _check_target: a request names a collection, and it must be the active one; the answer
\* speaks of the one that was named.
TargetAny(c) == active # None  \* mutant: the identifiers are not compared
Target(c)    == active = c

StoppableFailed == state \in {"recording", "error"}  \* mutant: stop is accepted in ERROR
Stoppable       == state = "recording"

Stop(w, save) ==
  /\ At(w, "idle") /\ Open
  /\ Stoppable
  /\ state' = "stopping"
  /\ \E c \in Collections :
       /\ Target(c)
       /\ worker' = [worker EXCEPT ![w] = [pc |-> "quiesce", col |-> c, save |-> save]]
  /\ UNCHANGED <<active, admitting, writerError, gate, caches, process, bags, files, told>>

\* Under the data lock no more messages are admitted and STOP is the last one; then finish
\* tells the thread to end.
Quiesce(w) ==
  /\ At(w, "quiesce")
  /\ admitting' = FALSE
  /\ \E k \in 0..1 : Offered(Col(w), <<Message("STOP")>>, k, TRUE)
  /\ Goto(w, "join")
  /\ UNCHANGED <<state, active, gate, caches, process, files, told>>

\* _verify_writer: no failure of the writer, none reported, STOP accepted and as many
\* messages written as accepted.
StopQueued(c) == Holds(c, "STOP") = 1

VerifiedStop(c)  == Joined(c) /\ StopQueued(c)  \* mutant: the writer's result is ignored
Verified(c)   == /\ Joined(c) /\ ~writer[c].failed /\ ~writer[c].dropped
                 /\ writerError = "" /\ StopQueued(c)

Verify(w) ==
  /\ At(w, "join")
  /\ Joined(Col(w)) \/ TimedOut(Col(w))
  /\ writer' = [writer EXCEPT ![Col(w)].failed = @ \/ ~Joined(Col(w))]
  /\ IF Verified(Col(w))
       THEN Goto(w, "session") /\ UNCHANGED <<state, writerError>>
       ELSE Done(w) /\ state' = "error" /\ writerError' = Noted("write")
  /\ UNCHANGED <<active, admitting, gate, caches, process, log, files, told>>

\* _write_session_files, then pending or on to the publication.
Session(w) ==
  /\ At(w, "session")
  /\ \/ /\ disk[Col(w)].where = "staging"
        /\ disk' = [disk EXCEPT ![Col(w)].session = "pending"]
        /\ IF worker[w].save
             THEN state' = "saving" /\ Goto(w, "manifest")
             ELSE state' = "pending" /\ Done(w)
        /\ UNCHANGED writerError
     \/ /\ disk[Col(w)].where # "staging" \/ "session" \in Faults
        /\ state' = "error" /\ writerError' = Noted("write") /\ Done(w)
        /\ UNCHANGED disk
  /\ UNCHANGED <<active, admitting, gate, caches, process, bags, taskDir, told>>

-----------------------------------------------------------------------------
(* save *)

Save(w) ==
  /\ At(w, "idle") /\ Open
  /\ state = "pending"
  /\ state' = "saving"
  /\ \E c \in Collections :
       /\ Target(c)
       /\ worker' = [worker EXCEPT ![w] = [pc |-> "manifest", col |-> c, save |-> TRUE]]
  /\ UNCHANGED <<active, admitting, writerError, gate, caches, process, bags, files, told>>

SaveFailsUnknown(w) == state' = "failed" /\ Done(w)  \* mutant: a state nobody knows
SaveFails(w) == state' = "error" /\ Done(w)

\* The list of what was saved is completed before the directory moves.
Manifest(w) ==
  /\ At(w, "manifest")
  /\ \/ /\ disk[Col(w)].where = "staging"
        /\ disk' = [disk EXCEPT ![Col(w)].session = "saved"]
        /\ Goto(w, "check") /\ UNCHANGED state
     \/ /\ disk[Col(w)].where # "staging" \/ "session" \in Faults
        /\ SaveFails(w) /\ UNCHANGED disk
  /\ UNCHANGED <<active, admitting, writerError, gate, caches, process, bags, taskDir, told>>

\* publish: the directory is ours; make the directory of the task.
CheckOwned(w) ==
  /\ At(w, "check")
  /\ IF Locked /\ Owned(Col(w))
       THEN taskDir' = TRUE /\ Goto(w, "rename") /\ UNCHANGED state
       ELSE SaveFails(w) /\ UNCHANGED taskDir
  /\ UNCHANGED <<active, admitting, writerError, gate, caches, process, bags, disk, told>>

\* A rename that fails moves nothing.
NotMoved(c) == disk

Rename(w) ==
  /\ At(w, "rename")
  /\ \/ /\ disk[Col(w)].where = "staging" /\ taskDir
        /\ disk' = [disk EXCEPT ![Col(w)].where = "task"]
        /\ Goto(w, "unmark") /\ UNCHANGED state
     \/ /\ disk[Col(w)].where # "staging" \/ ~taskDir \/ "publish" \in Faults
        /\ SaveFails(w) /\ disk' = NotMoved(Col(w))
  /\ UNCHANGED <<active, admitting, writerError, gate, caches, process, bags, taskDir, told>>

\* The marker is removed; a failure here is a failure of the save.
Unmark(w) ==
  /\ At(w, "unmark")
  /\ \/ /\ disk' = [disk EXCEPT ![Col(w)].marker = FALSE]
        /\ Goto(w, "saved") /\ UNCHANGED state
     \/ "marker" \in Faults /\ SaveFails(w) /\ UNCHANGED disk
  /\ UNCHANGED <<active, admitting, writerError, gate, caches, process, bags, taskDir, told>>

Tell(c, what) == told' = [told EXCEPT ![c] = @ \cup {what}]

Saved(w) ==
  /\ At(w, "saved")
  /\ active' = None /\ state' = "idle"
  /\ Tell(Col(w), "saved")
  /\ Done(w)
  /\ UNCHANGED <<admitting, writerError, gate, caches, process, bags, files>>

-----------------------------------------------------------------------------
(* cancel and stop_and_cancel *)

\* stop_and_cancel from recording, cancel from pending, both from error.
Cancellable == state \in {"recording", "pending", "error"}

Cancel(w) ==
  /\ At(w, "idle") /\ Open
  /\ Cancellable
  /\ state' = "cancelling"
  /\ \E c \in Collections :
       /\ Target(c)
       /\ worker' = [worker EXCEPT ![w] = [pc |-> "abort", col |-> c, save |-> FALSE]]
  /\ UNCHANGED <<active, admitting, writerError, gate, caches, process, bags, files, told>>

CancelAbort(w) ==
  /\ At(w, "abort")
  /\ admitting' = FALSE
  /\ \E drop \in BOOLEAN : Aborted(Col(w), drop)
  /\ Goto(w, "abortjoin")
  /\ UNCHANGED <<state, active, writerError, gate, caches, process, log, files, told>>

\* A thread that is still alive keeps its directory.
CancelJoin(w) ==
  /\ At(w, "abortjoin")
  /\ \/ AbortStopped(Col(w)) /\ Goto(w, "discard") /\ UNCHANGED <<state, writer>>
     \/ /\ TimedOut(Col(w)) /\ Done(w)
        /\ state' = "error"
        /\ writer' = [writer EXCEPT ![Col(w)].failed = TRUE]
  /\ UNCHANGED <<active, admitting, writerError, gate, caches, process, log, files, told>>

CancelDiscard(w) ==
  /\ At(w, "discard")
  /\ \/ DiscardOk(Col(w)) /\ Goto(w, "cancelled") /\ UNCHANGED state
     \/ DiscardFails(Col(w)) /\ Done(w) /\ state' = "error"
  /\ UNCHANGED <<active, admitting, writerError, gate, caches, process, bags, taskDir, told>>

Cancelled(w) ==
  /\ At(w, "cancelled")
  /\ active' = None /\ writerError' = "" /\ state' = "idle"
  /\ Tell(Col(w), "cancelled")
  /\ Done(w)
  /\ UNCHANGED <<admitting, gate, caches, process, bags, files>>

-----------------------------------------------------------------------------
(* delete *)

\* The active collection is refused under the lock; the storage is searched outside it.
Delete(w, c) ==
  /\ At(w, "idle") /\ Open
  /\ active # c /\ disk[c].where = "task"
  /\ worker' = [worker EXCEPT ![w] = [pc |-> "trash", col |-> c, save |-> FALSE]]
  /\ UNCHANGED <<service, process, bags, files, told>>

\* Rename into the recycle area.
MoveToTrash(w) ==
  /\ At(w, "trash")
  /\ \/ /\ disk[Col(w)].where = "task"
        /\ disk' = [disk EXCEPT ![Col(w)].where = "trash"]
        /\ Goto(w, "rmdir")
     \/ disk[Col(w)].where # "task" /\ Done(w) /\ UNCHANGED disk
  /\ UNCHANGED <<service, process, bags, taskDir, told>>

\* Then the directory of the task is removed if it is empty.
RemoveTaskDir(w) ==
  /\ At(w, "rmdir")
  /\ taskDir' = (taskDir /\ \E c \in Collections : disk[c].where = "task")
  /\ Tell(Col(w), "deleted")
  /\ Done(w)
  /\ UNCHANGED <<service, process, bags, disk>>

-----------------------------------------------------------------------------
(* The input thread *)

\* on_image of a keyframe while start waits for one: START, the static transform and
\* the frame go in together, under the data lock.
GateMessagesLate == StartMessages  \* mutant: the frame goes its own way
GateMessages     == Append(StartMessages, Message("keyframe"))

OpenGate ==
  /\ input.pc = "idle" /\ Open
  /\ gate.is = "armed"
  /\ \E k \in 0..Len(GateMessages) :
       /\ OfferFirst(gate.col, GateMessages, k)
       /\ gate' = [gate EXCEPT !.is = IF k = 0 THEN "failed" ELSE "done"]
       /\ admitting' = (k > 0 \/ admitting)
  /\ UNCHANGED <<state, active, caches, process, worker, files, told>>

\* _submit: a message that is not admitted is dropped.
Submit(message) ==
  IF admitting /\ active # None
    THEN \E k \in 0..1 : OfferFirst(active, <<message>>, k)
    ELSE UNCHANGED <<writerError, bags>>

\* A pose, a gripper state, a tracker status or any other image.
Data ==
  /\ input.pc = "idle" /\ Open
  /\ admitting /\ active # None /\ Holds(active, "data") < MaxData
  /\ Submit(Message("data"))
  /\ UNCHANGED <<state, active, admitting, gate, caches, process, worker, files, told>>

\* on_tf_static: cached under the state lock, then submitted.
TfArrives ==
  /\ input.pc = "idle" /\ Open /\ ~tfCached
  /\ tfCached' = TRUE
  /\ input' = [Quiet EXCEPT !.pc = "tf"]
  /\ UNCHANGED <<state, active, admitting, writerError, gate, generation, issued, worker,
                 exit, exits, bags, files, told>>

TfSubmitted ==
  /\ input.pc = "tf"
  /\ Submit(Message("tf"))
  /\ input' = Quiet
  /\ UNCHANGED <<state, active, admitting, gate, caches, issued, worker, exit, exits,
                 files, told>>

\* on_image_timing: the generation is compared under the state lock, the failure is
\* reported and the message submitted after it.  Generation 0 marks a camera without a clock
\* mapping (frame_timestamper.hpp: the compatibility mode); it reports nothing and is left out.
TimingArrives ==
  /\ input.pc = "idle" /\ Open
  /\ \E g \in {generation, generation + 1} \ {0} :
       /\ g <= MaxGeneration
       /\ active # None => Timing(g) \notin {log[active][i] : i \in DOMAIN log[active]}
       /\ generation' = g
       /\ input' = [pc |-> "timing", gen |-> g,
                    raise |-> state \in {"starting", "recording"} /\ generation \notin {0, g}]
  /\ UNCHANGED <<state, active, admitting, writerError, gate, tfCached, issued, worker,
                 exit, exits, bags, files, told>>

TimingReported ==
  /\ input.pc = "timing" /\ input.raise
  /\ writerError' = Noted("reset")
  /\ input' = [input EXCEPT !.raise = FALSE]
  /\ UNCHANGED <<state, active, admitting, gate, caches, issued, worker, exit, exits,
                 bags, files, told>>

TimingSubmitted ==
  /\ input.pc = "timing" /\ ~input.raise
  /\ Submit(Timing(input.gen))
  /\ input' = Quiet
  /\ UNCHANGED <<state, active, admitting, gate, caches, issued, worker, exit, exits,
                 files, told>>

-----------------------------------------------------------------------------
(* tick, shutdown, restart *)

\* _sync_writer_error, which tick and every request call.
SyncableWrite == state = "recording" /\ writerError = "write" /\ active # None  \* mutant
Syncable == state = "recording" /\ writerError # "" /\ active # None

Sync ==
  /\ Syncable
  /\ admitting' = FALSE
  /\ state' = "error"
  /\ UNCHANGED <<active, writerError, gate, caches, process, worker, bags, files, told>>

InFlight == {w \in Workers : ~At(w, "idle")}

\* CollectionRuntime joins the input thread before it calls shutdown, which stops the
\* admission, cancels the gate, and waits for a start that was waiting at the gate.
Shutdown ==
  /\ Open
  /\ input.pc = "idle"
  /\ OrderlyExit => InFlight = {}
  /\ admitting' = FALSE
  /\ gate' = IF gate.is = "armed" THEN [gate EXCEPT !.is = "cancelled"] ELSE gate
  /\ exit' = [exit EXCEPT !.pc = IF gate.is = "armed" THEN "settle" ELSE "abort"]
  /\ UNCHANGED <<state, active, writerError, caches, issued, worker, input, exits, bags,
                 files, told>>

Settle ==
  /\ exit.pc = "settle"
  /\ state # "starting" \/ "timeout" \in Faults
  /\ exit' = [exit EXCEPT !.pc = "abort"]
  /\ UNCHANGED <<service, issued, worker, input, exits, bags, files, told>>

ExitAbort ==
  /\ exit.pc = "abort"
  /\ IF active = None
       THEN exit' = [exit EXCEPT !.pc = "clear"] /\ UNCHANGED writer
       ELSE exit' = [pc |-> "join", col |-> active]
            /\ \E drop \in BOOLEAN : Aborted(active, drop)
  /\ UNCHANGED <<service, issued, worker, input, exits, log, files, told>>

\* With a thread that does not end shutdown raises and the process ends as it is.
ExitJoin ==
  /\ exit.pc = "join"
  /\ \/ /\ Joined(exit.col)
        /\ exit' = [pc |-> "clear", col |-> None] /\ UNCHANGED <<state, writer>>
     \/ /\ TimedOut(exit.col)
        /\ exit' = [pc |-> "raised", col |-> None]
        /\ state' = "error"
        /\ writer' = [writer EXCEPT ![exit.col].failed = TRUE]
  /\ UNCHANGED <<active, admitting, writerError, gate, caches, issued, worker, input,
                 exits, log, files, told>>

ExitClear ==
  /\ exit.pc = "clear"
  /\ active' = None
  /\ exit' = [exit EXCEPT !.pc = "clean"]
  /\ UNCHANGED <<state, admitting, writerError, gate, caches, issued, worker, input,
                 exits, bags, files, told>>

\* cleanup_staging: rmtree of one owned directory after the other; it takes its time.
\* If it fails the lock is released all the same and shutdown raises.
CleanBegins(c) ==
  /\ exit.pc = "clean" /\ Owned(c)
  /\ \E marker \in BOOLEAN :
       disk' = [disk EXCEPT ![c].intact = FALSE, ![c].marker = marker]
  /\ exit' = [pc |-> "rmtree", col |-> c]
  /\ UNCHANGED <<service, issued, worker, input, exits, bags, taskDir, told>>

CleanEnds ==
  /\ exit.pc = "rmtree"
  /\ \/ /\ disk[exit.col].where = "staging"
        /\ disk' = Removed(exit.col)
        /\ exit' = [pc |-> "clean", col |-> None]
     \/ /\ disk[exit.col].where # "staging" \/ "discard" \in Faults \/ InFlight # {}
        /\ exit' = [pc |-> "down", col |-> None]
        /\ UNCHANGED disk
  /\ UNCHANGED <<service, issued, worker, input, exits, bags, taskDir, told>>

Unlock ==
  /\ exit.pc = "clean" /\ \A c \in Collections : ~Owned(c)
  /\ exit' = [exit EXCEPT !.pc = "unlocked"]
  /\ UNCHANGED <<service, issued, worker, input, exits, bags, files, told>>

ExitDone ==
  /\ exit.pc = "unlocked"
  /\ state' = "idle"
  /\ exit' = [exit EXCEPT !.pc = "down"]
  /\ UNCHANGED <<active, admitting, writerError, gate, caches, issued, worker, input,
                 exits, bags, files, told>>

\* acquire removes the directories of the unsaved collections.
LeftBehind == disk  \* mutant: the service starts without cleaning up
Recovered  == [c \in Collections |->
  IF Owned(c) THEN [disk[c] EXCEPT !.where = "removed", !.marker = FALSE] ELSE disk[c]]

\* The process ends, by a crash at any point or after shutdown, and the service is
\* started again.
Restart ==
  /\ exits < MaxExits
  /\ exits' = exits + 1
  /\ state' = "idle" /\ active' = None /\ admitting' = FALSE /\ writerError' = ""
  /\ gate' = NoGate /\ tfCached' = FALSE /\ generation' = 0
  /\ worker' = [w \in Workers |-> Idle]
  /\ input' = Quiet /\ exit' = Running
  /\ writer' = [c \in Collections |-> NoWriter]
  /\ disk' = Recovered
  /\ UNCHANGED <<issued, log, taskDir, told>>

-----------------------------------------------------------------------------

\* What a service thread does after its request was accepted.
Step(w) ==
  \/ Stage(w) \/ OpenBag(w) \/ Activate(w) \/ Begin(w) \/ Admit(w) \/ Arm(w) \/ WaitEnds(w)
  \/ Ready(w) \/ Undo(w) \/ UndoJoin(w) \/ UndoDiscard(w) \/ Undone(w)
  \/ Quiesce(w) \/ Verify(w) \/ Session(w)
  \/ Manifest(w) \/ CheckOwned(w) \/ Rename(w) \/ Unmark(w) \/ Saved(w)
  \/ CancelAbort(w) \/ CancelJoin(w) \/ CancelDiscard(w) \/ Cancelled(w)
  \/ MoveToTrash(w) \/ RemoveTaskDir(w)

Request(w) ==
  \/ Start(w) \/ Save(w) \/ Cancel(w)
  \/ \E save \in BOOLEAN : Stop(w, save)
  \/ \E c \in Collections : Delete(w, c)

Input == OpenGate \/ Data \/ TfArrives \/ TfSubmitted
         \/ TimingArrives \/ TimingReported \/ TimingSubmitted

Exit == \/ Shutdown \/ Settle \/ ExitAbort \/ ExitJoin \/ ExitClear \/ CleanEnds
        \/ Unlock \/ ExitDone
        \/ \E c \in Collections : CleanBegins(c)

Next ==
  \/ \E w \in Workers : Request(w) \/ Step(w)
  \/ \E c \in Collections : WriterFails(c) \/ WriterEnds(c)
  \/ Input
  \/ Sync
  \/ Exit
  \/ Restart

Spec == Init /\ [][Next]_vars

\* A service thread goes on inside a request and the timer ticks.  Nothing is assumed
\* of the disk, of the sensors or of the operator.
FairSpec == Spec /\ WF_vars(Sync) /\ \A w \in Workers : WF_vars(Step(w))

-----------------------------------------------------------------------------
(* Properties *)

States == {"idle", "starting", "recording", "stopping", "pending", "saving",
           "cancelling", "error"}
Steps  == {"idle", "stage", "open", "activate", "begin", "admit", "arm", "wait", "ready",
           "undo", "unjoin", "undiscard", "undone", "quiesce", "join", "session",
           "manifest", "check", "rename", "unmark", "saved", "abort", "abortjoin",
           "discard", "cancelled", "trash", "rmdir"}
ExitSteps == {"no", "settle", "abort", "join", "clear", "clean", "rmtree", "unlocked",
              "down", "raised"}
Handles   == Collections \cup {None}
Codes     == {"", "write", "overflow", "reset"}

Gates       == [col : Handles, is : {"none", "armed", "done", "failed", "cancelled"}]
Threads     == [pc : Steps, col : Handles, save : BOOLEAN]
Inputs      == [pc : {"idle", "tf", "timing"}, gen : 0..MaxGeneration, raise : BOOLEAN]
Exits       == [pc : ExitSteps, col : Handles]
Writers     == [thread : {"none", "run", "dead"}, closing : BOOLEAN, failed : BOOLEAN,
                dropped : BOOLEAN]
Messages    == [kind : {"START", "STOP", "tf", "keyframe", "data", "timing"},
                gen : 0..MaxGeneration]
Directories == [where : {"none", "staging", "task", "trash", "removed"}, marker : BOOLEAN,
                session : {"none", "pending", "saved"}, bag : {"partial", "complete"},
                intact : BOOLEAN]
Answers     == {"saved", "cancelled", "deleted"}

\* Every variable keeps its type: the fields of CollectionController and the files.
TypeOK ==
  /\ state \in States /\ active \in Handles /\ admitting \in BOOLEAN
  /\ writerError \in Codes /\ gate \in Gates
  /\ tfCached \in BOOLEAN /\ generation \in 0..MaxGeneration
  /\ issued \in 0..MaxCollections /\ exits \in 0..MaxExits
  /\ worker \in [Workers -> Threads] /\ input \in Inputs /\ exit \in Exits
  /\ writer \in [Collections -> Writers] /\ log \in [Collections -> Seq(Messages)]
  /\ disk \in [Collections -> Directories] /\ taskDir \in BOOLEAN
  /\ told \in [Collections -> SUBSET Answers]

\* START, then sensor data, then STOP: each once.
WellFormed(c) ==
  /\ Len(log[c]) >= 2
  /\ \A i \in DOMAIN log[c] : /\ log[c][i].kind = "START" <=> i = 1
                              /\ log[c][i].kind = "STOP" <=> i = Len(log[c])

Published(c) == disk[c].where \in {"task", "trash"}

\* A published record is whole: its bag holds every admitted message between START and
\* STOP, its files are all there and its list says saved; whatever write, overflow,
\* time-out, crash or concurrent request came in between (_verify_writer, _publish).
SavedIsComplete ==
  \A c \in Collections : Published(c) =>
    /\ disk[c].bag = "complete" /\ disk[c].intact /\ disk[c].session = "saved"
    /\ WellFormed(c)

Deleting(w) == worker[w].pc \in {"trash", "rmdir"}

\* When no request is running, the state, the active collection and the admission agree: a
\* collection is held exactly outside idle, so that there is one to cancel in ERROR (a
\* discard that took the marker still refuses it), messages are admitted exactly while
\* recording, and what waits in ERROR for its cancellation has not been published
\* (README: 失败数据不会被保存为成功记录).
Settled ==
  Open /\ InFlight \subseteq {w \in Workers : Deleting(w)} =>
    /\ state \in {"idle", "recording", "pending", "error"}
    /\ active = None <=> state = "idle"
    /\ admitting <=> state = "recording"
    /\ state = "error" => ~Published(active)

\* Two threads are never inside the lifecycle of a collection at once.
Exclusive ==
  \A v, w \in InFlight : Deleting(v) \/ Deleting(w) \/ v = w

\* Two bags are never open at once, though an abort may time out and leave its thread.
OneBagOpen ==
  \A c, d \in Collections : writer[c].thread = "run" /\ writer[d].thread = "run" => c = d

\* A directory is left alone while a thread still writes into it (shutdown: 写入线程未退出
\* 时保留暂存数据): no cancellation, failed start, save or clean-up removes or moves it.
BagHasDirectory ==
  \A c \in Collections :
    writer[c].thread = "run" => disk[c].where = "staging" /\ disk[c].intact

\* Both, whatever times out.
OpenBagIsSafe == OneBagOpen /\ BagHasDirectory

\* Nothing is forgotten in the staging area: a directory there belongs to the active
\* collection or to a running request, unless removing it failed.
StagingIsHeld ==
  \A c \in Collections : disk[c].where = "staging" /\ disk[c].intact /\ Open =>
    c = active \/ \E w \in Workers : worker[w].col = c /\ ~At(w, "idle")

\* The static transform that is cached is in the bag of the collection being recorded
\* (on_tf_static: 每条新采集开始时回放缓存).
TfReplayed ==
  state = "recording" /\ Open /\ tfCached /\ input.pc # "tf" /\ writerError = "" =>
    Holds(active, "tf") > 0

\* In h264 mode a saved collection starts with START, the static transform and a
\* keyframe: no frame and no other sample comes before the keyframe.
KeyframeFirst ==
  \A c \in Collections : KeyframeStart /\ Published(c) =>
    \E i \in DOMAIN log[c] :
      /\ log[c][i].kind = "keyframe"
      /\ \A j \in 1..(i - 1) : log[c][j].kind \in {"START", "tf"}

\* The head of a bag is complete: all that a player or a converter needs first.
BagOpensComplete == KeyframeFirst /\ TfReplayed

\* Two time bases are never mixed in a saved collection (on_image_timing: 旧、新时间基准
\* 不能混在同一 episode 中).
SameTimeBase ==
  \A c \in Collections : Published(c) =>
    \A i, j \in DOMAIN log[c] :
      log[c][i].kind = "timing" /\ log[c][j].kind = "timing" => log[c][i] = log[c][j]

\* The service implements the ledger.
Record(c) ==
  CASE disk[c].where = "none"    -> "absent"
    [] disk[c].where = "staging" -> "unsaved"
    [] disk[c].where = "removed" -> "dropped"
    [] disk[c].where = "task"    -> "saved"
    [] disk[c].where = "trash"   -> "trash"

Ledger == INSTANCE CollectionLedger WITH record <- [c \in Collections |-> Record(c)]
ImplementsLedger == Ledger!Spec

\* A failed collection can only be cancelled: ERROR is left only by a cancellation
\* (or the end of the process).
ErrorIsFinal ==
  [][state = "error" /\ Open /\ exits' = exits => state' \in {"error", "cancelling"}]_state

\* A request comes to its end even if the disk hangs, because every join has a time-out.
RequestsEnd ==
  \A s \in {"starting", "stopping", "saving", "cancelling"} :
    state = s ~> state \in {"idle", "recording", "pending", "error"}

\* A failure noted while recording puts an end to the recording.
FailureSurfaces == state = "recording" /\ writerError # "" ~> state # "recording" \/ ~Open

\* Neither a request nor a failed recording stays where it is.
LifecycleMoves == RequestsEnd /\ FailureSurfaces
=============================================================================
