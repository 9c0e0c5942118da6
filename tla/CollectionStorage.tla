------------------------- MODULE CollectionStorage -------------------------
(***************************************************************************)
(* fastumi_data/collection_storage.py: CollectionStorage, the directories  *)
(* of the collections at the granularity of system calls, shared by every  *)
(* service that is started on one data root.                               *)
(*                                                                         *)
(* At most one thread of a service is inside the life of a collection      *)
(* (CollectionController, Exclusive): it is life.  Deletions run in any    *)
(* number of threads next to it.  A directory is the set of its files:     *)
(* the owner marker, the bag with its snapshots, session.yaml.             *)
(***************************************************************************)
EXTENDS Integers, FiniteSets

CONSTANTS Services,        \* processes on the same data root
          Deleters,        \* threads that carry out a deletion
          Tasks,
          MaxCollections,  \* bound on the collections one behaviour starts
          MaxStarts,       \* bound on the starts of a service
          Faults           \* what may fail in this instance

NoService == "none"

ASSUME StorageAssumption ==
  /\ MaxCollections \in Nat /\ MaxStarts \in Nat /\ NoService \notin Services
  /\ Faults \subseteq {"create", "mark", "start", "publish", "unmark", "trash", "removal",
                "crash"}

VARIABLES
  lock,      \* the service that holds the lock of the root
  service,   \* per service: off, cleaning or up, and what its clean-up is at
  life,      \* the thread inside the life of a collection
  deleter,   \* per thread: the step of its deletion
  dir,       \* the directory of each collection
  taskDirs,  \* tasks with a directory
  issued, starts

vars == <<lock, service, life, deleter, dir, taskDirs, issued, starts>>

Collections == 1..MaxCollections
NoTask == "none"
Files == {"marker", "bag", "session"}
Data  == Files \ {"marker"}

Off  == [pc |-> "off", then |-> "off", col |-> 0]
Idle == [pc |-> "idle", col |-> 0, seen |-> {}]
Free == [pc |-> "idle", col |-> 0]
NoDir == [place |-> "none", task |-> NoTask, number |-> 0, files |-> {}]

Init ==
  /\ lock = NoService
  /\ service = [s \in Services |-> Off]
  /\ life = Idle
  /\ deleter = [d \in Deleters |-> Free]
  /\ dir = [c \in Collections |-> NoDir]
  /\ taskDirs = {}
  /\ issued = 0 /\ starts = 0

In(place)  == {c \in Collections : dir[c].place = place}
Up         == \E s \in Services : service[s].pc = "up"
Col        == life.col
At(pc)     == life.pc = pc
Goto(pc)   == life' = [life EXCEPT !.pc = pc]
Fault(f)   == f \in Faults
Drop(c, f) == dir' = [dir EXCEPT ![c].files = @ \ {f}]
Gone(c)    == dir' = [dir EXCEPT ![c].place = "gone"]

\* _is_owned_staging: in the staging area, with its marker.
Owned(c) == c \in In("staging") /\ "marker" \in dir[c].files

-----------------------------------------------------------------------------
(* acquire, release: the lock, and a clean-up under it *)

Acquire(s) ==
  /\ service[s].pc = "off" /\ lock = NoService /\ starts < MaxStarts
  /\ lock' = s
  /\ starts' = starts + 1
  /\ service' = [service EXCEPT ![s] = [pc |-> "clean", then |-> "up", col |-> 0]]
  /\ UNCHANGED <<life, deleter, dir, taskDirs, issued>>

\* An orderly exit is assumed: CollectionRuntime.shutdown shuts both executors down, which
\* wait for the callbacks they run, before the controller gives the collection up and the
\* storage is released; so no request is inside the storage then.  (A process that does not
\* wait ends like Crash, whose clean-up is the next Acquire.)
AtRest == life.pc \in {"idle", "fill", "pending", "error"} /\ \A d \in Deleters : deleter[d] = Free

LockGone(s) == NoService  \* mutant: unlocked first
LockHeld(s) == lock

Release(s) ==
  /\ service[s].pc = "up" /\ AtRest
  /\ service' = [service EXCEPT ![s] = [pc |-> "clean", then |-> "off", col |-> 0]]
  /\ lock' = LockHeld(s)
  /\ life' = Idle
  /\ UNCHANGED <<deleter, dir, taskDirs, issued, starts>>

\* cleanup_staging: one owned directory after the other, each file by file.
CleanNext(s) ==
  /\ service[s].pc = "clean" /\ service[s].col = 0
  /\ \E c \in Collections : Owned(c) /\ service' = [service EXCEPT ![s].col = c]
  /\ UNCHANGED <<lock, life, deleter, dir, taskDirs, issued, starts>>

CleanFile(s) ==
  /\ service[s].pc = "clean" /\ service[s].col # 0
  /\ \E f \in dir[service[s].col].files : Drop(service[s].col, f)
  /\ UNCHANGED <<lock, service, life, deleter, taskDirs, issued, starts>>

CleanGone(s) ==
  /\ service[s].pc = "clean" /\ service[s].col # 0 /\ dir[service[s].col].files = {}
  /\ Gone(service[s].col)
  /\ service' = [service EXCEPT ![s].col = 0]
  /\ UNCHANGED <<lock, life, deleter, taskDirs, issued, starts>>

\* The clean-up is done, or it raises: then the service does not come up, and release
\* unlocks all the same.
CleanEnds(s) ==
  /\ service[s].pc = "clean"
  /\ \/ /\ service[s].col = 0 /\ \A c \in Collections : ~Owned(c)
        /\ service' = [service EXCEPT ![s].pc = service[s].then]
        /\ lock' = IF service[s].then = "up" THEN lock ELSE NoService
     \/ /\ service[s].col # 0 /\ Fault("removal")
        /\ service' = [service EXCEPT ![s] = Off]
        /\ lock' = NoService
  /\ UNCHANGED <<life, deleter, dir, taskDirs, issued, starts>>

\* The process is killed at any step; the kernel gives its lock back.
Crash(s) ==
  /\ Fault("crash") /\ service[s].pc # "off"
  /\ service' = [service EXCEPT ![s] = Off]
  /\ lock' = IF lock = s THEN NoService ELSE lock
  /\ IF service[s].pc = "up"
       THEN life' = Idle /\ deleter' = [d \in Deleters |-> Free]
       ELSE UNCHANGED <<life, deleter>>
  /\ UNCHANGED <<dir, taskDirs, issued, starts>>

-----------------------------------------------------------------------------
(* create_staging *)

\* The order of _next_index: is there a task directory, its names, the recycle area.
TrashFirst(pc) == [idle |-> "trash", trash |-> "look", look |-> "task", task |-> "create"][pc]  \* mutant
Follows(pc)    == [idle |-> "look", look |-> "task", task |-> "trash", trash |-> "create"][pc]

Start(t) ==
  /\ Up /\ At("idle") /\ issued < MaxCollections
  /\ issued' = issued + 1
  /\ life' = [pc |-> Follows("idle"), col |-> issued + 1, seen |-> {}]
  /\ dir' = [dir EXCEPT ![issued + 1].task = t]
  /\ UNCHANGED <<lock, service, deleter, taskDirs, starts>>

Exists == dir[Col].task \in taskDirs
Numbers(place) == {dir[c].number : c \in {d \in In(place) : dir[d].task = dir[Col].task}}

Look ==
  /\ At("look")
  /\ Goto(IF Exists THEN Follows("look") ELSE Follows("task"))
  /\ UNCHANGED <<lock, service, deleter, dir, taskDirs, issued, starts>>

\* If a deletion has removed the directory meanwhile, iterdir raises and the start fails.
List(place) ==
  /\ At(place)
  /\ life' = IF place = "task" /\ ~Exists THEN Idle
             ELSE [life EXCEPT !.pc = Follows(place), !.seen = @ \cup Numbers(place)]
  /\ UNCHANGED <<lock, service, deleter, dir, taskDirs, issued, starts>>

HighestIndex(seen) == CHOOSE n \in seen \cup {-1} : \A k \in seen : k <= n  \* mutant: not plus one
NextIndex(seen)    == 1 + CHOOSE n \in seen \cup {-1} : \A k \in seen : k <= n

\* The directory, then its marker.  A failure removes what there is, as far as it goes.
Create ==
  /\ At("create")
  /\ \/ /\ dir' = [dir EXCEPT ![Col].place = "staging", ![Col].number = NextIndex(life.seen)]
        /\ Goto("mark")
     \/ Fault("create") /\ life' = Idle /\ UNCHANGED dir
  /\ UNCHANGED <<lock, service, deleter, taskDirs, issued, starts>>

Mark ==
  /\ At("mark")
  /\ \/ dir' = [dir EXCEPT ![Col].files = @ \cup {"marker"}] /\ Goto("fill")
     \/ Fault("mark") /\ Goto("undo") /\ UNCHANGED dir
  /\ UNCHANGED <<lock, service, deleter, taskDirs, issued, starts>>

\* The controller and its writer fill the directory; session.yaml comes at the stop.
Fill ==
  /\ At("fill")
  /\ \/ "bag" \notin dir[Col].files /\ dir' = [dir EXCEPT ![Col].files = @ \cup {"bag"}]
        /\ UNCHANGED life
     \/ "bag" \in dir[Col].files /\ dir' = [dir EXCEPT ![Col].files = @ \cup {"session"}]
        /\ Goto("pending")
  /\ UNCHANGED <<lock, service, deleter, taskDirs, issued, starts>>

-----------------------------------------------------------------------------
(* discard *)

\* The caller of a failed start ignores a discard that is refused.
DiscardStart ==
  /\ At("fill") /\ Fault("start")
  /\ IF Owned(Col) THEN Goto("undo") ELSE life' = Idle
  /\ UNCHANGED <<lock, service, deleter, dir, taskDirs, issued, starts>>

\* A cancel is refused without the marker; what a save has moved is no longer there.
DiscardCancel ==
  /\ At("fill") \/ At("pending") \/ At("error")
  /\ \/ Owned(Col) /\ Goto("remove")
     \/ ~Owned(Col) /\ Col \in In("staging") /\ Goto("error")
     \/ Col \notin In("staging") /\ life' = Idle
  /\ UNCHANGED <<lock, service, deleter, dir, taskDirs, issued, starts>>

\* shutil.rmtree, file by file.
RemoveFile ==
  /\ At("undo") \/ At("remove")
  /\ \E f \in dir[Col].files : Drop(Col, f)
  /\ UNCHANGED <<lock, service, life, deleter, taskDirs, issued, starts>>

RemoveEnds ==
  /\ At("undo") \/ At("remove")
  /\ \/ dir[Col].files = {} /\ Gone(Col) /\ life' = Idle
     \/ /\ Fault("removal") /\ UNCHANGED dir
        /\ IF At("undo") THEN life' = Idle ELSE Goto("error")
  /\ UNCHANGED <<lock, service, deleter, taskDirs, issued, starts>>

-----------------------------------------------------------------------------
(* publish: check, make the task's directory, rename, remove the marker *)

CheckOwned ==
  /\ At("pending")
  /\ Goto(IF Owned(Col) THEN "mkdir" ELSE "error")
  /\ UNCHANGED <<lock, service, deleter, dir, taskDirs, issued, starts>>

MakeTaskDir ==
  /\ At("mkdir")
  /\ taskDirs' = taskDirs \cup {dir[Col].task}
  /\ Goto("rename")
  /\ UNCHANGED <<lock, service, deleter, dir, issued, starts>>

Rename ==
  /\ At("rename")
  /\ \/ Exists /\ dir' = [dir EXCEPT ![Col].place = "task"] /\ Goto("unmark")
     \/ (~Exists \/ Fault("publish")) /\ Goto("error") /\ UNCHANGED dir
  /\ UNCHANGED <<lock, service, deleter, taskDirs, issued, starts>>

Unmark ==
  /\ At("unmark")
  /\ \/ Drop(Col, "marker") /\ life' = Idle
     \/ Fault("unmark") /\ Goto("error") /\ UNCHANGED dir
  /\ UNCHANGED <<lock, service, deleter, taskDirs, issued, starts>>

-----------------------------------------------------------------------------
(* delete: find the record by its session.yaml, rename, remove an empty task directory *)

Find(d) ==
  /\ Up /\ deleter[d] = Free
  /\ \E c \in In("task") \ {Col} :
       "session" \in dir[c].files /\ deleter' = [deleter EXCEPT ![d] = [pc |-> "move", col |-> c]]
  /\ UNCHANGED <<lock, service, life, dir, taskDirs, issued, starts>>

\* Two deletions can find the same record: the second rename fails.
MoveToTrash(d) ==
  /\ deleter[d].pc = "move"
  /\ \/ /\ dir[deleter[d].col].place = "task"
        /\ dir' = [dir EXCEPT ![deleter[d].col].place = "trash"]
        /\ deleter' = [deleter EXCEPT ![d].pc = "rmdir"]
     \/ /\ dir[deleter[d].col].place # "task" \/ Fault("trash")
        /\ deleter' = [deleter EXCEPT ![d] = Free] /\ UNCHANGED dir
  /\ UNCHANGED <<lock, service, life, taskDirs, issued, starts>>

RemoveTaskDir(d) ==
  /\ deleter[d].pc = "rmdir"
  /\ LET t == dir[deleter[d].col].task
     IN  taskDirs' = IF \E c \in In("task") : dir[c].task = t THEN taskDirs ELSE taskDirs \ {t}
  /\ deleter' = [deleter EXCEPT ![d] = Free]
  /\ UNCHANGED <<lock, service, life, dir, issued, starts>>

-----------------------------------------------------------------------------

Life ==
  \/ \E t \in Tasks : Start(t)
  \/ Look \/ List("task") \/ List("trash") \/ Create \/ Mark \/ Fill
  \/ DiscardStart \/ DiscardCancel \/ RemoveFile \/ RemoveEnds
  \/ CheckOwned \/ MakeTaskDir \/ Rename \/ Unmark

Next ==
  \/ \E s \in Services : Acquire(s) \/ Release(s) \/ Crash(s)
  \/ \E s \in Services : CleanNext(s) \/ CleanFile(s) \/ CleanGone(s) \/ CleanEnds(s)
  \/ Life
  \/ \E d \in Deleters : Find(d) \/ MoveToTrash(d) \/ RemoveTaskDir(d)

Spec == Init /\ [][Next]_vars

-----------------------------------------------------------------------------
(* Properties *)

Steps == {"idle", "look", "task", "trash", "create", "mark", "fill", "pending", "undo",
          "remove", "mkdir", "rename", "unmark", "error"}

\* Every variable keeps its type; in particular a number is never negative.
TypeOK ==
  /\ lock \in Services \cup {NoService}
  /\ service \in [Services -> [pc : {"off", "clean", "up"}, then : {"up", "off"},
                               col : Collections \cup {0}]]
  /\ life \in [pc : Steps, col : Collections \cup {0}, seen : SUBSET Nat]
  /\ deleter \in [Deleters -> [pc : {"idle", "move", "rmdir"}, col : Collections \cup {0}]]
  /\ dir \in [Collections -> [place : {"none", "staging", "task", "trash", "gone"},
                              task : Tasks \cup {NoTask}, number : Nat, files : SUBSET Files]]
  /\ taskDirs \subseteq Tasks
  /\ issued \in 0..MaxCollections /\ starts \in 0..MaxStarts

Published(c) == dir[c].place \in {"task", "trash"}

\* The numbers of a task's records grow with the order of their starts, and none is used
\* again, deleted ones included (README: 已删除记录的 id 不复用), although the number is
\* chosen long before the rename from two listings that a deletion can come between.
\* A service that is released is at rest (AtRest).
NumbersGrow ==
  \A c, d \in Collections :
    c < d /\ Published(c) /\ Published(d) /\ dir[c].task = dir[d].task =>
      dir[c].number < dir[d].number

\* What the service holds for its operator: saved records, and the collection that is being
\* recorded, waits for the operator, is being saved, or could not be saved.
Kept(c) ==
  \/ Published(c)
  \/ c = Col /\ life.pc \in {"fill", "pending", "mkdir", "rename", "unmark", "error"}

\* No file of it is lost to a clean-up, a discard or a deletion, of another service either,
\* nor to a publish that fails because a deletion has removed the task's directory; a record
\* is whole when it comes into its task and leaves it only for the recycle area.
\* A service that is released is at rest (AtRest).
NothingIsLost ==
  [][\A c \in Collections :
       /\ Kept(c) /\ Kept(c)' => dir[c].files \cap Data \subseteq dir'[c].files
       /\ Published(c) => Published(c)'
       /\ Published(c)' => Data \subseteq dir'[c].files]_vars
=============================================================================
