---------------------------- MODULE StorageProofs ----------------------------
(***************************************************************************)
(* The numbers and the files of the records, for any number of services,   *)
(* deletions, tasks and collections, any set of faults, and a kill at any  *)
(* step.                                                                   *)
(***************************************************************************)
EXTENDS CollectionStorage, WellFoundedInduction, NaturalsInduction, TLAPS

-----------------------------------------------------------------------------
(* The inductive invariant *)

\* The lock belongs to the one service that is not off, and only in one that is up does
\* anything run.
Locked ==
  /\ \A s \in Services : service[s].pc # "off" => lock = s
  /\ life.pc # "idle" => Up
  /\ \A d \in Deleters : /\ deleter[d] # Free => Up
                         /\ deleter[d].pc # "idle" => deleter[d].col \in Collections

\* The collection inside its life is the one that was started last, the others are not
\* numbered after it.
Latest ==
  /\ life.pc = "idle" <=> Col = 0
  /\ Col \in {0, issued}
  /\ \A c \in Collections : IF c > issued THEN dir[c].place = "none" ELSE dir[c].task \in Tasks

\* Where its directory is at each step of its life, and what is in it; a deletion is at
\* another one, which is a record.
Placed ==
  /\ life.pc \in {"look", "task", "trash", "create"} => dir[Col].place = "none"
  /\ life.pc \in {"mark", "fill", "pending", "undo", "remove", "mkdir", "rename"}
       => dir[Col].place = "staging"
  /\ life.pc = "unmark" => dir[Col].place = "task"
  /\ life.pc = "error" => dir[Col].place \in {"staging", "task"}
  /\ life.pc \in {"pending", "mkdir", "rename"} => Data \subseteq dir[Col].files
  /\ \A d \in Deleters : deleter[d].pc # "idle" =>
       deleter[d].col # Col /\ dir[deleter[d].col].place \in {"task", "trash"}

\* A clean-up is at a directory of the staging area.
Cleans ==
  \A s \in Services : service[s].pc = "clean" /\ service[s].col # 0 =>
    dir[service[s].col].place = "staging"

\* A record is whole, and its task has a directory while it is in there.
Whole ==
  \A c \in Collections :
    /\ Published(c) => Data \subseteq dir[c].files
    /\ dir[c].place = "task" => dir[c].task \in taskDirs

\* A number is below the count of the starts before.
Bounded ==
  /\ \A c \in Collections : dir[c].number < c
  /\ \A n \in life.seen : n + 1 < Col

\* What the listings have seen: the numbers of the task, then those of the recycle area.
Sibling(c) == c # Col /\ dir[c].task = dir[Col].task
Seen ==
  \A c \in Collections : Col # 0 /\ Sibling(c) =>
    /\ life.pc = "trash" /\ dir[c].place = "task" => dir[c].number \in life.seen
    /\ life.pc = "create" /\ Published(c) => dir[c].number \in life.seen
    /\ life.pc \notin {"look", "task", "trash", "create"} /\ Published(c)
         => dir[c].number < dir[Col].number

IInv ==
  /\ TypeOK /\ Locked /\ Latest /\ Placed /\ Cleans /\ Whole /\ Bounded /\ Seen /\ NumbersGrow

-----------------------------------------------------------------------------
(* _next_index *)

\* A number that is chosen is above all that were seen, and the least such.
LEMMA NextIndexIs ==
  ASSUME NEW S \in SUBSET Nat, NEW b \in Nat, \A k \in S : k < b
  PROVE  /\ NextIndex(S) \in Nat /\ NextIndex(S) <= b
         /\ \A k \in S : k < NextIndex(S)
<1> DEFINE Above == {m \in Nat : \A k \in S : k < m}
<1>1. PICK m \in Above : \A n \in Above : ~(n < m)
  <2>1. b \in Above /\ Above \subseteq Nat
    OBVIOUS
  <2>2. PICK m \in Above : \A n \in Above : <<n, m>> \notin OpToRel(<, Nat)
    BY <2>1, WFMin, NatLessThanWellFounded, Zenon
  <2>3. \A n \in Above : ~(n < m)
    BY <2>1, <2>2, Zenon DEF OpToRel
  <2>4. QED
    BY <2>2, <2>3
<1>2. m \in Nat /\ m - 1 \in S \cup {-1} /\ \A k \in S : k <= m - 1
  <2>1. m \in Nat /\ \A k \in S : k < m
    BY <1>1
  <2>2. CASE m = 0
    BY <2>1, <2>2
  <2>3. CASE m # 0
    <3>1. m - 1 \in Nat /\ m - 1 < m
      BY <2>1, <2>3
    <3>2. m - 1 \notin Above
      BY <1>1, <3>1
    <3>3. PICK k \in S : ~(k < m - 1)
      BY <3>1, <3>2
    <3>4. k = m - 1
      BY <2>1, <3>1, <3>3
    <3>5. QED
      BY <2>1, <3>4
  <2>4. QED
    BY <2>2, <2>3
<1>3. PICK n \in S \cup {-1} : NextIndex(S) = 1 + n /\ \A k \in S : k <= n
  BY <1>2 DEF NextIndex
<1>4. n \in Int /\ n >= -1
  BY <1>3
<1>5. m <= b
  BY <1>1, <1>2
<1>6. n <= m - 1
  BY <1>2, <1>3, <1>4
<1>7. QED
  BY <1>2, <1>3, <1>4, <1>5, <1>6

-----------------------------------------------------------------------------
(* Every step keeps the types *)

Serves   == [pc : {"off", "clean", "up"}, then : {"up", "off"}, col : Collections \cup {0}]
Lives    == [pc : Steps, col : Collections \cup {0}, seen : SUBSET Nat]
Deletes  == [pc : {"idle", "move", "rmdir"}, col : Collections \cup {0}]
Placings == [place : {"none", "staging", "task", "trash", "gone"}, task : Tasks \cup {NoTask},
             number : Nat, files : SUBSET Files]

\* The types, with their names.
LEMMA TypesAre ==
  TypeOK <=> /\ lock \in Services \cup {NoService} /\ service \in [Services -> Serves]
             /\ life \in Lives /\ deleter \in [Deleters -> Deletes]
             /\ dir \in [Collections -> Placings] /\ taskDirs \subseteq Tasks
             /\ issued \in 0..MaxCollections /\ starts \in 0..MaxStarts
BY DEF TypeOK, Serves, Lives, Deletes, Placings

\* The same, of the next state.
LEMMA TypesThen ==
  ASSUME lock' \in Services \cup {NoService}, service' \in [Services -> Serves],
         life' \in Lives, deleter' \in [Deleters -> Deletes],
         dir' \in [Collections -> Placings], taskDirs' \subseteq Tasks,
         issued' \in 0..MaxCollections, starts' \in 0..MaxStarts
  PROVE  TypeOK'
BY DEF TypeOK, Serves, Lives, Deletes, Placings

\* What an update of one field keeps.
LEMMA FieldsTyped ==
  ASSUME TypeOK
  PROVE  /\ \A pc \in Steps : Goto(pc) => life' \in Lives
         /\ life' = Idle => life' \in Lives
         /\ \A c \in Collections, f \in Files : Drop(c, f) => dir' \in [Collections -> Placings]
         /\ \A c \in Collections : Gone(c) => dir' \in [Collections -> Placings]
         /\ \A c \in Collections, f \in Files :
              dir' = [dir EXCEPT ![c].files = @ \cup {f}] => dir' \in [Collections -> Placings]
         /\ \A c \in Collections, p \in {"task", "trash"} :
              dir' = [dir EXCEPT ![c].place = p] => dir' \in [Collections -> Placings]
         /\ \A s \in Services : \A c \in Collections \cup {0} :
              service' = [service EXCEPT ![s].col = c] => service' \in [Services -> Serves]
         /\ \A s \in Services :
              service' = [service EXCEPT ![s] = Off] => service' \in [Services -> Serves]
         /\ \A d \in Deleters :
              deleter' = [deleter EXCEPT ![d] = Free] => deleter' \in [Deleters -> Deletes]
<1> USE TypesAre DEF Serves, Lives, Deletes, Placings
<1>1. \A pc \in Steps : Goto(pc) => life' \in Lives
  BY DEF Goto
<1>2. life' = Idle => life' \in Lives
  BY DEF Idle, Steps
<1>3. ASSUME NEW c \in Collections, NEW f \in Files, Drop(c, f)
      PROVE  dir' \in [Collections -> Placings]
  <2>1. dir[c] \in Placings /\ dir[c].files \ {f} \in SUBSET Files
    OBVIOUS
  <2>2. QED
    BY <1>3, <2>1 DEF Drop
<1>4. \A c \in Collections : Gone(c) => dir' \in [Collections -> Placings]
  BY DEF Gone
<1>5. \A c \in Collections, f \in Files :
        dir' = [dir EXCEPT ![c].files = @ \cup {f}] => dir' \in [Collections -> Placings]
  OBVIOUS
<1>6. \A c \in Collections, p \in {"task", "trash"} :
        dir' = [dir EXCEPT ![c].place = p] => dir' \in [Collections -> Placings]
  OBVIOUS
<1>7. \A s \in Services : \A c \in Collections \cup {0} :
        service' = [service EXCEPT ![s].col = c] => service' \in [Services -> Serves]
  OBVIOUS
<1>8. \A s \in Services :
        service' = [service EXCEPT ![s] = Off] => service' \in [Services -> Serves]
  BY DEF Off
<1>9. \A d \in Deleters :
        deleter' = [deleter EXCEPT ![d] = Free] => deleter' \in [Deleters -> Deletes]
  BY DEF Free
<1>10. QED
  BY <1>1, <1>2, <1>3, <1>4, <1>5, <1>6, <1>7, <1>8, <1>9

\* The collection inside its life is one of them.
LEMMA ColTyped ==
  ASSUME TypeOK, Latest, life.pc # "idle"
  PROVE  Col \in Collections /\ Col = issued
BY DEF TypeOK, Latest, Col

\* A number is chosen above those of the siblings, and below the count of the starts.
LEMMA NumberTyped ==
  ASSUME TypeOK, Latest, Bounded, life.pc # "idle"
  PROVE  /\ NextIndex(life.seen) \in Nat /\ NextIndex(life.seen) < Col
         /\ \A k \in life.seen : k < NextIndex(life.seen)
<1>1. Col \in Collections /\ life.seen \in SUBSET Nat
  BY ColTyped DEF TypeOK
<1>2. PICK b \in Nat : Col = b + 1
  BY <1>1, StorageAssumption DEF Collections
<1>3. \A k \in life.seen : k < b
  BY <1>1, <1>2 DEF Bounded
<1>4. /\ NextIndex(life.seen) \in Nat /\ NextIndex(life.seen) <= b
      /\ \A k \in life.seen : k < NextIndex(life.seen)
  BY <1>1, <1>3, NextIndexIs
<1>5. QED
  BY <1>2, <1>4

\* Every step keeps the types.
LEMMA TypesNext ==
  ASSUME IInv, Next
  PROVE  TypeOK'
<1>1. TypeOK /\ Latest /\ Bounded /\ Cleans /\ Locked
  BY DEF IInv
<1>2. Files = {"marker", "bag", "session"}
  BY DEF Files
<1>3. ASSUME NEW s \in Services,
             Acquire(s) \/ Release(s) \/ CleanNext(s) \/ CleanEnds(s) \/ Crash(s)
      PROVE  TypeOK'
  <2>1. life' \in Lives /\ deleter' \in [Deleters -> Deletes] /\ dir' \in [Collections -> Placings]
        /\ taskDirs' \subseteq Tasks /\ issued' \in 0 .. MaxCollections
    BY <1>1, <1>3, TypesAre, FieldsTyped
    DEF Acquire, Release, CleanNext, CleanEnds, Crash, Deletes, Free
  <2>2. starts' \in 0 .. MaxStarts /\ lock' \in Services \cup {NoService}
    BY <1>1, <1>3, StorageAssumption
    DEF Acquire, Release, CleanNext, CleanEnds, Crash, TypeOK, LockHeld
  <2>3. service' \in [Services -> Serves]
    BY <1>1, <1>3, TypesAre DEF Acquire, Release, CleanNext, CleanEnds, Crash, Serves, Off
  <2>4. QED
    BY <2>1, <2>2, <2>3, TypesThen
<1>4. ASSUME NEW s \in Services, CleanFile(s) \/ CleanGone(s)
      PROVE  TypeOK'
  <2>1. service[s].col \in Collections
    BY <1>1, <1>4 DEF CleanFile, CleanGone, TypeOK
  <2>2. dir[service[s].col].files \subseteq Files
    BY <1>1, <2>1 DEF TypeOK
  <2>3. dir' \in [Collections -> Placings]
    BY <1>1, <1>4, <2>1, <2>2, FieldsTyped DEF CleanFile, CleanGone
  <2>4. service' \in [Services -> Serves]
    BY <1>1, <1>4, TypesAre, FieldsTyped DEF CleanFile, CleanGone
  <2>5. UNCHANGED <<lock, life, deleter, taskDirs, issued, starts>>
    BY <1>4 DEF CleanFile, CleanGone
  <2>6. QED
    BY <1>1, <2>3, <2>4, <2>5, TypesAre, TypesThen
<1>5. ASSUME NEW t \in Tasks, Start(t)
      PROVE  TypeOK'
  <2>1. issued + 1 \in Collections /\ issued' \in 0 .. MaxCollections
    BY <1>1, <1>5, StorageAssumption DEF Start, TypeOK, Collections
  <2>2. life' \in Lives
    BY <1>5, <2>1 DEF Start, Lives, Follows, Steps
  <2>3. dir' \in [Collections -> Placings]
    BY <1>1, <1>5, <2>1, TypesAre DEF Start, Placings
  <2>4. QED
    BY <1>1, <1>5, <2>1, <2>2, <2>3, TypesAre, TypesThen DEF Start
<1>6. CASE Look \/ List("task") \/ List("trash")
  <2>1. life' \in Lives
    <3>1. Follows("look") \in Steps /\ Follows("task") \in Steps /\ Follows("trash") \in Steps
      BY DEF Follows, Steps
    <3>2. Col \in Collections
      BY <1>1, <1>6, ColTyped DEF Look, List, At
    <3>3. ASSUME NEW p PROVE Numbers(p) \subseteq Nat
      BY <1>1, <3>2 DEF Numbers, In, TypeOK
    <3>4. CASE Look
      BY <1>1, <3>1, <3>4, FieldsTyped DEF Look
    <3>5. ASSUME NEW p \in {"task", "trash"}, List(p)
          PROVE  life' \in Lives
      BY <1>1, <3>1, <3>3, <3>5, FieldsTyped, TypesAre DEF List, Lives
    <3>6. QED
      BY <1>6, <3>4, <3>5
  <2>2. UNCHANGED <<lock, service, deleter, dir, taskDirs, issued, starts>>
    BY <1>6 DEF Look, List
  <2>3. QED
    BY <1>1, <2>1, <2>2, TypesAre, TypesThen
<1>7. CASE Create \/ Mark \/ Fill \/ RemoveFile \/ RemoveEnds \/ Rename \/ Unmark
  <2>1. Col \in Collections
    BY <1>1, <1>7, ColTyped DEF Create, Mark, Fill, RemoveFile, RemoveEnds, Rename, Unmark, At
  <2>2. dir[Col].files \subseteq Files
    BY <1>1, <2>1 DEF TypeOK
  <2>3. life' \in Lives
    BY <1>1, <1>7, TypesAre, FieldsTyped
    DEF Create, Mark, Fill, RemoveFile, RemoveEnds, Rename, Unmark, Steps
  <2>4. dir' \in [Collections -> Placings]
    <3>1. CASE Create
      <4>1. NextIndex(life.seen) \in Nat
        BY <1>1, <3>1, NumberTyped DEF Create, At
      <4>2. QED
        BY <1>1, <2>1, <3>1, <4>1, TypesAre DEF Create, Placings
    <3>2. CASE Mark \/ Fill \/ Rename
      BY <1>1, <1>2, <2>1, <3>2, TypesAre, FieldsTyped DEF Mark, Fill, Rename
    <3>3. CASE RemoveFile \/ RemoveEnds \/ Unmark
      BY <1>1, <1>2, <2>1, <2>2, <3>3, TypesAre, FieldsTyped DEF RemoveFile, RemoveEnds, Unmark
    <3>4. QED
      BY <1>7, <3>1, <3>2, <3>3
  <2>5. UNCHANGED <<lock, service, deleter, taskDirs, issued, starts>>
    BY <1>7 DEF Create, Mark, Fill, RemoveFile, RemoveEnds, Rename, Unmark
  <2>6. QED
    BY <1>1, <2>3, <2>4, <2>5, TypesAre, TypesThen
<1>8. CASE DiscardStart \/ DiscardCancel \/ CheckOwned \/ MakeTaskDir
  <2>1. life' \in Lives
    BY <1>1, <1>8, FieldsTyped DEF DiscardStart, DiscardCancel, CheckOwned, MakeTaskDir, Steps
  <2>2. taskDirs' \subseteq Tasks
    <3>1. CASE MakeTaskDir
      <4>1. Col \in Collections
        BY <1>1, <3>1, ColTyped DEF MakeTaskDir, At
      <4>2. dir[Col].task \in Tasks
        <5>1. Col = issued /\ issued \in Nat /\ ~(Col > issued)
          BY <1>1, <3>1, <4>1, ColTyped DEF MakeTaskDir, At, TypeOK
        <5>2. QED
          BY <1>1, <4>1, <5>1 DEF Latest
      <4>3. QED
        BY <1>1, <3>1, <4>2 DEF MakeTaskDir, TypeOK
    <3>2. CASE ~MakeTaskDir
      BY <1>1, <1>8, <3>2 DEF DiscardStart, DiscardCancel, CheckOwned, TypeOK
    <3>3. QED
      BY <3>1, <3>2
  <2>3. UNCHANGED <<lock, service, deleter, dir, issued, starts>>
    BY <1>8 DEF DiscardStart, DiscardCancel, CheckOwned, MakeTaskDir
  <2>4. QED
    BY <1>1, <2>1, <2>2, <2>3, TypesAre, TypesThen
<1>9. ASSUME NEW d \in Deleters, Find(d) \/ MoveToTrash(d) \/ RemoveTaskDir(d)
      PROVE  TypeOK'
  <2>1. deleter[d].pc # "idle" => deleter[d].col \in Collections
    BY <1>1 DEF Locked
  <2>2. deleter' \in [Deleters -> Deletes]
    BY <1>1, <1>9, TypesAre, FieldsTyped DEF Find, MoveToTrash, RemoveTaskDir, Deletes, In
  <2>3. dir' \in [Collections -> Placings]
    BY <1>1, <1>9, <2>1, TypesAre, FieldsTyped DEF Find, MoveToTrash, RemoveTaskDir
  <2>4. taskDirs' \subseteq Tasks
    BY <1>1, <1>9 DEF Find, MoveToTrash, RemoveTaskDir, TypeOK
  <2>5. UNCHANGED <<lock, service, life, issued, starts>>
    BY <1>9 DEF Find, MoveToTrash, RemoveTaskDir
  <2>6. QED
    BY <1>1, <2>2, <2>3, <2>4, <2>5, TypesAre, TypesThen
<1>10. QED
  BY <1>3, <1>4, <1>5, <1>6, <1>7, <1>8, <1>9 DEF Next, Life

-----------------------------------------------------------------------------
(* Every step keeps the lock, and the life of one collection *)

\* While one service is not off, the others are; nothing runs unless it is up.
LEMMA OneService ==
  ASSUME Locked, NEW s \in Services, service[s].pc # "off"
  PROVE  /\ lock = s /\ lock # NoService
         /\ \A r \in Services \ {s} : service[r].pc = "off"
         /\ service[s].pc # "up" =>
              ~Up /\ life.pc = "idle" /\ \A d \in Deleters : deleter[d] = Free
<1>1. lock = s /\ \A r \in Services \ {s} : service[r].pc = "off"
  BY DEF Locked
<1>2. service[s].pc # "up" => ~Up
  BY <1>1 DEF Up
<1>3. QED
  BY <1>1, <1>2, StorageAssumption DEF Locked

\* The steps of a life and of a deletion leave the services alone and run in one that is up.
LEMMA LifeIs ==
  ASSUME Locked, Life
  PROVE  UNCHANGED <<lock, service, deleter, starts>> /\ Up
<1>1. UNCHANGED <<lock, service, deleter, starts>>
  BY DEF Life, Start, Look, List, Create, Mark, Fill, DiscardStart, DiscardCancel, RemoveFile,
     RemoveEnds, CheckOwned, MakeTaskDir, Rename, Unmark
<1>2. Up \/ life.pc # "idle"
  BY DEF Life, Start, Look, List, Create, Mark, Fill, DiscardStart, DiscardCancel, RemoveFile,
     RemoveEnds, CheckOwned, MakeTaskDir, Rename, Unmark, At
<1>3. QED
  BY <1>1, <1>2 DEF Locked

\* A step of a deletion runs in a service that is up, and is about a collection.
LEMMA DeleterIs ==
  ASSUME TypeOK, Locked, NEW d \in Deleters, Find(d) \/ MoveToTrash(d) \/ RemoveTaskDir(d)
  PROVE  /\ UNCHANGED <<lock, service, life, issued, starts>> /\ Up
         /\ \A e \in Deleters \ {d} : deleter'[e] = deleter[e]
         /\ deleter'[d].pc # "idle" => deleter'[d].col \in Collections
<1>1. UNCHANGED <<lock, service, life, issued, starts>>
  BY DEF Find, MoveToTrash, RemoveTaskDir
<1>2. Up
  <2>1. Up \/ deleter[d] # Free
    BY DEF Find, MoveToTrash, RemoveTaskDir, Free
  <2>2. QED
    BY <2>1 DEF Locked
<1>3. CASE Find(d)
  BY <1>1, <1>2, <1>3 DEF Find, In, TypeOK
<1>4. CASE MoveToTrash(d)
  <2>1. deleter[d].col \in Collections
    BY <1>4 DEF MoveToTrash, Locked
  <2>2. QED
    BY <1>1, <1>2, <1>4, <2>1 DEF MoveToTrash, TypeOK, Free
<1>5. CASE RemoveTaskDir(d)
  BY <1>1, <1>2, <1>5 DEF RemoveTaskDir, TypeOK, Free
<1>6. QED
  BY <1>3, <1>4, <1>5

\* Every step keeps the lock with the one service that is not off.
LEMMA LockedNext ==
  ASSUME IInv, Next
  PROVE  Locked'
<1>1. TypeOK /\ Locked
  BY DEF IInv
<1>2. ASSUME NEW s \in Services, Acquire(s)
      PROVE  Locked'
  <2>1. \A r \in Services : service[r].pc = "off"
    BY <1>1, <1>2, StorageAssumption DEF Acquire, Locked
  <2>2. life.pc = "idle" /\ \A d \in Deleters : deleter[d] = Free
    BY <1>1, <2>1 DEF Locked, Up
  <2>3. \A r \in Services : service'[r].pc # "off" => r = s
    BY <1>1, <1>2, <2>1 DEF Acquire, TypeOK
  <2>4. QED
    BY <1>2, <2>2, <2>3 DEF Acquire, Locked, Free
<1>3. ASSUME NEW s \in Services,
             Release(s) \/ Crash(s) \/ CleanNext(s) \/ CleanFile(s) \/ CleanGone(s) \/ CleanEnds(s)
      PROVE  Locked'
  <2>1. service[s].pc # "off"
    BY <1>3 DEF Release, Crash, CleanNext, CleanFile, CleanGone, CleanEnds
  <2>2. /\ lock = s /\ lock # NoService /\ \A r \in Services \ {s} : service[r].pc = "off"
        /\ service[s].pc # "up" => life.pc = "idle" /\ \A d \in Deleters : deleter[d] = Free
    BY <1>1, <2>1, OneService
  <2>3. /\ life'.pc = "idle" /\ \A d \in Deleters : deleter'[d] = Free
    BY <1>3, <2>2 DEF Release, AtRest, Crash, CleanNext, CleanFile, CleanGone, CleanEnds, Idle
  <2>4. \A r \in Services \ {s} : service'[r].pc = "off"
    BY <1>1, <1>3, <2>2
    DEF Release, Crash, CleanNext, CleanFile, CleanGone, CleanEnds, TypeOK
  <2>5. service'[s].pc # "off" => lock' = s
    <3>1. CASE Release(s) \/ CleanNext(s) \/ CleanFile(s) \/ CleanGone(s)
      BY <2>2, <3>1 DEF Release, LockHeld, CleanNext, CleanFile, CleanGone
    <3>2. CASE Crash(s)
      BY <1>1, <3>2 DEF Crash, Off, TypeOK
    <3>3. CASE CleanEnds(s)
      BY <1>1, <2>2, <3>3 DEF CleanEnds, Off, TypeOK
    <3>4. QED
      BY <1>3, <3>1, <3>2, <3>3
  <2>6. QED
    BY <2>3, <2>4, <2>5 DEF Locked, Free
<1>4. CASE Life
  BY <1>1, <1>4, LifeIs DEF Locked, Up
<1>5. ASSUME NEW d \in Deleters, Find(d) \/ MoveToTrash(d) \/ RemoveTaskDir(d)
      PROVE  Locked'
  BY <1>1, <1>5, DeleterIs DEF Locked, Up
<1>6. QED
  BY <1>2, <1>3, <1>4, <1>5 DEF Next

-----------------------------------------------------------------------------
(* What the steps of a service, of a deletion and of a life do to the directories *)

\* A file or a directory that goes leaves the rest alone.
LEMMA TakenIs ==
  ASSUME TypeOK, NEW x \in Collections, NEW f, Drop(x, f) \/ Gone(x)
  PROVE  /\ \A c \in Collections \ {x} : dir'[c] = dir[c]
         /\ Drop(x, f) => dir'[x] = [dir[x] EXCEPT !.files = dir[x].files \ {f}]
         /\ Gone(x) => dir'[x] = [dir[x] EXCEPT !.place = "gone"]
         /\ dir'[x].task = dir[x].task /\ dir'[x].number = dir[x].number
<1>1. Drop(x, f) => dir'[x] = [dir[x] EXCEPT !.files = dir[x].files \ {f}]
  BY DEF Drop, TypeOK
<1>2. Gone(x) => dir'[x] = [dir[x] EXCEPT !.place = "gone"]
  BY DEF Gone, TypeOK
<1>3. \A c \in Collections \ {x} : dir'[c] = dir[c]
  BY DEF Drop, Gone, TypeOK
<1>4. dir'[x].task = dir[x].task /\ dir'[x].number = dir[x].number
  BY <1>1, <1>2 DEF TypeOK
<1>5. QED
  BY <1>1, <1>2, <1>3, <1>4

\* A service takes files and directories from the staging area alone, and only while no
\* collection is inside its life; it can end that life and the deletions.
LEMMA ServiceIs ==
  ASSUME TypeOK, Locked, Cleans, NEW s \in Services,
         Acquire(s) \/ Release(s) \/ Crash(s)
         \/ CleanNext(s) \/ CleanFile(s) \/ CleanGone(s) \/ CleanEnds(s)
  PROVE  /\ UNCHANGED <<taskDirs, issued>>
         /\ \A d \in Deleters : deleter'[d] = deleter[d] \/ deleter'[d] = Free
         /\ life' = Idle \/ (life' = life /\ (dir' = dir \/ life.pc = "idle"))
         /\ \A c \in Collections :
              /\ dir'[c].task = dir[c].task /\ dir'[c].number = dir[c].number
              /\ dir'[c] = dir[c]
                 \/ (dir[c].place = "staging" /\ dir'[c].place \in {"staging", "gone"})
<1>1. CASE Acquire(s) \/ Release(s) \/ Crash(s) \/ CleanNext(s) \/ CleanEnds(s)
  <2>1. UNCHANGED <<dir, taskDirs, issued>>
    BY <1>1 DEF Acquire, Release, Crash, CleanNext, CleanEnds
  <2>2. \A d \in Deleters : deleter'[d] = deleter[d] \/ deleter'[d] = Free
    BY <1>1 DEF Acquire, Release, Crash, CleanNext, CleanEnds
  <2>3. life' = Idle \/ life' = life
    BY <1>1 DEF Acquire, Release, Crash, CleanNext, CleanEnds
  <2>4. QED
    BY <2>1, <2>2, <2>3
<1>2. CASE CleanFile(s) \/ CleanGone(s)
  <2>1. /\ service[s].col \in Collections /\ dir[service[s].col].place = "staging"
        /\ service[s].pc = "clean"
    BY <1>2 DEF CleanFile, CleanGone, Cleans, TypeOK
  <2>2. life.pc = "idle"
    BY <2>1, OneService
  <2>3. PICK f \in Files : Drop(service[s].col, f) \/ Gone(service[s].col)
    BY <1>2, <2>1 DEF CleanFile, CleanGone, TypeOK, Files
  <2>4. \A c \in Collections :
          /\ dir'[c].task = dir[c].task /\ dir'[c].number = dir[c].number
          /\ dir'[c] = dir[c] \/ (dir[c].place = "staging" /\ dir'[c].place \in {"staging", "gone"})
    <3> SUFFICES ASSUME NEW c \in Collections
                 PROVE  /\ dir'[c].task = dir[c].task /\ dir'[c].number = dir[c].number
                        /\ dir'[c] = dir[c]
                           \/ (dir[c].place = "staging" /\ dir'[c].place \in {"staging", "gone"})
      OBVIOUS
    <3>1. CASE c = service[s].col
      <4>1. /\ dir'[c].task = dir[c].task /\ dir'[c].number = dir[c].number
            /\ \/ dir'[c] = [dir[c] EXCEPT !.files = dir[c].files \ {f}]
               \/ dir'[c] = [dir[c] EXCEPT !.place = "gone"]
        BY <2>1, <2>3, <3>1, TakenIs
      <4>2. QED
        BY <2>1, <3>1, <4>1 DEF TypeOK
    <3>2. CASE c # service[s].col
      BY <2>1, <2>3, <3>2, TakenIs
    <3>3. QED
      BY <3>1, <3>2
  <2>5. UNCHANGED <<life, deleter, taskDirs, issued>>
    BY <1>2 DEF CleanFile, CleanGone
  <2>6. QED
    BY <2>2, <2>4, <2>5
<1>3. QED
  BY <1>1, <1>2

\* A deletion moves one record of another collection to the recycle area.
LEMMA DeleteIs ==
  ASSUME TypeOK, Locked, Placed, NEW d \in Deleters,
         Find(d) \/ MoveToTrash(d) \/ RemoveTaskDir(d)
  PROVE  /\ UNCHANGED <<life, issued>>
         /\ \A c \in Collections :
              /\ dir'[c].task = dir[c].task /\ dir'[c].number = dir[c].number
              /\ dir'[c].files = dir[c].files
              /\ \/ dir'[c] = dir[c]
                 \/ dir[c].place = "task" /\ dir'[c].place = "trash" /\ c # Col
         /\ \A e \in Deleters : deleter'[e].pc # "idle" =>
              /\ deleter'[e].col # Col /\ deleter'[e].col \in Collections
              /\ dir[deleter'[e].col].place \in {"task", "trash"}
         /\ \A t \in taskDirs \ taskDirs' : \A c \in Collections :
              dir[c].place = "task" => dir[c].task # t
         /\ taskDirs' = taskDirs \/ dir' = dir
<1>1. UNCHANGED <<life, issued>>
  BY DEF Find, MoveToTrash, RemoveTaskDir
<1>2. \A e \in Deleters : deleter[e].pc # "idle" =>
        /\ deleter[e].col # Col /\ deleter[e].col \in Collections
        /\ dir[deleter[e].col].place \in {"task", "trash"}
  BY DEF Locked, Placed
<1>3. CASE Find(d)
  <2>1. PICK c \in Collections \ {Col} :
          /\ dir[c].place = "task"
          /\ deleter' = [deleter EXCEPT ![d] = [pc |-> "move", col |-> c]]
    BY <1>3 DEF Find, In
  <2>2. \A e \in Deleters : deleter'[e] = IF e = d THEN [pc |-> "move", col |-> c] ELSE deleter[e]
    BY <2>1 DEF TypeOK
  <2>3. UNCHANGED <<dir, taskDirs>>
    BY <1>3 DEF Find
  <2>4. QED
    BY <1>1, <1>2, <2>1, <2>2, <2>3
<1>4. CASE MoveToTrash(d)
  <2>1. deleter[d].col \in Collections \ {Col} /\ UNCHANGED taskDirs
    BY <1>2, <1>4 DEF MoveToTrash
  <2>2. \A e \in Deleters : deleter'[e].pc # "idle" =>
          deleter[e].pc # "idle" /\ deleter'[e].col = deleter[e].col
    BY <1>4 DEF MoveToTrash, Free, TypeOK
  <2>3. ASSUME NEW c \in Collections
        PROVE  /\ dir'[c].task = dir[c].task /\ dir'[c].number = dir[c].number
               /\ dir'[c].files = dir[c].files
               /\ \/ dir'[c] = dir[c]
                  \/ dir[c].place = "task" /\ dir'[c].place = "trash" /\ c # Col
    <3>1. \/ dir' = dir
          \/ /\ dir[deleter[d].col].place = "task"
             /\ dir' = [dir EXCEPT ![deleter[d].col].place = "trash"]
      BY <1>4 DEF MoveToTrash
    <3>2. CASE c = deleter[d].col
      BY <2>1, <3>1, <3>2 DEF TypeOK
    <3>3. CASE c # deleter[d].col
      BY <2>1, <3>1, <3>3 DEF TypeOK
    <3>4. QED
      BY <3>2, <3>3
  <2>4. QED
    BY <1>1, <1>2, <2>1, <2>2, <2>3
<1>5. CASE RemoveTaskDir(d)
  <2>1. \A e \in Deleters : deleter'[e].pc # "idle" =>
          deleter[e].pc # "idle" /\ deleter'[e].col = deleter[e].col
    BY <1>5 DEF RemoveTaskDir, Free, TypeOK
  <2>2. \A t \in taskDirs \ taskDirs' : \A c \in Collections :
          dir[c].place = "task" => dir[c].task # t
    BY <1>5 DEF RemoveTaskDir, In
  <2>3. dir' = dir
    BY <1>5 DEF RemoveTaskDir
  <2>4. QED
    BY <1>1, <1>2, <2>1, <2>2, <2>3
<1>6. QED
  BY <1>3, <1>4, <1>5

\* The steps of a life that has begun.
Goes == \/ Look \/ List("task") \/ List("trash") \/ Create \/ Mark \/ Fill
        \/ DiscardStart \/ DiscardCancel \/ RemoveFile \/ RemoveEnds
        \/ CheckOwned \/ MakeTaskDir \/ Rename \/ Unmark

\* They touch the directory of its collection alone, and keep its task.
LEMMA GoesIs ==
  ASSUME TypeOK, Latest, Goes
  PROVE  /\ life.pc # "idle" /\ Col \in Collections /\ Col = issued
         /\ UNCHANGED <<lock, service, deleter, starts, issued>> /\ taskDirs \subseteq taskDirs'
         /\ life' = Idle \/ (life'.pc # "idle" /\ life'.col = Col)
         /\ \A c \in Collections : dir'[c].task = dir[c].task
         /\ \A c \in Collections \ {Col} : dir'[c] = dir[c]
<1>1. life.pc # "idle"
  BY DEF Goes, Look, List, Create, Mark, Fill, DiscardStart, DiscardCancel, RemoveFile,
     RemoveEnds, CheckOwned, MakeTaskDir, Rename, Unmark, At
<1>2. Col \in Collections /\ Col = issued
  BY <1>1, ColTyped
<1>3. UNCHANGED <<lock, service, deleter, starts, issued>> /\ taskDirs \subseteq taskDirs'
  BY DEF Goes, Look, List, Create, Mark, Fill, DiscardStart, DiscardCancel, RemoveFile,
     RemoveEnds, CheckOwned, MakeTaskDir, Rename, Unmark
<1>4. life' = Idle \/ (life'.pc # "idle" /\ life'.col = Col)
  <2>1. CASE Look \/ List("task") \/ List("trash")
    BY <1>1, <2>1 DEF Look, List, Goto, Follows, Col, TypeOK
  <2>2. CASE Create \/ Mark \/ Fill \/ DiscardStart \/ DiscardCancel \/ RemoveFile \/ RemoveEnds
    BY <1>1, <2>2 DEF Create, Mark, Fill, DiscardStart, DiscardCancel, RemoveFile, RemoveEnds,
       Goto, Col, TypeOK
  <2>3. CASE CheckOwned \/ MakeTaskDir \/ Rename \/ Unmark
    BY <1>1, <2>3 DEF CheckOwned, MakeTaskDir, Rename, Unmark, Goto, Col, TypeOK
  <2>4. QED
    BY <2>1, <2>2, <2>3 DEF Goes
<1>5. /\ \A c \in Collections : dir'[c].task = dir[c].task
      /\ \A c \in Collections \ {Col} : dir'[c] = dir[c]
  <2>1. CASE Create
    BY <1>2, <2>1 DEF Create, TypeOK
  <2>2. CASE Mark \/ Fill \/ Rename
    BY <1>2, <2>2 DEF Mark, Fill, Rename, TypeOK
  <2>3. CASE RemoveFile \/ RemoveEnds \/ Unmark
    <3>1. UNCHANGED dir \/ \E f : Drop(Col, f) \/ Gone(Col)
      BY <2>3 DEF RemoveFile, RemoveEnds, Unmark
    <3>2. QED
      BY <1>2, <3>1, TakenIs
  <2>4. CASE UNCHANGED dir
    BY <2>4
  <2>5. QED
    BY <2>1, <2>2, <2>3, <2>4
    DEF Goes, Look, List, DiscardStart, DiscardCancel, CheckOwned, MakeTaskDir
<1>6. QED
  BY <1>1, <1>2, <1>3, <1>4, <1>5

\* A start begins the life of the next collection, whose directory does not exist.
LEMMA StartIs ==
  ASSUME TypeOK, Latest, NEW t \in Tasks, Start(t)
  PROVE  /\ issued' \in Collections /\ issued' = issued + 1 /\ dir[issued'].place = "none"
         /\ issued \in Nat /\ issued' # 0
         /\ life'.pc = "look" /\ life'.col = issued' /\ life'.seen = {}
         /\ UNCHANGED <<lock, service, deleter, starts, taskDirs>>
         /\ dir'[issued'].place = "none" /\ dir'[issued'].task = t
         /\ dir'[issued'].number = dir[issued'].number
         /\ \A c \in Collections \ {issued'} : dir'[c] = dir[c]
<1>1. issued + 1 \in Collections /\ issued + 1 > issued /\ issued' = issued + 1
  BY StorageAssumption DEF Start, TypeOK, Collections
<1>2. dir[issued + 1].place = "none"
  BY <1>1 DEF Latest
<1>3. issued' # 0 /\ issued \in Nat
  BY <1>1 DEF Collections, TypeOK
<1>4. life'.pc = "look" /\ life'.col = issued' /\ life'.seen = {}
  BY <1>1 DEF Start, Follows
<1>5. /\ dir'[issued'].place = "none" /\ dir'[issued'].task = t
      /\ dir'[issued'].number = dir[issued'].number
      /\ \A c \in Collections \ {issued'} : dir'[c] = dir[c]
  BY <1>1, <1>2 DEF Start, TypeOK
<1>6. UNCHANGED <<lock, service, deleter, starts, taskDirs>>
  BY DEF Start
<1>7. QED
  BY <1>1, <1>2, <1>3, <1>4, <1>5, <1>6

-----------------------------------------------------------------------------
(* Every step keeps where the directories are *)

\* The four kinds of step.
LEMMA StepIs ==
  ASSUME Next
  PROVE  \/ \E s \in Services : \/ Acquire(s) \/ Release(s) \/ Crash(s)
                                \/ CleanNext(s) \/ CleanFile(s) \/ CleanGone(s) \/ CleanEnds(s)
         \/ \E t \in Tasks : Start(t)
         \/ Goes
         \/ \E d \in Deleters : Find(d) \/ MoveToTrash(d) \/ RemoveTaskDir(d)
BY DEF Next, Life, Goes

\* A start is the only step that begins a life, and numbers it.
LEMMA LatestNext ==
  ASSUME IInv, Next
  PROVE  Latest'
<1>1. TypeOK /\ Locked /\ Cleans /\ Placed /\ Latest
  BY DEF IInv
<1>2. CASE \E s \in Services : \/ Acquire(s) \/ Release(s) \/ Crash(s)
                               \/ CleanNext(s) \/ CleanFile(s) \/ CleanGone(s) \/ CleanEnds(s)
  <2>1. /\ issued' = issued /\ life' \in {life, Idle}
        /\ \A c \in Collections : /\ dir'[c].task = dir[c].task
                                  /\ dir[c].place = "none" => dir'[c].place = "none"
    BY <1>1, <1>2, ServiceIs
  <2>2. QED
    BY <1>1, <2>1 DEF Latest, Col, Idle
<1>3. ASSUME NEW t \in Tasks, Start(t)
      PROVE  Latest'
  <2>1. issued' \in Collections /\ issued' = issued + 1 /\ issued \in Nat /\ issued' # 0
    BY <1>1, <1>3, StartIs
  <2>2. life'.pc # "idle" /\ life'.col = issued'
    BY <1>1, <1>3, StartIs
  <2>3. ASSUME NEW c \in Collections
        PROVE  IF c > issued' THEN dir'[c].place = "none" ELSE dir'[c].task \in Tasks
    <3>1. CASE c = issued'
      <4>1. dir'[c].task = t /\ ~(c > issued')
        BY <1>1, <1>3, <2>1, <3>1, StartIs
      <4>2. QED
        BY <4>1
    <3>2. CASE c # issued'
      <4>1. dir'[c] = dir[c]
        BY <1>1, <1>3, <3>2, StartIs
      <4>2. c > issued' <=> c > issued
        BY <2>1, <3>2 DEF Collections
      <4>3. QED
        BY <1>1, <4>1, <4>2 DEF Latest
    <3>3. QED
      BY <3>1, <3>2
  <2>4. QED
    BY <2>1, <2>2, <2>3 DEF Latest, Col
<1>4. CASE Goes
  <2>1. /\ life.pc # "idle" /\ Col \in Collections /\ Col = issued /\ issued' = issued
        /\ life' = Idle \/ (life'.pc # "idle" /\ life'.col = Col)
        /\ \A c \in Collections : dir'[c].task = dir[c].task
        /\ \A c \in Collections \ {Col} : dir'[c] = dir[c]
    BY <1>1, <1>4, GoesIs
  <2>2. Col # 0 /\ ~(Col > issued)
    BY <2>1 DEF Collections
  <2>3. \A c \in Collections : IF c > issued THEN dir'[c].place = "none" ELSE dir'[c].task \in Tasks
    BY <1>1, <2>1, <2>2 DEF Latest
  <2>4. /\ life'.pc = "idle" <=> life'.col = 0
        /\ life'.col \in {0, issued}
    BY <2>1, <2>2 DEF Idle
  <2>5. QED
    BY <2>1, <2>3, <2>4 DEF Latest, Col
<1>5. CASE \E d \in Deleters : Find(d) \/ MoveToTrash(d) \/ RemoveTaskDir(d)
  <2>1. UNCHANGED <<life, issued>>
    BY <1>1, <1>5, DeleteIs
  <2>2. ASSUME NEW c \in Collections
        PROVE  /\ dir'[c].task = dir[c].task
               /\ dir[c].place = "none" => dir'[c].place = "none"
    BY <1>1, <1>5, DeleteIs
  <2>3. QED
    BY <1>1, <2>1, <2>2 DEF Latest, Col
<1>6. QED
  BY <1>2, <1>3, <1>4, <1>5, StepIs

\* A clean-up excludes every other step.
LEMMA CleansNext ==
  ASSUME IInv, Next
  PROVE  Cleans'
<1>1. TypeOK /\ Locked /\ Cleans /\ Placed /\ Latest
  BY DEF IInv
<1>2. ASSUME NEW s \in Services,
             \/ Acquire(s) \/ Release(s) \/ Crash(s)
             \/ CleanNext(s) \/ CleanFile(s) \/ CleanGone(s) \/ CleanEnds(s)
      PROVE  Cleans'
  <2>1. \A r \in Services \ {s} : service'[r].pc = "off" \/ service'[r] = service[r]
    BY <1>1, <1>2
    DEF Acquire, Release, Crash, CleanNext, CleanFile, CleanGone, CleanEnds, TypeOK
  <2>2. \A r \in Services \ {s} : service[r].pc = "off"
    <3>1. CASE Acquire(s)
      BY <1>1, <3>1, StorageAssumption DEF Acquire, Locked
    <3>2. CASE ~Acquire(s)
      <4>1. service[s].pc # "off"
        BY <1>2, <3>2 DEF Release, Crash, CleanNext, CleanFile, CleanGone, CleanEnds
      <4>2. QED
        BY <1>1, <4>1, OneService
    <3>3. QED
      BY <3>1, <3>2
  <2>3. service'[s].pc = "clean" /\ service'[s].col # 0 => dir'[service'[s].col].place = "staging"
    <3>1. CASE Acquire(s) \/ Release(s) \/ Crash(s) \/ CleanGone(s)
      <4>1. service'[s].pc # "clean" \/ service'[s].col = 0
        BY <1>1, <3>1 DEF Acquire, Release, Crash, CleanGone, TypeOK, Off
      <4>2. QED
        BY <4>1
    <3>2. CASE CleanNext(s)
      <4>1. PICK c \in Collections : Owned(c) /\ service' = [service EXCEPT ![s].col = c]
        BY <3>2 DEF CleanNext
      <4>2. service'[s].col = c /\ dir' = dir /\ dir[c].place = "staging"
        BY <1>1, <3>2, <4>1 DEF CleanNext, Owned, In, TypeOK
      <4>3. QED
        BY <4>2
    <3>3. CASE CleanFile(s)
      <4>1. /\ service[s].pc = "clean" /\ service[s].col \in Collections /\ service' = service
            /\ dir[service[s].col].place = "staging"
        BY <1>1, <3>3 DEF CleanFile, Cleans, TypeOK
      <4>2. PICK f : Drop(service[s].col, f)
        BY <3>3 DEF CleanFile
      <4>3. dir'[service[s].col].place = "staging"
        BY <1>1, <4>1, <4>2 DEF Drop, TypeOK
      <4>4. QED
        BY <4>1, <4>3
    <3>4. CASE CleanEnds(s)
      <4>1. service'[s].pc # "clean"
        BY <1>1, <3>4 DEF CleanEnds, TypeOK, Off
      <4>2. QED
        BY <4>1
    <3>5. QED
      BY <1>2, <3>1, <3>2, <3>3, <3>4
  <2>4. QED
    BY <2>1, <2>2, <2>3 DEF Cleans
<1>3. ASSUME Up, service' = service
      PROVE  Cleans'
  <2>1. PICK r \in Services : service[r].pc = "up"
    BY <1>3 DEF Up
  <2>2. \A s \in Services : service'[s].pc # "clean"
    BY <1>1, <1>3, <2>1, OneService
  <2>3. QED
    BY <2>2 DEF Cleans
<1>4. CASE Life
  BY <1>1, <1>3, <1>4, LifeIs
<1>5. CASE \E d \in Deleters : Find(d) \/ MoveToTrash(d) \/ RemoveTaskDir(d)
  BY <1>1, <1>3, <1>5, DeleterIs
<1>6. QED
  BY <1>2, <1>4, <1>5 DEF Next

\* Where the directory of a life is follows its step.
LEMMA GoesPlaced ==
  ASSUME TypeOK, Latest, Placed, Goes
  PROVE  /\ life'.pc \in {"look", "task", "trash", "create"} => dir'[Col].place = "none"
         /\ life'.pc \in {"mark", "fill", "pending", "undo", "remove", "mkdir", "rename"}
              => dir'[Col].place = "staging"
         /\ life'.pc = "unmark" => dir'[Col].place = "task"
         /\ life'.pc = "error" => dir'[Col].place \in {"staging", "task"}
         /\ life'.pc \in {"pending", "mkdir", "rename"} => Data \subseteq dir'[Col].files
         /\ dir[Col].place \notin {"task", "trash"} =>
              dir'[Col].place \notin {"task", "trash"} \/ Rename
         /\ dir[Col].place \in {"task", "trash"} => dir'[Col].place = dir[Col].place
         /\ dir[Col].files \cap Data \subseteq dir'[Col].files
            \/ life.pc \in {"undo", "remove"}
<1>1. /\ life.pc \in Steps /\ Col \in Collections /\ life.pc # "idle"
      /\ dir[Col].place \in {"none", "staging", "task", "trash", "gone"}
      /\ dir[Col].files \subseteq Files
  BY GoesIs DEF TypeOK
<1>2. Data = {"bag", "session"} /\ Files = {"marker", "bag", "session"}
  BY DEF Data, Files
<1>3. ASSUME NEW pc \in Steps, Goto(pc)
      PROVE  life'.pc = pc
  BY <1>3 DEF Goto, TypeOK
<1>4. Idle.pc = "idle"
  BY DEF Idle
<1>5. CASE Look \/ List("task") \/ List("trash")
  <2>1. UNCHANGED dir /\ life.pc \in {"look", "task", "trash"}
    BY <1>5 DEF Look, List, At
  <2>2. life'.pc \in {"idle", "task", "trash", "create"}
    BY <1>3, <1>4, <1>5 DEF Look, List, At, Follows, Steps, TypeOK
  <2>3. QED
    BY <2>1, <2>2 DEF Placed
<1>6. CASE Create
  <2>1. life.pc = "create"
    BY <1>6 DEF Create, At
  <2>2. \/ dir'[Col].place = "staging" /\ dir'[Col].files = dir[Col].files /\ life'.pc = "mark"
        \/ life'.pc = "idle" /\ UNCHANGED dir
    BY <1>1, <1>3, <1>4, <1>6 DEF Create, Steps, TypeOK
  <2>3. QED
    BY <2>1, <2>2 DEF Placed
<1>7. CASE Mark
  <2>1. life.pc = "mark" /\ life'.pc \in {"fill", "undo"}
    BY <1>3, <1>7 DEF Mark, At, Steps
  <2>2. dir'[Col].place = dir[Col].place /\ dir[Col].files \subseteq dir'[Col].files
    BY <1>1, <1>7 DEF Mark, TypeOK
  <2>3. QED
    BY <2>1, <2>2 DEF Placed
<1>8. CASE Fill
  <2>1. life.pc = "fill"
    BY <1>8 DEF Fill, At
  <2>2. dir'[Col].place = dir[Col].place /\ dir[Col].files \subseteq dir'[Col].files
    BY <1>1, <1>8 DEF Fill, TypeOK
  <2>3. \/ life'.pc = "fill"
        \/ life'.pc = "pending" /\ Data \subseteq dir'[Col].files
    <3>1. CASE UNCHANGED life
      BY <2>1, <3>1
    <3>2. CASE Goto("pending") /\ "bag" \in dir[Col].files
               /\ dir' = [dir EXCEPT ![Col].files = @ \cup {"session"}]
      <4>1. "session" \in dir'[Col].files
        BY <1>1, <3>2 DEF TypeOK
      <4>2. QED
        BY <1>2, <1>3, <2>2, <3>2, <4>1 DEF Steps
    <3>3. QED
      BY <1>8, <3>1, <3>2 DEF Fill
  <2>4. QED
    BY <2>1, <2>2, <2>3 DEF Placed
<1>9. CASE DiscardStart \/ DiscardCancel
  <2>1. UNCHANGED dir
    BY <1>9 DEF DiscardStart, DiscardCancel
  <2>2. /\ life.pc \in {"fill", "pending", "error"}
        /\ \/ life'.pc = "idle"
           \/ life'.pc \in {"undo", "remove", "error"} /\ dir[Col].place = "staging"
    BY <1>3, <1>4, <1>9 DEF DiscardStart, DiscardCancel, Owned, In, At, Steps
  <2>3. QED
    BY <2>1, <2>2
<1>10. CASE RemoveFile
  <2>1. life' = life /\ life.pc \in {"undo", "remove"}
    BY <1>10 DEF RemoveFile, At
  <2>2. PICK f : Drop(Col, f)
    BY <1>10 DEF RemoveFile
  <2>3. dir'[Col].place = dir[Col].place
    BY <1>1, <2>2 DEF Drop, TypeOK
  <2>4. QED
    BY <2>1, <2>3 DEF Placed
<1>11. CASE RemoveEnds
  <2>1. life.pc \in {"undo", "remove"}
    BY <1>11 DEF RemoveEnds, At
  <2>2. \/ Gone(Col) /\ life'.pc = "idle"
        \/ UNCHANGED dir /\ life'.pc \in {"idle", "error"}
    BY <1>3, <1>4, <1>11 DEF RemoveEnds, Steps
  <2>3. Gone(Col) => dir'[Col].place = "gone"
    BY <1>1 DEF Gone, TypeOK
  <2>4. QED
    BY <2>1, <2>2, <2>3 DEF Placed
<1>12. CASE CheckOwned \/ MakeTaskDir
  <2>1. UNCHANGED dir
    BY <1>12 DEF CheckOwned, MakeTaskDir
  <2>2. \/ life.pc = "pending" /\ life'.pc \in {"mkdir", "error"}
        \/ life.pc = "mkdir" /\ life'.pc = "rename"
    BY <1>3, <1>12 DEF CheckOwned, MakeTaskDir, At, Steps
  <2>3. QED
    BY <2>1, <2>2 DEF Placed
<1>13. CASE Rename
  <2>1. /\ life.pc = "rename"
        /\ \/ dir'[Col].place = "task" /\ dir'[Col].files = dir[Col].files /\ life'.pc = "unmark"
           \/ UNCHANGED dir /\ life'.pc = "error"
    BY <1>1, <1>3, <1>13 DEF Rename, At, Steps, TypeOK
  <2>2. QED
    BY <1>13, <2>1 DEF Placed
<1>14. CASE Unmark
  <2>1. /\ life.pc = "unmark"
        /\ \/ Drop(Col, "marker") /\ life'.pc = "idle"
           \/ UNCHANGED dir /\ life'.pc = "error"
    BY <1>3, <1>4, <1>14 DEF Unmark, At, Steps
  <2>2. Drop(Col, "marker") =>
          /\ dir'[Col].place = dir[Col].place
          /\ dir[Col].files \cap Data \subseteq dir'[Col].files
    BY <1>1, <1>2 DEF Drop, TypeOK
  <2>3. QED
    BY <2>1, <2>2 DEF Placed
<1>15. QED
  BY <1>5, <1>6, <1>7, <1>8, <1>9, <1>10, <1>11, <1>12, <1>13, <1>14 DEF Goes

\* Every step keeps the place of the directory inside its life, and a deletion off it.
LEMMA PlacedNext ==
  ASSUME IInv, Next
  PROVE  Placed'
<1>1. TypeOK /\ Locked /\ Cleans /\ Placed /\ Latest
  BY DEF IInv
<1>2. \A d \in Deleters : deleter[d].pc # "idle" =>
        /\ deleter[d].col # Col /\ deleter[d].col \in Collections
        /\ dir[deleter[d].col].place \in {"task", "trash"}
  BY <1>1 DEF Locked, Placed
<1>3. CASE \E s \in Services : \/ Acquire(s) \/ Release(s) \/ Crash(s)
                               \/ CleanNext(s) \/ CleanFile(s) \/ CleanGone(s) \/ CleanEnds(s)
  <2>1. /\ life' = Idle \/ (life' = life /\ (dir' = dir \/ life.pc = "idle"))
        /\ \A d \in Deleters : deleter'[d] = deleter[d] \/ deleter'[d] = Free
        /\ \A c \in Collections : dir'[c] = dir[c] \/ dir[c].place = "staging"
    BY <1>1, <1>3, ServiceIs
  <2>2. \A d \in Deleters : deleter'[d].pc # "idle" =>
          /\ deleter'[d].col # Col /\ deleter'[d].col \in Collections
          /\ dir'[deleter'[d].col].place \in {"task", "trash"}
    BY <1>2, <2>1 DEF Free
  <2>3. Col' \in {Col, 0} /\ 0 \notin Collections
    BY <2>1 DEF Col, Idle, Collections
  <2>4. life'.pc = "idle" \/ (life' = life /\ dir' = dir)
    BY <2>1 DEF Idle
  <2>5. \A d \in Deleters : deleter'[d].pc # "idle" =>
          deleter'[d].col # Col' /\ dir'[deleter'[d].col].place \in {"task", "trash"}
    BY <2>2, <2>3
  <2>6. CASE life'.pc = "idle"
    BY <2>5, <2>6 DEF Placed
  <2>7. CASE life' = life /\ dir' = dir
    BY <1>1, <2>5, <2>7 DEF Placed, Col
  <2>8. QED
    BY <2>4, <2>6, <2>7
<1>4. ASSUME NEW t \in Tasks, Start(t)
      PROVE  Placed'
  <2>1. /\ life'.pc = "look" /\ Col' = issued' /\ dir'[issued'].place = "none"
        /\ deleter' = deleter /\ dir[issued'].place = "none"
        /\ \A c \in Collections \ {issued'} : dir'[c] = dir[c]
    BY <1>1, <1>4, StartIs DEF Col
  <2>2. QED
    BY <1>2, <2>1 DEF Placed
<1>5. CASE Goes
  <2>1. /\ Col \in Collections /\ deleter' = deleter
        /\ life' = Idle \/ (life'.pc # "idle" /\ life'.col = Col)
        /\ \A c \in Collections \ {Col} : dir'[c] = dir[c]
    BY <1>1, <1>5, GoesIs
  <2>2. \A d \in Deleters : deleter'[d].pc # "idle" =>
          deleter'[d].col # Col' /\ dir'[deleter'[d].col].place \in {"task", "trash"}
    BY <1>2, <2>1 DEF Col, Idle, Collections
  <2>3. CASE life' = Idle
    BY <2>2, <2>3 DEF Placed, Idle
  <2>4. CASE life'.col = Col
    BY <1>1, <1>5, <2>2, <2>4, GoesPlaced DEF Placed, Col
  <2>5. QED
    BY <2>1, <2>3, <2>4
<1>6. CASE \E d \in Deleters : Find(d) \/ MoveToTrash(d) \/ RemoveTaskDir(d)
  <2>1. UNCHANGED life /\ Col' = Col /\ \A e \in Deleters : deleter'[e].pc # "idle" =>
          /\ deleter'[e].col # Col /\ deleter'[e].col \in Collections
          /\ dir[deleter'[e].col].place \in {"task", "trash"}
    BY <1>1, <1>6, DeleteIs DEF Col
  <2>2. \A c \in Collections :
          /\ dir'[c].files = dir[c].files
          /\ dir[c].place \in {"task", "trash"} => dir'[c].place \in {"task", "trash"}
          /\ c = Col => dir'[c] = dir[c]
    BY <1>1, <1>6, DeleteIs
  <2>3. life.pc # "idle" => Col \in Collections
    BY <1>1, ColTyped
  <2>4. \A e \in Deleters : deleter'[e].pc # "idle" =>
          deleter'[e].col # Col' /\ dir'[deleter'[e].col].place \in {"task", "trash"}
    BY <2>1, <2>2
  <2>5. life.pc # "idle" => dir'[Col'] = dir[Col]
    BY <2>1, <2>2, <2>3
  <2>6. CASE life.pc = "idle"
    BY <2>1, <2>4, <2>6 DEF Placed
  <2>7. CASE life.pc # "idle"
    BY <1>1, <2>1, <2>4, <2>5, <2>7 DEF Placed
  <2>8. QED
    BY <2>6, <2>7
<1>7. QED
  BY <1>3, <1>4, <1>5, <1>6, StepIs

-----------------------------------------------------------------------------
(* Every step keeps the records *)

\* Only the creation gives a number, and it does so before there is a directory.
LEMMA GoesNumbered ==
  ASSUME TypeOK, Latest, Placed, Goes
  PROVE  \/ dir'[Col].number = dir[Col].number
         \/ Create /\ dir'[Col].number = NextIndex(life.seen) /\ dir[Col].place = "none"
<1>1. Col \in Collections
  BY GoesIs
<1>2. CASE Create
  BY <1>1, <1>2 DEF Create, Placed, At, TypeOK
<1>3. CASE RemoveFile \/ RemoveEnds \/ Unmark
  <2>1. UNCHANGED dir \/ \E f : Drop(Col, f) \/ Gone(Col)
    BY <1>3 DEF RemoveFile, RemoveEnds, Unmark
  <2>2. QED
    BY <1>1, <2>1, TakenIs
<1>4. CASE Mark \/ Fill \/ Rename
  BY <1>1, <1>4 DEF Mark, Fill, Rename, TypeOK
<1>5. CASE UNCHANGED dir
  BY <1>5
<1>6. QED
  BY <1>2, <1>3, <1>4, <1>5
  DEF Goes, Look, List, DiscardStart, DiscardCancel, CheckOwned, MakeTaskDir

\* A rename that makes a record had everything, and the directory of the task.
LEMMA WholeNext ==
  ASSUME IInv, Next
  PROVE  Whole'
<1>1. TypeOK /\ Locked /\ Cleans /\ Placed /\ Latest /\ Whole
  BY DEF IInv
<1>2. CASE \E s \in Services : \/ Acquire(s) \/ Release(s) \/ Crash(s)
                               \/ CleanNext(s) \/ CleanFile(s) \/ CleanGone(s) \/ CleanEnds(s)
  <2>1. /\ taskDirs' = taskDirs
        /\ \A c \in Collections :
             dir'[c] = dir[c] \/ dir'[c].place \in {"staging", "gone"}
    BY <1>1, <1>2, ServiceIs
  <2>2. QED
    BY <1>1, <2>1 DEF Whole, Published
<1>3. ASSUME NEW t \in Tasks, Start(t)
      PROVE  Whole'
  <2>1. /\ dir'[issued'].place = "none" /\ taskDirs' = taskDirs
        /\ \A c \in Collections \ {issued'} : dir'[c] = dir[c]
    BY <1>1, <1>3, StartIs
  <2>2. QED
    BY <1>1, <2>1 DEF Whole, Published
<1>4. CASE Goes
  <2>1. /\ Col \in Collections /\ taskDirs \subseteq taskDirs'
        /\ \A c \in Collections : dir'[c].task = dir[c].task
        /\ \A c \in Collections \ {Col} : dir'[c] = dir[c]
    BY <1>1, <1>4, GoesIs
  <2>2. ASSUME NEW c \in Collections
        PROVE  /\ Published(c)' => Data \subseteq dir'[c].files
               /\ dir'[c].place = "task" => dir'[c].task \in taskDirs'
    <3>1. CASE c # Col
      BY <1>1, <2>1, <3>1 DEF Whole, Published
    <3>2. CASE c = Col /\ dir[Col].place \in {"task", "trash"}
      <4>1. life.pc \notin {"undo", "remove"}
        BY <1>1, <3>2 DEF Placed
      <4>2. dir'[Col].place = dir[Col].place /\ dir[Col].files \cap Data \subseteq dir'[Col].files
        BY <1>1, <1>4, <3>2, <4>1, GoesPlaced
      <4>3. Data \subseteq dir[Col].files
        BY <1>1, <3>2 DEF Whole, Published
      <4>4. QED
        BY <1>1, <2>1, <3>2, <4>2, <4>3 DEF Whole
    <3>3. CASE c = Col /\ dir[Col].place \notin {"task", "trash"} /\ Rename
      <4>1. life.pc = "rename" /\ Data \subseteq dir[Col].files
        BY <1>1, <3>3 DEF Rename, At, Placed
      <4>2. dir[Col].files \cap Data \subseteq dir'[Col].files
        BY <1>1, <1>4, <4>1, GoesPlaced
      <4>3. UNCHANGED dir \/ dir[Col].task \in taskDirs
        BY <3>3 DEF Rename, Exists
      <4>4. QED
        BY <2>1, <3>3, <4>1, <4>2, <4>3 DEF Published
    <3>4. CASE c = Col /\ dir[Col].place \notin {"task", "trash"} /\ ~Rename
      BY <1>1, <1>4, <3>4, GoesPlaced DEF Published
    <3>5. QED
      BY <3>1, <3>2, <3>3, <3>4
  <2>3. QED
    BY <2>2 DEF Whole
<1>5. CASE \E d \in Deleters : Find(d) \/ MoveToTrash(d) \/ RemoveTaskDir(d)
  <2>1. /\ \A c \in Collections :
             /\ dir'[c].task = dir[c].task /\ dir'[c].files = dir[c].files
             /\ \/ dir'[c] = dir[c]
                \/ dir[c].place = "task" /\ dir'[c].place = "trash"
        /\ \A t \in taskDirs \ taskDirs' : \A c \in Collections :
             dir[c].place = "task" => dir[c].task # t
    BY <1>1, <1>5, DeleteIs
  <2>2. QED
    BY <1>1, <2>1 DEF Whole, Published
<1>6. QED
  BY <1>2, <1>3, <1>4, <1>5, StepIs

\* What the numbers that a life has seen become.
LEMMA GoesSeen ==
  ASSUME TypeOK, Latest, Goes
  PROVE  \/ life'.seen \in {life.seen, {}}
         \/ \E p \in {"task", "trash"} : List(p) /\ life'.seen = life.seen \cup Numbers(p)
<1>1. CASE Look
  BY <1>1 DEF Look, Goto, TypeOK
<1>2. ASSUME NEW p \in {"task", "trash"}, List(p)
      PROVE  life'.seen = {} \/ life'.seen = life.seen \cup Numbers(p)
  BY <1>2 DEF List, Idle, TypeOK
<1>3. CASE Create \/ Mark \/ Fill \/ DiscardStart \/ DiscardCancel \/ RemoveFile \/ RemoveEnds
           \/ CheckOwned \/ MakeTaskDir \/ Rename \/ Unmark
  BY <1>3 DEF Create, Mark, Fill, DiscardStart, DiscardCancel, RemoveFile, RemoveEnds,
     CheckOwned, MakeTaskDir, Rename, Unmark, Goto, Idle, TypeOK
<1>4. QED
  BY <1>1, <1>2, <1>3 DEF Goes

\* The numbers stay below the count of the starts.
LEMMA BoundedNext ==
  ASSUME IInv, Next
  PROVE  Bounded'
<1>1. TypeOK /\ Locked /\ Cleans /\ Placed /\ Latest /\ Bounded
  BY DEF IInv
<1>2. CASE \E s \in Services : \/ Acquire(s) \/ Release(s) \/ Crash(s)
                               \/ CleanNext(s) \/ CleanFile(s) \/ CleanGone(s) \/ CleanEnds(s)
  <2>1. /\ life' = Idle \/ life' = life
        /\ \A c \in Collections : dir'[c].number = dir[c].number
    BY <1>1, <1>2, ServiceIs
  <2>2. QED
    BY <1>1, <2>1 DEF Bounded, Col, Idle
<1>3. ASSUME NEW t \in Tasks, Start(t)
      PROVE  Bounded'
  <2>1. life'.seen = {} /\ dir'[issued'].number = dir[issued'].number
    BY <1>1, <1>3, StartIs
  <2>2. \A c \in Collections \ {issued'} : dir'[c] = dir[c]
    BY <1>1, <1>3, StartIs
  <2>3. QED
    BY <1>1, <2>1, <2>2 DEF Bounded
<1>4. CASE Goes
  <2>1. /\ Col \in Collections /\ Col = issued /\ life.pc # "idle"
        /\ life' = Idle \/ (life'.pc # "idle" /\ life'.col = Col)
        /\ \A c \in Collections \ {Col} : dir'[c] = dir[c]
    BY <1>1, <1>4, GoesIs
  <2>2. dir'[Col].number < Col
    BY <1>1, <1>4, <2>1, GoesNumbered, NumberTyped DEF Bounded
  <2>3. ASSUME NEW p \in {"task", "trash"}, List(p), NEW n \in Numbers(p)
        PROVE  n + 1 < Col
    <3>1. PICK c \in Collections : dir[c].place = p /\ n = dir[c].number
      BY <2>3 DEF Numbers, In
    <3>2. dir[Col].place = "none"
      BY <1>1, <2>3 DEF List, At, Placed
    <3>3. c # Col /\ ~(c > issued)
      BY <1>1, <3>1, <3>2 DEF Latest
    <3>4. c \in Nat /\ Col \in Nat /\ n \in Nat /\ n < c
      BY <1>1, <2>1, <3>1, StorageAssumption DEF Bounded, Collections, TypeOK
    <3>5. c < Col
      BY <2>1, <3>3, <3>4
    <3>6. QED
      BY <3>4, <3>5
  <2>4. \A n \in life'.seen : n + 1 < Col
    BY <1>1, <1>4, <2>3, GoesSeen DEF Bounded
  <2>5. \A c \in Collections : dir'[c].number < c
    BY <1>1, <2>1, <2>2 DEF Bounded
  <2>6. life'.seen = {} \/ Col' = Col
    BY <2>1 DEF Col, Idle
  <2>7. QED
    BY <2>4, <2>5, <2>6 DEF Bounded
<1>5. CASE \E d \in Deleters : Find(d) \/ MoveToTrash(d) \/ RemoveTaskDir(d)
  <2>1. UNCHANGED life /\ \A c \in Collections : dir'[c].number = dir[c].number
    BY <1>1, <1>5, DeleteIs
  <2>2. QED
    BY <1>1, <2>1 DEF Bounded, Col
<1>6. QED
  BY <1>2, <1>3, <1>4, <1>5, StepIs

-----------------------------------------------------------------------------
(* Every step keeps what a life has seen, and the order of the numbers *)

\* A life has seen every sibling when it chooses its number, whatever was deleted between
\* its two listings.
LEMMA SeenNext ==
  ASSUME IInv, Next
  PROVE  Seen'
<1>1. /\ TypeOK /\ Locked /\ Cleans /\ Placed /\ Latest
      /\ Whole /\ Bounded /\ Seen
  BY DEF IInv
<1>2. ASSUME UNCHANGED life,
             \A c \in Collections :
               /\ dir'[c].task = dir[c].task /\ dir'[c].number = dir[c].number
               /\ dir'[c].place = "task" => dir[c].place = "task"
               /\ Published(c)' => Published(c)
      PROVE  Seen'
  <2> SUFFICES ASSUME Col' # 0, NEW c \in Collections, Sibling(c)'
               PROVE  /\ life'.pc = "trash" /\ dir'[c].place = "task"
                           => dir'[c].number \in life'.seen
                      /\ life'.pc = "create" /\ Published(c)' => dir'[c].number \in life'.seen
                      /\ life'.pc \notin {"look", "task", "trash", "create"} /\ Published(c)'
                           => dir'[c].number < dir'[Col'].number
    BY DEF Seen
  <2>1. Col' = Col /\ Col \in Collections
    BY <1>1, <1>2 DEF Col, TypeOK
  <2>2. Sibling(c)
    BY <1>2, <2>1 DEF Sibling
  <2>3. QED
    BY <1>1, <1>2, <2>1, <2>2 DEF Seen
<1>3. CASE \E s \in Services : \/ Acquire(s) \/ Release(s) \/ Crash(s)
                               \/ CleanNext(s) \/ CleanFile(s) \/ CleanGone(s) \/ CleanEnds(s)
  <2>1. /\ life' = Idle \/ life' = life
        /\ \A c \in Collections :
             /\ dir'[c].task = dir[c].task /\ dir'[c].number = dir[c].number
             /\ dir'[c] = dir[c] \/ dir'[c].place \in {"staging", "gone"}
    BY <1>1, <1>3, ServiceIs
  <2>2. CASE life' = Idle
    BY <2>2 DEF Seen, Col, Idle
  <2>3. CASE life' = life
    <3>1. ASSUME NEW c \in Collections
          PROVE  /\ dir'[c].place = "task" => dir[c].place = "task"
                 /\ Published(c)' => Published(c)
      BY <2>1 DEF Published
    <3>2. QED
      BY <1>2, <2>1, <2>3, <3>1
  <2>4. QED
    BY <2>1, <2>2, <2>3
<1>4. ASSUME NEW t \in Tasks, Start(t)
      PROVE  Seen'
  <2>1. life'.pc = "look"
    BY <1>1, <1>4, StartIs
  <2>2. QED
    BY <2>1 DEF Seen
<1>5. ASSUME Goes
      PROVE  Seen'
  <2>1. /\ life.pc # "idle" /\ Col \in Collections
        /\ life' = Idle \/ (life'.pc # "idle" /\ life'.col = Col)
        /\ \A c \in Collections : dir'[c].task = dir[c].task
        /\ \A c \in Collections \ {Col} : dir'[c] = dir[c]
    BY <1>1, <1>5, GoesIs
  <2>2. CASE life' = Idle
    BY <2>2 DEF Seen, Col, Idle
  <2>3. CASE life'.col = Col /\ life' # Idle
    <3> SUFFICES ASSUME NEW c \in Collections, Sibling(c)'
                 PROVE  /\ life'.pc = "trash" /\ dir[c].place = "task"
                             => dir[c].number \in life'.seen
                        /\ life'.pc = "create" /\ Published(c) => dir[c].number \in life'.seen
                        /\ life'.pc \notin {"look", "task", "trash", "create"} /\ Published(c)
                             => dir[c].number < dir'[Col].number
      <4>1. Col' = Col
        BY <2>3 DEF Col
      <4>2. \A c \in Collections : Sibling(c)' => dir'[c] = dir[c]
        BY <2>1, <4>1 DEF Sibling
      <4>3. QED
        BY <4>1, <4>2 DEF Seen, Published
    <3>1. Sibling(c) /\ Col # 0 /\ c # Col /\ dir[c].task = dir[Col].task
      BY <2>1, <2>3 DEF Sibling, Col, Collections
    <3>2. CASE Look
      <4>1. life'.pc = IF Exists THEN "task" ELSE "trash"
        BY <1>1, <3>2 DEF Look, Goto, Follows, TypeOK
      <4>2. dir[c].place = "task" => Exists
        BY <1>1, <3>1 DEF Whole, Exists
      <4>3. QED
        BY <4>1, <4>2
    <3>3. ASSUME NEW p \in {"task", "trash"}, List(p)
          PROVE  /\ life'.pc = Follows(p) /\ life'.seen = life.seen \cup Numbers(p)
                 /\ life.pc = p /\ dir[c].place = p => dir[c].number \in life'.seen
      <4>1. life'.pc = Follows(p) /\ life'.seen = life.seen \cup Numbers(p) /\ life.pc = p
        BY <1>1, <2>3, <3>3 DEF List, At, TypeOK
      <4>2. dir[c].place = p => dir[c].number \in Numbers(p)
        BY <3>1 DEF Numbers, In
      <4>3. QED
        BY <4>1, <4>2
    <3>4. CASE List("task")
      <4>1. life'.pc = "trash" /\ (dir[c].place = "task" => dir[c].number \in life'.seen)
        BY <3>3, <3>4 DEF Follows, List, At
      <4>2. QED
        BY <4>1
    <3>5. CASE List("trash")
      <4>1. /\ life'.pc = "create" /\ life.pc = "trash" /\ life.seen \subseteq life'.seen
            /\ dir[c].place = "trash" => dir[c].number \in life'.seen
        BY <3>3, <3>5 DEF Follows, List, At
      <4>2. dir[c].place = "task" => dir[c].number \in life.seen
        BY <1>1, <3>1, <4>1 DEF Seen
      <4>3. QED
        BY <4>1, <4>2 DEF Published
    <3>6. CASE Create
      <4>1. life.pc = "create" /\ life'.pc = "mark" /\ dir'[Col].number = NextIndex(life.seen)
        BY <1>1, <2>1, <2>3, <3>6 DEF Create, At, Goto, TypeOK
      <4>2. Published(c) => dir[c].number \in life.seen
        BY <1>1, <3>1, <4>1 DEF Seen
      <4>3. QED
        BY <1>1, <2>1, <4>1, <4>2, NumberTyped
    <3>7. CASE Mark \/ Fill \/ DiscardStart \/ DiscardCancel \/ RemoveFile \/ RemoveEnds
               \/ CheckOwned \/ MakeTaskDir \/ Rename \/ Unmark
      <4>1. life.pc \notin {"look", "task", "trash", "create"}
        BY <3>7 DEF Mark, Fill, DiscardStart, DiscardCancel, RemoveFile, RemoveEnds,
           CheckOwned, MakeTaskDir, Rename, Unmark, At
      <4>2. life'.pc \notin {"look", "task", "trash", "create"}
        BY <1>1, <2>3, <3>7, <4>1 DEF Mark, Fill, DiscardStart, DiscardCancel, RemoveFile,
           RemoveEnds, CheckOwned, MakeTaskDir, Rename, Unmark, Goto, TypeOK
      <4>3. dir'[Col].number = dir[Col].number
        <5>1. ~Create
          BY <4>1 DEF Create, At
        <5>2. QED
          BY <1>1, <1>5, <5>1, GoesNumbered
      <4>4. QED
        BY <1>1, <3>1, <4>1, <4>2, <4>3 DEF Seen
    <3>8. QED
      BY <1>5, <3>2, <3>4, <3>5, <3>6, <3>7 DEF Goes
  <2>4. QED
    BY <2>1, <2>2, <2>3
<1>6. CASE \E d \in Deleters : Find(d) \/ MoveToTrash(d) \/ RemoveTaskDir(d)
  <2>1. /\ UNCHANGED life
        /\ \A c \in Collections :
             /\ dir'[c].task = dir[c].task /\ dir'[c].number = dir[c].number
             /\ \/ dir'[c] = dir[c]
                \/ dir[c].place = "task" /\ dir'[c].place = "trash"
    BY <1>1, <1>6, DeleteIs
  <2>2. ASSUME NEW c \in Collections
        PROVE  /\ dir'[c].place = "task" => dir[c].place = "task"
               /\ Published(c)' => Published(c)
    BY <2>1 DEF Published
  <2>3. QED
    BY <1>2, <2>1, <2>2
<1>7. QED
  BY <1>3, <1>4, <1>5, <1>6, StepIs

\* A record comes in with a number above those of its siblings; the others keep theirs.
LEMMA NumbersGrowNext ==
  ASSUME IInv, Next
  PROVE  NumbersGrow'
<1>1. /\ TypeOK /\ Locked /\ Cleans /\ Placed /\ Latest
      /\ Seen /\ NumbersGrow
  BY DEF IInv
<1>2. ASSUME \A c \in Collections : Published(c)' =>
               Published(c) /\ dir'[c].task = dir[c].task /\ dir'[c].number = dir[c].number
      PROVE  NumbersGrow'
  BY <1>1, <1>2 DEF NumbersGrow
<1>3. CASE \E s \in Services : \/ Acquire(s) \/ Release(s) \/ Crash(s)
                               \/ CleanNext(s) \/ CleanFile(s) \/ CleanGone(s) \/ CleanEnds(s)
  <2>1. \A c \in Collections : dir'[c] = dir[c] \/ dir'[c].place \in {"staging", "gone"}
    BY <1>1, <1>3, ServiceIs
  <2>2. QED
    BY <1>2, <2>1 DEF Published
<1>4. ASSUME NEW t \in Tasks, Start(t)
      PROVE  NumbersGrow'
  <2>1. /\ dir'[issued'].place = "none"
        /\ \A c \in Collections \ {issued'} : dir'[c] = dir[c]
    BY <1>1, <1>4, StartIs
  <2>2. QED
    BY <1>2, <2>1 DEF Published
<1>5. CASE Goes
  <2>1. /\ Col \in Collections /\ Col = issued
        /\ \A c \in Collections : dir'[c].task = dir[c].task
        /\ \A c \in Collections \ {Col} : dir'[c] = dir[c]
    BY <1>1, <1>5, GoesIs
  <2>2. CASE dir[Col].place \in {"task", "trash"}
    <3>1. dir'[Col].number = dir[Col].number
      BY <1>1, <1>5, <2>2, GoesNumbered
    <3>2. QED
      BY <1>2, <2>1, <2>2, <3>1 DEF Published
  <2>3. CASE dir[Col].place \notin {"task", "trash"} /\ ~Rename
    <3>2. dir'[Col].place \notin {"task", "trash"}
      BY <1>1, <1>5, <2>3, GoesPlaced
    <3>3. QED
      BY <1>2, <2>1, <3>2 DEF Published
  <2>4. CASE Rename
    <3>1. dir'[Col].number = dir[Col].number /\ life.pc = "rename"
      BY <2>1, <2>4, <1>1 DEF Rename, At, TypeOK
    <3>2. SUFFICES ASSUME NEW c \in Collections, NEW d \in Collections,
                          c < d, Published(c)', Published(d)', dir'[c].task = dir'[d].task
                   PROVE  dir'[c].number < dir'[d].number
      BY DEF NumbersGrow
    <3>3. CASE c # Col /\ d # Col
      BY <1>1, <2>1, <3>2, <3>3 DEF NumbersGrow, Published
    <3>4. CASE d = Col
      <4>1. c # Col /\ Col # 0
        BY <2>1, <3>2, <3>4 DEF Collections
      <4>2. Published(c) /\ Sibling(c)
        BY <2>1, <3>2, <3>4, <4>1 DEF Published, Sibling
      <4>3. dir[c].number < dir[Col].number
        BY <1>1, <3>1, <4>1, <4>2 DEF Seen
      <4>4. QED
        BY <2>1, <3>1, <3>4, <4>1, <4>3
    <3>5. CASE c = Col
      <4>1. d > issued /\ d # Col
        BY <2>1, <3>2, <3>5 DEF Collections
      <4>2. dir[d].place = "none"
        BY <1>1, <4>1 DEF Latest
      <4>3. QED
        BY <2>1, <3>2, <4>1, <4>2 DEF Published
    <3>6. QED
      BY <3>3, <3>4, <3>5
  <2>5. QED
    BY <2>2, <2>3, <2>4
<1>6. CASE \E d \in Deleters : Find(d) \/ MoveToTrash(d) \/ RemoveTaskDir(d)
  <2>1. \A c \in Collections :
          /\ dir'[c].task = dir[c].task /\ dir'[c].number = dir[c].number
          /\ \/ dir'[c] = dir[c]
             \/ dir[c].place = "task" /\ dir'[c].place = "trash"
    BY <1>1, <1>6, DeleteIs
  <2>2. QED
    BY <1>2, <2>1 DEF Published
<1>7. QED
  BY <1>3, <1>4, <1>5, <1>6, StepIs

-----------------------------------------------------------------------------
(* The theorems *)

\* The invariant holds at the start.
LEMMA InitInvariant ==
  ASSUME Init
  PROVE  IInv
<1>1. \A c \in Collections : c \in Nat /\ c > 0
  BY StorageAssumption DEF Collections
<1>2. dir = [c \in Collections |-> NoDir] /\ life = Idle /\ Col = 0
  BY DEF Init, Col, Idle
<1>3. TypeOK
  <2>1. lock \in Services \cup {NoService} /\ service \in [Services -> Serves]
    BY DEF Init, Serves, Off
  <2>2. life \in Lives /\ deleter \in [Deleters -> Deletes]
    BY DEF Init, Lives, Deletes, Idle, Free, Steps
  <2>3. dir \in [Collections -> Placings]
    BY <1>2 DEF Placings, NoDir, Files
  <2>4. taskDirs \subseteq Tasks /\ issued \in 0..MaxCollections /\ starts \in 0..MaxStarts
    BY StorageAssumption DEF Init
  <2>5. QED
    BY <2>1, <2>2, <2>3, <2>4, TypesAre
<1>4. \A c \in Collections : dir[c].place = "none" /\ dir[c].number = 0
  BY <1>2 DEF NoDir
<1>5. Locked
  BY DEF Init, Locked, Off, Idle, Free
<1>6. Latest
  BY <1>1, <1>2, <1>4 DEF Init, Latest, Idle
<1>7. Placed
  BY <1>2 DEF Init, Placed, Idle, Free
<1>8. Cleans
  BY DEF Init, Cleans, Off
<1>9. Whole /\ NumbersGrow
  BY <1>4 DEF Whole, NumbersGrow, Published
<1>10. Bounded
  BY <1>1, <1>2, <1>4 DEF Bounded, Idle
<1>11. Seen
  BY <1>2 DEF Seen
<1>12. QED
  BY <1>3, <1>5, <1>6, <1>7, <1>8, <1>9, <1>10, <1>11 DEF IInv

\* A step that changes nothing keeps the invariant.
LEMMA StutterInvariant ==
  ASSUME IInv, UNCHANGED vars
  PROVE  IInv'
<1>1. UNCHANGED <<lock, service, life, deleter, dir, taskDirs, issued, starts>>
  BY DEF vars
<1>2. TypeOK'
  BY <1>1, Zenon DEF IInv, TypeOK
<1>3. Locked' /\ Latest' /\ Placed' /\ Cleans'
  BY <1>1, Zenon DEF IInv, Locked, Up, Latest, Placed, Cleans, Col
<1>4. Whole' /\ NumbersGrow'
  BY <1>1, Zenon DEF IInv, Whole, NumbersGrow, Published
<1>5. Bounded' /\ Seen'
  BY <1>1, Zenon DEF IInv, Bounded, Seen, Sibling, Published, Col
<1>6. QED
  BY <1>2, <1>3, <1>4, <1>5 DEF IInv

\* Every step keeps the invariant.
LEMMA StepInvariant ==
  ASSUME IInv, [Next]_vars
  PROVE  IInv'
<1>1. CASE Next
  BY <1>1, TypesNext, LockedNext, LatestNext, PlacedNext, CleansNext, WholeNext, BoundedNext,
     SeenNext, NumbersGrowNext DEF IInv
<1>2. CASE UNCHANGED vars
  BY <1>2, StutterInvariant
<1>3. QED
  BY <1>1, <1>2

\* The invariant holds in every state the storage can reach.
THEOREM StorageInvariant == Spec => []IInv
<1>1. Init => IInv
  BY InitInvariant
<1>2. IInv /\ [Next]_vars => IInv'
  BY StepInvariant
<1>3. QED
  BY <1>1, <1>2, PTL DEF Spec

\* Every variable keeps its type; a number that create_staging chooses is a natural number.
THEOREM TypesCorrect == Spec => []TypeOK
<1>1. IInv => TypeOK
  BY DEF IInv
<1>2. QED
  BY <1>1, StorageInvariant, PTL

\* The numbers of a task's records grow with the order of their starts, and none is used
\* again: for any interleaving of the two listings of _next_index with any number of
\* deletions, of several services, kills and failing system calls; a service that is
\* released is at rest (AtRest), a killed one anywhere.
THEOREM NumbersGrowCorrect == Spec => []NumbersGrow
<1>1. IInv => NumbersGrow
  BY DEF IInv
<1>2. QED
  BY <1>1, StorageInvariant, PTL

\* What NothingIsLost says of one step and one collection.
KeptBy(c) ==
  /\ Kept(c) /\ Kept(c)' => dir[c].files \cap Data \subseteq dir'[c].files
  /\ Published(c) => Published(c)'
  /\ Published(c)' => Data \subseteq dir'[c].files

\* No step takes a file of what the service holds, or a record out of the data root.
LEMMA StepKeeps ==
  ASSUME IInv, Next, NEW c \in Collections
  PROVE  KeptBy(c)
<1>1. TypeOK /\ Locked /\ Cleans /\ Placed /\ Latest /\ Whole
  BY DEF IInv
<1>2. Published(c)' => Data \subseteq dir'[c].files
  BY WholeNext DEF Whole
<1>3. Kept(c) /\ ~Published(c) => c = Col /\ life.pc # "idle" /\ life.pc \notin {"undo", "remove"}
  BY DEF Kept
<1>4. CASE \E s \in Services : \/ Acquire(s) \/ Release(s) \/ Crash(s)
                               \/ CleanNext(s) \/ CleanFile(s) \/ CleanGone(s) \/ CleanEnds(s)
  <2>1. /\ life' = Idle \/ (life' = life /\ (dir' = dir \/ life.pc = "idle"))
        /\ \/ dir'[c] = dir[c]
           \/ dir[c].place = "staging" /\ dir'[c].place \in {"staging", "gone"}
    BY <1>1, <1>4, ServiceIs
  <2>2. CASE dir'[c] = dir[c]
    BY <1>2, <2>2 DEF KeptBy, Published
  <2>3. CASE dir' # dir /\ dir[c].place = "staging" /\ dir'[c].place \in {"staging", "gone"}
    <3>1. ~Published(c) /\ ~Published(c)'
      BY <2>3 DEF Published
    <3>2. life' = Idle \/ (life' = life /\ life.pc = "idle")
      BY <2>1, <2>3
    <3>3. ~Kept(c)'
      BY <3>1, <3>2 DEF Kept, Idle
    <3>4. QED
      BY <3>1, <3>3 DEF KeptBy
  <2>4. QED
    BY <2>1, <2>2, <2>3
<1>5. ASSUME NEW t \in Tasks, Start(t)
      PROVE  KeptBy(c)
  <2>1. /\ dir[issued'].place = "none" /\ life.pc = "idle"
        /\ \A d \in Collections \ {issued'} : dir'[d] = dir[d]
    BY <1>1, <1>5, StartIs DEF Start, At
  <2>2. CASE c = issued'
    BY <1>2, <1>3, <2>1, <2>2 DEF KeptBy, Published
  <2>3. CASE c # issued'
    BY <1>2, <2>1, <2>3 DEF KeptBy, Published
  <2>4. QED
    BY <2>2, <2>3
<1>6. CASE Goes
  <2>1. /\ Col \in Collections
        /\ \A d \in Collections \ {Col} : dir'[d] = dir[d]
    BY <1>1, <1>6, GoesIs
  <2>2. CASE c # Col
    BY <1>2, <2>1, <2>2 DEF KeptBy, Published
  <2>3. CASE c = Col
    <3>1. Published(c) => life.pc \notin {"undo", "remove"}
      BY <1>1, <2>3 DEF Placed, Published
    <3>2. Kept(c) => life.pc \notin {"undo", "remove"}
      BY <1>3, <3>1
    <3>3. Kept(c) => dir[c].files \cap Data \subseteq dir'[c].files
      BY <1>1, <1>6, <2>3, <3>2, GoesPlaced
    <3>4. Published(c) => Published(c)'
      BY <1>1, <1>6, <2>3, GoesPlaced DEF Published
    <3>5. QED
      BY <1>2, <3>3, <3>4 DEF KeptBy
  <2>4. QED
    BY <2>2, <2>3
<1>7. CASE \E d \in Deleters : Find(d) \/ MoveToTrash(d) \/ RemoveTaskDir(d)
  <2>1. /\ dir'[c].files = dir[c].files
        /\ \/ dir'[c] = dir[c]
           \/ dir[c].place = "task" /\ dir'[c].place = "trash"
    BY <1>1, <1>7, DeleteIs
  <2>2. QED
    BY <1>2, <2>1 DEF KeptBy, Published
<1>8. QED
  BY <1>4, <1>5, <1>6, <1>7, StepIs

\* No clean-up, discard or deletion, of another service either, takes a file of a record or of
\* the collection that is recorded, waits, is being saved or could not be saved; a record is
\* whole when it comes into its task, and it leaves it only for the recycle area.  A service
\* that is released is at rest (AtRest), a killed one anywhere.
THEOREM NothingIsLostCorrect == Spec => NothingIsLost
<1>1. IInv /\ [Next]_vars => [\A c \in Collections : KeptBy(c)]_vars
  BY StepKeeps
<1>2. [\A c \in Collections : KeptBy(c)]_vars =>
        [\A c \in Collections :
           /\ Kept(c) /\ Kept(c)' => dir[c].files \cap Data \subseteq dir'[c].files
           /\ Published(c) => Published(c)'
           /\ Published(c)' => Data \subseteq dir'[c].files]_vars
  BY DEF KeptBy
<1>3. QED
  BY <1>1, <1>2, StorageInvariant, PTL DEF Spec, NothingIsLost
=============================================================================
