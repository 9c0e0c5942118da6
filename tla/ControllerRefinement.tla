----------------------- MODULE ControllerRefinement -----------------------
(***************************************************************************)
(* CollectionController implements CollectionLedger: what is saved stays   *)
(* saved until it is deleted, what is dropped was never saved, and every   *)
(* answer was true when it was given.  On the way: two requests are never  *)
(* inside the lifecycle of a collection at once, and ERROR is left only by *)
(* a cancellation.                                                         *)
(*                                                                         *)
(* The theorems hold for any number of service threads, collections and    *)
(* restarts, and for an exit that does not wait for the running requests;  *)
(* the refinement holds if the marker of a saved directory can be removed, *)
(* for otherwise a saved collection is in ERROR and cancelled.             *)
(***************************************************************************)
EXTENDS CollectionController, TLAPS, SequenceTheorems

-----------------------------------------------------------------------------
(* Every variable keeps its type *)

LEMMA GotoTyped ==
  ASSUME worker \in [Workers -> Threads], NEW w \in Workers, NEW pc \in Steps, Goto(w, pc)
  PROVE  worker' \in [Workers -> Threads]
BY DEF Goto, Threads

LEMMA DoneTyped ==
  ASSUME worker \in [Workers -> Threads], NEW w \in Workers, Done(w)
  PROVE  worker' \in [Workers -> Threads]
BY DEF Done, Threads, Idle, Steps, Handles

\* A request passes the check of its target only for the active collection.
LEMMA TargetIs ==
  ASSUME NEW c \in Collections, Target(c)
  PROVE  c = active /\ active # None /\ c \in Handles
BY ControllerAssumption DEF Target, Collections, None, Handles

LEMMA MessageTyped ==
  \A kind \in {"START", "STOP", "tf", "keyframe", "data", "timing"} : Message(kind) \in Messages
BY ControllerAssumption DEF Message, Messages

\* Changing a field of a writer or of a directory to a value of the field's set.
LEMMA WritersClosed ==
  \A r \in Writers : \A b \in BOOLEAN :
    /\ [r EXCEPT !.failed = b] \in Writers
    /\ [r EXCEPT !.closing = b] \in Writers
    /\ [r EXCEPT !.dropped = b] \in Writers
    /\ [r EXCEPT !.thread = "run"] \in Writers
    /\ [r EXCEPT !.thread = "dead"] \in Writers
    /\ r.failed \in BOOLEAN /\ r.closing \in BOOLEAN /\ r.dropped \in BOOLEAN
<1> SUFFICES ASSUME NEW r \in Writers, NEW b \in BOOLEAN
             PROVE  /\ [r EXCEPT !.failed = b] \in Writers
                    /\ [r EXCEPT !.closing = b] \in Writers
                    /\ [r EXCEPT !.dropped = b] \in Writers
                    /\ [r EXCEPT !.thread = "run"] \in Writers
                    /\ [r EXCEPT !.thread = "dead"] \in Writers
                    /\ r.failed \in BOOLEAN /\ r.closing \in BOOLEAN
                    /\ r.dropped \in BOOLEAN
  OBVIOUS
<1>1. [r EXCEPT !.failed = b] \in Writers
  BY DEF Writers
<1>2. [r EXCEPT !.closing = b] \in Writers
  BY DEF Writers
<1>3. [r EXCEPT !.dropped = b] \in Writers
  BY DEF Writers
<1>4. [r EXCEPT !.thread = "run"] \in Writers
  BY DEF Writers
<1>5. [r EXCEPT !.thread = "dead"] \in Writers
  BY DEF Writers
<1>6. r.failed \in BOOLEAN /\ r.closing \in BOOLEAN /\ r.dropped \in BOOLEAN
  BY DEF Writers
<1> QED BY <1>1, <1>2, <1>3, <1>4, <1>5, <1>6

LEMMA WriterTyped ==
  ASSUME writer \in [Collections -> Writers], NEW c, NEW b \in BOOLEAN
  PROVE  /\ [writer EXCEPT ![c].failed = b] \in [Collections -> Writers]
         /\ [writer EXCEPT ![c].thread = "run"] \in [Collections -> Writers]
         /\ [writer EXCEPT ![c].thread = "dead"] \in [Collections -> Writers]
         /\ [writer EXCEPT ![c].failed = @ \/ b] \in [Collections -> Writers]
<1>1. [writer EXCEPT ![c].failed = b] \in [Collections -> Writers]
  BY WritersClosed
<1>2. [writer EXCEPT ![c].thread = "run"] \in [Collections -> Writers]
  BY WritersClosed
<1>3. [writer EXCEPT ![c].thread = "dead"] \in [Collections -> Writers]
  BY WritersClosed
<1>4. [writer EXCEPT ![c].failed = @ \/ b] \in [Collections -> Writers]
  <2>1. \A r \in Writers : (r.failed \/ b) \in BOOLEAN
    BY WritersClosed
  <2>2. \A r \in Writers : [r EXCEPT !.failed = @ \/ b] \in Writers
    BY <2>1, WritersClosed
  <2> QED BY <2>2
<1> QED BY <1>1, <1>2, <1>3, <1>4

LEMMA FlagsTyped ==
  ASSUME writer \in [Collections -> Writers], NEW c, NEW full \in BOOLEAN,
         NEW closing \in BOOLEAN
  PROVE  [writer EXCEPT ![c].failed = @ \/ full, ![c].closing = @ \/ closing]
           \in [Collections -> Writers]
<1>1. \A r \in Writers : /\ (r.failed \/ full) \in BOOLEAN
                         /\ (r.closing \/ closing) \in BOOLEAN
  BY WritersClosed
<1>2. \A r \in Writers : [r EXCEPT !.failed = @ \/ full, !.closing = @ \/ closing] \in Writers
  BY <1>1 DEF Writers
<1> QED BY <1>2

LEMMA DirectoriesClosed ==
  \A d \in Directories : \A b \in BOOLEAN :
    /\ \A x \in {"staging", "task", "trash", "removed"} :
         [d EXCEPT !.where = x] \in Directories
    /\ [d EXCEPT !.marker = b] \in Directories
    /\ [d EXCEPT !.intact = b] \in Directories
    /\ [d EXCEPT !.session = "pending"] \in Directories
    /\ [d EXCEPT !.session = "saved"] \in Directories
    /\ [d EXCEPT !.bag = "complete"] \in Directories
<1> SUFFICES ASSUME NEW d \in Directories, NEW b \in BOOLEAN
             PROVE  /\ \A x \in {"staging", "task", "trash", "removed"} :
                         [d EXCEPT !.where = x] \in Directories
                    /\ [d EXCEPT !.marker = b] \in Directories
                    /\ [d EXCEPT !.intact = b] \in Directories
                    /\ [d EXCEPT !.session = "pending"] \in Directories
                    /\ [d EXCEPT !.session = "saved"] \in Directories
                    /\ [d EXCEPT !.bag = "complete"] \in Directories
  OBVIOUS
<1>1. ASSUME NEW x \in {"staging", "task", "trash", "removed"}
      PROVE  [d EXCEPT !.where = x] \in Directories
  BY <1>1 DEF Directories
<1>2. [d EXCEPT !.marker = b] \in Directories
  BY DEF Directories
<1>3. [d EXCEPT !.intact = b] \in Directories
  BY DEF Directories
<1>4. [d EXCEPT !.session = "pending"] \in Directories
  BY DEF Directories
<1>5. [d EXCEPT !.session = "saved"] \in Directories
  BY DEF Directories
<1>6. [d EXCEPT !.bag = "complete"] \in Directories
  BY DEF Directories
<1> QED BY <1>1, <1>2, <1>3, <1>4, <1>5, <1>6

LEMMA DiskTyped ==
  ASSUME disk \in [Collections -> Directories], NEW c, NEW b \in BOOLEAN
  PROVE  /\ \A x \in {"staging", "task", "trash", "removed"} :
              [disk EXCEPT ![c].where = x] \in [Collections -> Directories]
         /\ [disk EXCEPT ![c].marker = b] \in [Collections -> Directories]
         /\ [disk EXCEPT ![c].session = "pending"] \in [Collections -> Directories]
         /\ [disk EXCEPT ![c].session = "saved"] \in [Collections -> Directories]
         /\ [disk EXCEPT ![c].bag = "complete"] \in [Collections -> Directories]
         /\ [disk EXCEPT ![c].where = "staging", ![c].marker = TRUE]
              \in [Collections -> Directories]
         /\ [disk EXCEPT ![c].where = "removed", ![c].marker = FALSE]
              \in [Collections -> Directories]
         /\ [disk EXCEPT ![c].intact = FALSE, ![c].marker = b]
              \in [Collections -> Directories]
<1>1. ASSUME NEW x \in {"staging", "task", "trash", "removed"}
      PROVE  [disk EXCEPT ![c].where = x] \in [Collections -> Directories]
  BY <1>1, DirectoriesClosed
<1>2. [disk EXCEPT ![c].marker = b] \in [Collections -> Directories]
  BY DirectoriesClosed
<1>3. [disk EXCEPT ![c].session = "pending"] \in [Collections -> Directories]
  BY DirectoriesClosed
<1>4. [disk EXCEPT ![c].session = "saved"] \in [Collections -> Directories]
  BY DirectoriesClosed
<1>5. [disk EXCEPT ![c].bag = "complete"] \in [Collections -> Directories]
  BY DirectoriesClosed
<1>6. \A d \in Directories :
        /\ [d EXCEPT !.where = "staging", !.marker = TRUE] \in Directories
        /\ [d EXCEPT !.where = "removed", !.marker = FALSE] \in Directories
        /\ [d EXCEPT !.intact = FALSE, !.marker = b] \in Directories
  <2> SUFFICES ASSUME NEW d \in Directories
               PROVE  /\ [d EXCEPT !.where = "staging", !.marker = TRUE] \in Directories
                      /\ [d EXCEPT !.where = "removed", !.marker = FALSE] \in Directories
                      /\ [d EXCEPT !.intact = FALSE, !.marker = b] \in Directories
    OBVIOUS
  <2>1. [d EXCEPT !.where = "staging", !.marker = TRUE] \in Directories
    BY DEF Directories
  <2>2. [d EXCEPT !.where = "removed", !.marker = FALSE] \in Directories
    BY DEF Directories
  <2>3. [d EXCEPT !.intact = FALSE, !.marker = b] \in Directories
    BY DEF Directories
  <2> QED BY <2>1, <2>2, <2>3
<1> QED BY <1>1, <1>2, <1>3, <1>4, <1>5, <1>6

\* What an offer of the first messages leaves behind.
LEMMA OfferedTyped ==
  ASSUME TypeOK, NEW c, NEW messages \in Seq(Messages), NEW k \in 0..Len(messages),
         NEW closing \in BOOLEAN, Offered(c, messages, k, closing)
  PROVE  /\ log' \in [Collections -> Seq(Messages)]
         /\ writer' \in [Collections -> Writers]
         /\ writerError' \in Codes
<1>1. SubSeq(messages, 1, k) \in Seq(Messages)
  BY SubSeqProperties
<1>2. /\ log \in [Collections -> Seq(Messages)]
      /\ writer \in [Collections -> Writers]
      /\ writerError \in Codes
  BY DEF TypeOK
<1>3. log' \in [Collections -> Seq(Messages)]
  <2>1. log' = [log EXCEPT ![c] = @ \o SubSeq(messages, 1, k)]
    BY DEF Offered
  <2>2. \A d \in Collections : log[d] \o SubSeq(messages, 1, k) \in Seq(Messages)
    BY <1>1, <1>2, ConcatProperties
  <2> QED BY <1>2, <2>1, <2>2
<1>4. writer' \in [Collections -> Writers]
  <2> DEFINE full == k < Len(messages) /\ Accepting(c)
  <2>1. full \in BOOLEAN
    OBVIOUS
  <2>2. writer' = [writer EXCEPT ![c].failed = @ \/ full, ![c].closing = @ \/ closing]
    BY DEF Offered
  <2> QED BY <1>2, <2>1, <2>2, FlagsTyped
<1>5. writerError' \in Codes
  BY <1>2 DEF Offered, Noted, Codes
<1> QED BY <1>3, <1>4, <1>5

LEMMA StartMessagesTyped == StartMessages \in Seq(Messages)
<1>1. Message("START") \in Messages /\ Message("tf") \in Messages
  BY MessageTyped
<1>2. <<Message("START")>> \in Seq(Messages) /\ <<Message("tf")>> \in Seq(Messages)
  BY <1>1
<1>3. <<Message("START")>> \o <<>> \in Seq(Messages)
  BY <1>2, ConcatProperties, EmptySeq
<1>4. <<Message("START")>> \o <<Message("tf")>> \in Seq(Messages)
  BY <1>2, ConcatProperties
<1> QED BY <1>3, <1>4 DEF StartMessages

LEMMA GateMessagesTyped == GateMessages \in Seq(Messages)
BY StartMessagesTyped, MessageTyped DEF GateMessages

LEMMA AbortedTyped ==
  ASSUME writer \in [Collections -> Writers], NEW c, NEW drop \in BOOLEAN, Aborted(c, drop)
  PROVE  writer' \in [Collections -> Writers]
<1> DEFINE leaves == drop /\ writer[c].thread = "run"
<1>1. leaves \in BOOLEAN
  OBVIOUS
<1>2. \A r \in Writers : (r.dropped \/ leaves) \in BOOLEAN
  OBVIOUS
<1>3. \A r \in Writers : [r EXCEPT !.closing = TRUE, !.dropped = @ \/ leaves] \in Writers
  <2> SUFFICES ASSUME NEW r \in Writers
               PROVE  [r EXCEPT !.closing = TRUE, !.dropped = @ \/ leaves] \in Writers
    OBVIOUS
  <2> DEFINE closed == [r EXCEPT !.closing = TRUE]
  <2>1. closed \in Writers
    BY WritersClosed
  <2>2. [closed EXCEPT !.dropped = r.dropped \/ leaves] \in Writers
    BY <1>2, <2>1, WritersClosed
  <2> QED BY <2>2 DEF Writers
<1>4. writer' = [writer EXCEPT ![c].closing = TRUE, ![c].dropped = @ \/ leaves]
  BY DEF Aborted
<1> QED BY <1>3, <1>4

LEMMA SubmitTyped ==
  ASSUME TypeOK, NEW message \in Messages, Submit(message)
  PROVE  /\ log' \in [Collections -> Seq(Messages)]
         /\ writer' \in [Collections -> Writers]
         /\ writerError' \in Codes
<1>1. <<message>> \in Seq(Messages) /\ Len(<<message>>) = 1
  OBVIOUS
<1>2. CASE admitting /\ active # None
  <2>1. PICK k \in 0..1 : Offered(active, <<message>>, k, FALSE)
    BY <1>2 DEF Submit, OfferFirst
  <2> QED BY <1>1, <2>1, OfferedTyped
<1>3. CASE ~(admitting /\ active # None)
  BY <1>3 DEF Submit, TypeOK, bags
<1> QED BY <1>2, <1>3

LEMMA RemovedTyped ==
  ASSUME disk \in [Collections -> Directories], NEW c
  PROVE  Removed(c) \in [Collections -> Directories]
BY DiskTyped DEF Removed

LEMMA DiscardTyped ==
  ASSUME disk \in [Collections -> Directories], NEW c, DiscardOk(c) \/ DiscardFails(c)
  PROVE  disk' \in [Collections -> Directories]
<1>1. CASE DiscardOk(c)
  BY <1>1, RemovedTyped DEF DiscardOk
<1>2. CASE DiscardFails(c)
  <2>1. CASE UNCHANGED disk
    BY <2>1
  <2>2. ASSUME NEW marker \in BOOLEAN,
               disk' = [disk EXCEPT ![c].intact = FALSE, ![c].marker = marker]
        PROVE  disk' \in [Collections -> Directories]
    BY <2>2, DiskTyped
  <2> QED BY <1>2, <2>1, <2>2 DEF DiscardFails
<1> QED BY <1>1, <1>2

LEMMA NextTyped == TypeOK /\ [Next]_vars => TypeOK'
<1> SUFFICES ASSUME TypeOK, [Next]_vars PROVE TypeOK'
  OBVIOUS
<1>1. ASSUME NEW w \in Workers, Start(w)
      PROVE  TypeOK'
  <2>1. state' \in States
    BY <1>1 DEF Start, States
  <2>2. issued' \in 0..MaxCollections
    BY <1>1, ControllerAssumption DEF Start, TypeOK
  <2>3. worker' \in [Workers -> Threads]
    BY <1>1, ControllerAssumption DEF Start, TypeOK, Threads, Steps, Handles, Collections,
       None
  <2> QED BY <1>1, <2>1, <2>2, <2>3 DEF Start, TypeOK, service, caches, process, bags,
     files
<1>2. ASSUME NEW w \in Workers, Stage(w)
      PROVE  TypeOK'
  <2>1. worker' \in [Workers -> Threads]
    BY <1>2, GotoTyped DEF Stage, Steps, TypeOK
  <2>2. disk' \in [Collections -> Directories]
    <3>1. CASE UNCHANGED disk
      BY <3>1 DEF TypeOK
    <3>2. CASE disk' = [disk EXCEPT ![Col(w)].where = "staging", ![Col(w)].marker = TRUE]
      BY <3>2, DiskTyped DEF TypeOK
    <3> QED BY <1>2, <3>1, <3>2 DEF Stage
  <2> QED BY <1>2, <2>1, <2>2 DEF Stage, TypeOK, service, caches, process, bags, files
<1>3. ASSUME NEW w \in Workers, OpenBag(w)
      PROVE  TypeOK'
  <2>1. writerError' \in Codes
    BY <1>3 DEF OpenBag, Codes
  <2>2. worker' \in [Workers -> Threads]
    BY <1>3, GotoTyped DEF OpenBag, Steps, TypeOK
  <2>3. writer' \in [Collections -> Writers]
    <3>1. CASE UNCHANGED writer
      BY <3>1 DEF TypeOK
    <3>2. CASE writer' = [writer EXCEPT ![Col(w)].thread = "run"]
      BY <3>2, WriterTyped DEF TypeOK
    <3> QED BY <1>3, <3>1, <3>2 DEF OpenBag
  <2> QED BY <1>3, <2>1, <2>2, <2>3 DEF OpenBag, TypeOK, service, caches, process, bags,
     files
<1>4. ASSUME NEW w \in Workers, Activate(w)
      PROVE  TypeOK'
  <2>1. active' \in Handles
    BY <1>4 DEF Activate, TypeOK, Threads, Col
  <2>2. worker' \in [Workers -> Threads]
    BY <1>4, GotoTyped DEF Activate, Steps, TypeOK
  <2> QED BY <1>4, <2>1, <2>2 DEF Activate, TypeOK, service, caches, process, bags, files
<1>5. ASSUME NEW w \in Workers, Begin(w)
      PROVE  TypeOK'
  <2>1. log' \in [Collections -> Seq(Messages)] /\ writer' \in [Collections -> Writers]
        /\ writerError' \in Codes
    BY <1>5, StartMessagesTyped, OfferedTyped DEF Begin, OfferFirst
  <2>2. worker' \in [Workers -> Threads]
    BY <1>5, GotoTyped DEF Begin, Steps, TypeOK
  <2> QED BY <1>5, <2>1, <2>2 DEF Begin, TypeOK, service, caches, process, bags, files
<1>6. ASSUME NEW w \in Workers, Admit(w)
      PROVE  TypeOK'
  <2>1. worker' \in [Workers -> Threads]
    BY <1>6, GotoTyped DEF Admit, Steps, TypeOK
  <2> QED BY <1>6, <2>1 DEF Admit, TypeOK, service, caches, process, bags, files
<1>7. ASSUME NEW w \in Workers, Arm(w)
      PROVE  TypeOK'
  <2>1. gate' \in Gates
    BY <1>7 DEF Arm, TypeOK, Threads, Gates, Col
  <2>2. worker' \in [Workers -> Threads]
    BY <1>7, GotoTyped DEF Arm, Steps, TypeOK
  <2> QED BY <1>7, <2>1, <2>2 DEF Arm, TypeOK, service, caches, process, bags, files
<1>8. ASSUME NEW w \in Workers, WaitEnds(w)
      PROVE  TypeOK'
  <2>1. gate' \in Gates
    BY <1>8 DEF WaitEnds, Gates, NoGate, Handles
  <2>2. worker' \in [Workers -> Threads]
    BY <1>8, GotoTyped DEF WaitEnds, Steps, TypeOK
  <2> QED BY <1>8, <2>1, <2>2 DEF WaitEnds, TypeOK, service, caches, process, bags, files
<1>9. ASSUME NEW w \in Workers, Ready(w)
      PROVE  TypeOK'
  <2>1. state' \in States
    BY <1>9 DEF Ready, States
  <2>2. worker' \in [Workers -> Threads]
    BY <1>9, DoneTyped DEF Ready, TypeOK
  <2> QED BY <1>9, <2>1, <2>2 DEF Ready, TypeOK, service, caches, process, bags, files
<1>10. ASSUME NEW w \in Workers, Undo(w)
       PROVE  TypeOK'
  <2>1. worker' \in [Workers -> Threads]
    BY <1>10, GotoTyped DEF Undo, Steps, TypeOK
  <2>2. writer' \in [Collections -> Writers]
    BY <1>10, AbortedTyped DEF Undo, TypeOK
  <2> QED BY <1>10, <2>1, <2>2 DEF Undo, TypeOK, service, caches, process, bags, files
<1>11. ASSUME NEW w \in Workers, UndoJoin(w)
       PROVE  TypeOK'
  <2>1. state' \in States
    BY <1>11 DEF UndoJoin, TypeOK, States
  <2>2. worker' \in [Workers -> Threads]
    BY <1>11, GotoTyped, DoneTyped DEF UndoJoin, Steps, TypeOK
  <2>3. writer' \in [Collections -> Writers]
    <3>1. CASE UNCHANGED writer
      BY <3>1 DEF TypeOK
    <3>2. CASE writer' = [writer EXCEPT ![Col(w)].failed = TRUE]
      BY <3>2, WriterTyped DEF TypeOK
    <3> QED BY <1>11, <3>1, <3>2 DEF UndoJoin
  <2> QED BY <1>11, <2>1, <2>2, <2>3 DEF UndoJoin, TypeOK, service, caches, process, bags,
     files
<1>12. ASSUME NEW w \in Workers, UndoDiscard(w)
       PROVE  TypeOK'
  <2>1. worker' \in [Workers -> Threads]
    BY <1>12, GotoTyped DEF UndoDiscard, Steps, TypeOK
  <2>2. disk' \in [Collections -> Directories]
    BY <1>12, DiscardTyped DEF UndoDiscard, TypeOK
  <2> QED BY <1>12, <2>1, <2>2 DEF UndoDiscard, TypeOK, service, caches, process, bags,
     files
<1>13. ASSUME NEW w \in Workers, Undone(w)
       PROVE  TypeOK'
  <2>1. state' \in States
    BY <1>13 DEF Undone, States
  <2>2. active' \in Handles
    BY <1>13 DEF Undone, Handles
  <2>3. worker' \in [Workers -> Threads]
    BY <1>13, DoneTyped DEF Undone, TypeOK
  <2> QED BY <1>13, <2>1, <2>2, <2>3 DEF Undone, TypeOK, service, caches, process, bags,
     files
<1>14. ASSUME NEW w \in Workers, NEW save \in BOOLEAN, Stop(w, save)
       PROVE  TypeOK'
  <2>1. state' \in States
    BY <1>14 DEF Stop, States
  <2>2. worker' \in [Workers -> Threads]
    BY <1>14, TargetIs DEF Stop, TypeOK, Threads, Steps
  <2> QED BY <1>14, <2>1, <2>2 DEF Stop, TypeOK, service, caches, process, bags, files
<1>15. ASSUME NEW w \in Workers, Quiesce(w)
       PROVE  TypeOK'
  <2>1. log' \in [Collections -> Seq(Messages)] /\ writer' \in [Collections -> Writers]
        /\ writerError' \in Codes
    <3>1. <<Message("STOP")>> \in Seq(Messages) /\ Len(<<Message("STOP")>>) = 1
      BY MessageTyped
    <3> QED BY <1>15, <3>1, OfferedTyped DEF Quiesce
  <2>2. worker' \in [Workers -> Threads]
    BY <1>15, GotoTyped DEF Quiesce, Steps, TypeOK
  <2> QED BY <1>15, <2>1, <2>2 DEF Quiesce, TypeOK, service, caches, process, bags, files
<1>16. ASSUME NEW w \in Workers, Verify(w)
       PROVE  TypeOK'
  <2>1. state' \in States
    BY <1>16 DEF Verify, TypeOK, States
  <2>2. writerError' \in Codes
    BY <1>16 DEF Verify, TypeOK, Noted, Codes
  <2>3. worker' \in [Workers -> Threads]
    BY <1>16, GotoTyped, DoneTyped DEF Verify, Steps, TypeOK
  <2>4. writer' \in [Collections -> Writers]
    <3>1. (~Joined(Col(w))) \in BOOLEAN
      OBVIOUS
    <3>2. writer' = [writer EXCEPT ![Col(w)].failed = @ \/ ~Joined(Col(w))]
      BY <1>16 DEF Verify
    <3> QED BY <3>1, <3>2, WriterTyped DEF TypeOK
  <2> QED BY <1>16, <2>1, <2>2, <2>3, <2>4 DEF Verify, TypeOK, service, caches, process,
     bags, files
<1>17. ASSUME NEW w \in Workers, Session(w)
       PROVE  TypeOK'
  <2>1. state' \in States
    BY <1>17 DEF Session, States
  <2>2. writerError' \in Codes
    BY <1>17 DEF Session, TypeOK, Noted, Codes
  <2>3. worker' \in [Workers -> Threads]
    BY <1>17, GotoTyped, DoneTyped DEF Session, Steps, TypeOK
  <2>4. disk' \in [Collections -> Directories]
    <3>1. CASE UNCHANGED disk
      BY <3>1 DEF TypeOK
    <3>2. CASE disk' = [disk EXCEPT ![Col(w)].session = "pending"]
      BY <3>2, DiskTyped DEF TypeOK
    <3> QED BY <1>17, <3>1, <3>2 DEF Session
  <2> QED BY <1>17, <2>1, <2>2, <2>3, <2>4 DEF Session, TypeOK, service, caches, process,
     bags, files
<1>18. ASSUME NEW w \in Workers, Save(w)
       PROVE  TypeOK'
  <2>1. state' \in States
    BY <1>18 DEF Save, States
  <2>2. worker' \in [Workers -> Threads]
    BY <1>18, TargetIs DEF Save, TypeOK, Threads, Steps
  <2> QED BY <1>18, <2>1, <2>2 DEF Save, TypeOK, service, caches, process, bags, files
<1>19. ASSUME NEW w \in Workers, Manifest(w)
       PROVE  TypeOK'
  <2>1. state' \in States
    BY <1>19 DEF Manifest, TypeOK, States, SaveFails
  <2>2. worker' \in [Workers -> Threads]
    BY <1>19, GotoTyped, DoneTyped DEF Manifest, SaveFails, Steps, TypeOK
  <2>3. disk' \in [Collections -> Directories]
    <3>1. CASE UNCHANGED disk
      BY <3>1 DEF TypeOK
    <3>2. CASE disk' = [disk EXCEPT ![Col(w)].session = "saved"]
      BY <3>2, DiskTyped DEF TypeOK
    <3> QED BY <1>19, <3>1, <3>2 DEF Manifest
  <2> QED BY <1>19, <2>1, <2>2, <2>3 DEF Manifest, TypeOK, service, caches, process, bags,
     files
<1>20. ASSUME NEW w \in Workers, CheckOwned(w)
       PROVE  TypeOK'
  <2>1. state' \in States
    BY <1>20 DEF CheckOwned, TypeOK, States, SaveFails
  <2>2. worker' \in [Workers -> Threads]
    BY <1>20, GotoTyped, DoneTyped DEF CheckOwned, SaveFails, Steps, TypeOK
  <2>3. taskDir' \in BOOLEAN
    BY <1>20 DEF CheckOwned, TypeOK
  <2> QED BY <1>20, <2>1, <2>2, <2>3 DEF CheckOwned, TypeOK, service, caches, process,
     bags, files
<1>21. ASSUME NEW w \in Workers, Rename(w)
       PROVE  TypeOK'
  <2>1. state' \in States
    BY <1>21 DEF Rename, TypeOK, States, SaveFails
  <2>2. worker' \in [Workers -> Threads]
    BY <1>21, GotoTyped, DoneTyped DEF Rename, SaveFails, Steps, TypeOK
  <2>3. disk' \in [Collections -> Directories]
    <3>1. CASE UNCHANGED disk
      BY <3>1 DEF TypeOK
    <3>2. CASE disk' = [disk EXCEPT ![Col(w)].where = "task"]
      BY <3>2, DiskTyped DEF TypeOK
    <3> QED BY <1>21, <3>1, <3>2 DEF Rename, NotMoved
  <2> QED BY <1>21, <2>1, <2>2, <2>3 DEF Rename, TypeOK, service, caches, process, bags,
     files
<1>22. ASSUME NEW w \in Workers, Unmark(w)
       PROVE  TypeOK'
  <2>1. state' \in States
    BY <1>22 DEF Unmark, TypeOK, States, SaveFails
  <2>2. worker' \in [Workers -> Threads]
    BY <1>22, GotoTyped, DoneTyped DEF Unmark, SaveFails, Steps, TypeOK
  <2>3. disk' \in [Collections -> Directories]
    <3>1. CASE UNCHANGED disk
      BY <3>1 DEF TypeOK
    <3>2. CASE disk' = [disk EXCEPT ![Col(w)].marker = FALSE]
      BY <3>2, DiskTyped DEF TypeOK
    <3> QED BY <1>22, <3>1, <3>2 DEF Unmark
  <2> QED BY <1>22, <2>1, <2>2, <2>3 DEF Unmark, TypeOK, service, caches, process, bags,
     files
<1>23. ASSUME NEW w \in Workers, Saved(w)
       PROVE  TypeOK'
  <2>1. state' \in States
    BY <1>23 DEF Saved, States
  <2>2. active' \in Handles
    BY <1>23 DEF Saved, Handles
  <2>3. worker' \in [Workers -> Threads]
    BY <1>23, DoneTyped DEF Saved, TypeOK
  <2>4. told' \in [Collections -> SUBSET Answers]
    BY <1>23 DEF Saved, TypeOK, Tell, Answers
  <2> QED BY <1>23, <2>1, <2>2, <2>3, <2>4 DEF Saved, TypeOK, service, caches, process,
     bags, files
<1>24. ASSUME NEW w \in Workers, Cancel(w)
       PROVE  TypeOK'
  <2>1. state' \in States
    BY <1>24 DEF Cancel, States
  <2>2. worker' \in [Workers -> Threads]
    BY <1>24, TargetIs DEF Cancel, TypeOK, Threads, Steps
  <2> QED BY <1>24, <2>1, <2>2 DEF Cancel, TypeOK, service, caches, process, bags, files
<1>25. ASSUME NEW w \in Workers, CancelAbort(w)
       PROVE  TypeOK'
  <2>1. worker' \in [Workers -> Threads]
    BY <1>25, GotoTyped DEF CancelAbort, Steps, TypeOK
  <2>2. writer' \in [Collections -> Writers]
    BY <1>25, AbortedTyped DEF CancelAbort, TypeOK
  <2> QED BY <1>25, <2>1, <2>2 DEF CancelAbort, TypeOK, service, caches, process, bags,
     files
<1>26. ASSUME NEW w \in Workers, CancelJoin(w)
       PROVE  TypeOK'
  <2>1. state' \in States
    BY <1>26 DEF CancelJoin, TypeOK, States
  <2>2. worker' \in [Workers -> Threads]
    BY <1>26, GotoTyped, DoneTyped DEF CancelJoin, Steps, TypeOK
  <2>3. writer' \in [Collections -> Writers]
    <3>1. CASE UNCHANGED writer
      BY <3>1 DEF TypeOK
    <3>2. CASE writer' = [writer EXCEPT ![Col(w)].failed = TRUE]
      BY <3>2, WriterTyped DEF TypeOK
    <3> QED BY <1>26, <3>1, <3>2 DEF CancelJoin
  <2> QED BY <1>26, <2>1, <2>2, <2>3 DEF CancelJoin, TypeOK, service, caches, process,
     bags, files
<1>27. ASSUME NEW w \in Workers, CancelDiscard(w)
       PROVE  TypeOK'
  <2>1. state' \in States
    BY <1>27 DEF CancelDiscard, TypeOK, States
  <2>2. worker' \in [Workers -> Threads]
    BY <1>27, GotoTyped, DoneTyped DEF CancelDiscard, Steps, TypeOK
  <2>3. disk' \in [Collections -> Directories]
    BY <1>27, DiscardTyped DEF CancelDiscard, TypeOK
  <2> QED BY <1>27, <2>1, <2>2, <2>3 DEF CancelDiscard, TypeOK, service, caches, process,
     bags, files
<1>28. ASSUME NEW w \in Workers, Cancelled(w)
       PROVE  TypeOK'
  <2>1. state' \in States
    BY <1>28 DEF Cancelled, States
  <2>2. active' \in Handles
    BY <1>28 DEF Cancelled, Handles
  <2>3. writerError' \in Codes
    BY <1>28 DEF Cancelled, Codes
  <2>4. worker' \in [Workers -> Threads]
    BY <1>28, DoneTyped DEF Cancelled, TypeOK
  <2>5. told' \in [Collections -> SUBSET Answers]
    BY <1>28 DEF Cancelled, TypeOK, Tell, Answers
  <2> QED BY <1>28, <2>1, <2>2, <2>3, <2>4, <2>5 DEF Cancelled, TypeOK, service, caches,
     process, bags, files
<1>29. ASSUME NEW w \in Workers, NEW c \in Collections, Delete(w, c)
       PROVE  TypeOK'
  <2>1. worker' \in [Workers -> Threads]
    BY <1>29 DEF Delete, TypeOK, Threads, Steps, Handles
  <2> QED BY <1>29, <2>1 DEF Delete, TypeOK, service, caches, process, bags, files
<1>30. ASSUME NEW w \in Workers, MoveToTrash(w)
       PROVE  TypeOK'
  <2>1. worker' \in [Workers -> Threads]
    BY <1>30, GotoTyped, DoneTyped DEF MoveToTrash, Steps, TypeOK
  <2>2. disk' \in [Collections -> Directories]
    <3>1. CASE UNCHANGED disk
      BY <3>1 DEF TypeOK
    <3>2. CASE disk' = [disk EXCEPT ![Col(w)].where = "trash"]
      BY <3>2, DiskTyped DEF TypeOK
    <3> QED BY <1>30, <3>1, <3>2 DEF MoveToTrash
  <2> QED BY <1>30, <2>1, <2>2 DEF MoveToTrash, TypeOK, service, caches, process, bags,
     files
<1>31. ASSUME NEW w \in Workers, RemoveTaskDir(w)
       PROVE  TypeOK'
  <2>1. worker' \in [Workers -> Threads]
    BY <1>31, DoneTyped DEF RemoveTaskDir, TypeOK
  <2>2. taskDir' \in BOOLEAN
    BY <1>31 DEF RemoveTaskDir, TypeOK
  <2>3. told' \in [Collections -> SUBSET Answers]
    BY <1>31 DEF RemoveTaskDir, TypeOK, Tell, Answers
  <2> QED BY <1>31, <2>1, <2>2, <2>3 DEF RemoveTaskDir, TypeOK, service, caches, process,
     bags, files
<1>32. ASSUME NEW c \in Collections, WriterFails(c)
       PROVE  TypeOK'
  <2>1. writerError' \in Codes
    BY <1>32 DEF WriterFails, TypeOK, Noted, Codes
  <2>2. writer' \in [Collections -> Writers]
    BY <1>32, WriterTyped DEF WriterFails, TypeOK
  <2> QED BY <1>32, <2>1, <2>2 DEF WriterFails, TypeOK, service, caches, process, bags,
     files
<1>33. ASSUME NEW c \in Collections, WriterEnds(c)
       PROVE  TypeOK'
  <2>1. writer' \in [Collections -> Writers]
    BY <1>33, WriterTyped DEF WriterEnds, TypeOK
  <2>2. disk' \in [Collections -> Directories]
    <3>1. \A d \in Directories :
             [d EXCEPT !.bag = IF writer[c].failed \/ writer[c].dropped THEN @ ELSE "complete"]
               \in Directories
      BY DEF Directories
    <3> QED BY <1>33, <3>1 DEF WriterEnds, TypeOK
  <2> QED BY <1>33, <2>1, <2>2 DEF WriterEnds, TypeOK, service, caches, process, bags,
     files
<1>34. ASSUME OpenGate
       PROVE  TypeOK'
  <2>1. log' \in [Collections -> Seq(Messages)] /\ writer' \in [Collections -> Writers]
        /\ writerError' \in Codes
    BY <1>34, GateMessagesTyped, OfferedTyped DEF OpenGate, OfferFirst
  <2>2. admitting' \in BOOLEAN
    BY <1>34 DEF OpenGate, TypeOK
  <2>3. gate' \in Gates
    BY <1>34 DEF OpenGate, TypeOK, Gates
  <2> QED BY <1>34, <2>1, <2>2, <2>3 DEF OpenGate, TypeOK, service, caches, process, bags,
     files
<1>35. ASSUME Data
       PROVE  TypeOK'
  <2>1. log' \in [Collections -> Seq(Messages)] /\ writer' \in [Collections -> Writers]
        /\ writerError' \in Codes
    BY <1>35, SubmitTyped, MessageTyped DEF Data
  <2> QED BY <1>35, <2>1 DEF Data, TypeOK, service, caches, process, bags, files
<1>36. ASSUME TfArrives
       PROVE  TypeOK'
  <2>1. input' \in Inputs
    <3>1. 0 \in 0..MaxGeneration
      BY ControllerAssumption
    <3>2. input' = [pc |-> "tf", gen |-> 0, raise |-> FALSE]
      BY <1>36 DEF TfArrives, Quiet
    <3> QED BY <3>1, <3>2 DEF Inputs
  <2> QED BY <1>36, <2>1 DEF TfArrives, TypeOK, service, caches, process, bags, files
<1>37. ASSUME TfSubmitted
       PROVE  TypeOK'
  <2>1. log' \in [Collections -> Seq(Messages)] /\ writer' \in [Collections -> Writers]
        /\ writerError' \in Codes
    BY <1>37, SubmitTyped, MessageTyped DEF TfSubmitted
  <2>2. input' \in Inputs
    BY <1>37, ControllerAssumption DEF TfSubmitted, Inputs, Quiet
  <2> QED BY <1>37, <2>1, <2>2 DEF TfSubmitted, TypeOK, service, caches, process, bags,
     files
<1>38. ASSUME TimingArrives
       PROVE  TypeOK'
  <2>1. generation' \in 0..MaxGeneration
    BY <1>38, ControllerAssumption DEF TimingArrives, TypeOK
  <2>2. input' \in Inputs
    BY <1>38, ControllerAssumption DEF TimingArrives, TypeOK, Inputs
  <2> QED BY <1>38, <2>1, <2>2 DEF TimingArrives, TypeOK, service, caches, process, bags,
     files
<1>39. ASSUME TimingReported
       PROVE  TypeOK'
  <2>1. writerError' \in Codes
    BY <1>39 DEF TimingReported, TypeOK, Noted, Codes
  <2>2. input' \in Inputs
    BY <1>39 DEF TimingReported, TypeOK, Inputs
  <2> QED BY <1>39, <2>1, <2>2 DEF TimingReported, TypeOK, service, caches, process, bags,
     files
<1>40. ASSUME TimingSubmitted
       PROVE  TypeOK'
  <2>1. log' \in [Collections -> Seq(Messages)] /\ writer' \in [Collections -> Writers]
        /\ writerError' \in Codes
    BY <1>40, SubmitTyped, MessageTyped, ControllerAssumption DEF TimingSubmitted, TypeOK,
       Inputs, Timing, Messages
  <2>2. input' \in Inputs
    BY <1>40, ControllerAssumption DEF TimingSubmitted, Inputs, Quiet
  <2> QED BY <1>40, <2>1, <2>2 DEF TimingSubmitted, TypeOK, service, caches, process,
     bags, files
<1>41. ASSUME Sync
       PROVE  TypeOK'
  <2>1. state' \in States
    BY <1>41 DEF Sync, States
  <2> QED BY <1>41, <2>1 DEF Sync, TypeOK, service, caches, process, bags, files
<1>42. ASSUME Shutdown
       PROVE  TypeOK'
  <2>1. gate' \in Gates
    BY <1>42 DEF Shutdown, TypeOK, Gates
  <2>2. exit' \in Exits
    BY <1>42 DEF Shutdown, TypeOK, Exits, ExitSteps
  <2> QED BY <1>42, <2>1, <2>2 DEF Shutdown, TypeOK, service, caches, process, bags, files
<1>43. ASSUME Settle
       PROVE  TypeOK'
  <2>1. exit' \in Exits
    BY <1>43 DEF Settle, TypeOK, Exits, ExitSteps
  <2> QED BY <1>43, <2>1 DEF Settle, TypeOK, service, caches, process, bags, files
<1>44. ASSUME ExitAbort
       PROVE  TypeOK'
  <2>1. exit' \in Exits
    <3>1. CASE exit' = [exit EXCEPT !.pc = "clear"]
      BY <3>1 DEF TypeOK, Exits, ExitSteps
    <3>2. CASE exit' = [pc |-> "join", col |-> active]
      BY <3>2 DEF TypeOK, Exits, ExitSteps
    <3> QED BY <1>44, <3>1, <3>2 DEF ExitAbort
  <2>2. writer' \in [Collections -> Writers]
    BY <1>44, AbortedTyped DEF ExitAbort, TypeOK
  <2> QED BY <1>44, <2>1, <2>2 DEF ExitAbort, TypeOK, service, caches, process, bags, files
<1>45. ASSUME ExitJoin
       PROVE  TypeOK'
  <2>1. state' \in States
    BY <1>45 DEF ExitJoin, TypeOK, States
  <2>2. exit' \in Exits
    BY <1>45 DEF ExitJoin, Exits, ExitSteps, Handles
  <2>3. writer' \in [Collections -> Writers]
    <3>1. CASE UNCHANGED writer
      BY <3>1 DEF TypeOK
    <3>2. CASE writer' = [writer EXCEPT ![exit.col].failed = TRUE]
      BY <3>2, WriterTyped DEF TypeOK
    <3> QED BY <1>45, <3>1, <3>2 DEF ExitJoin
  <2> QED BY <1>45, <2>1, <2>2, <2>3 DEF ExitJoin, TypeOK, service, caches, process, bags,
     files
<1>46. ASSUME ExitClear
       PROVE  TypeOK'
  <2>1. active' \in Handles
    BY <1>46 DEF ExitClear, Handles
  <2>2. exit' \in Exits
    BY <1>46 DEF ExitClear, TypeOK, Exits, ExitSteps
  <2> QED BY <1>46, <2>1, <2>2 DEF ExitClear, TypeOK, service, caches, process, bags, files
<1>47. ASSUME NEW c \in Collections, CleanBegins(c)
       PROVE  TypeOK'
  <2>1. exit' \in Exits
    BY <1>47 DEF CleanBegins, Exits, ExitSteps, Handles
  <2>2. disk' \in [Collections -> Directories]
    <3>1. PICK marker \in BOOLEAN :
             disk' = [disk EXCEPT ![c].intact = FALSE, ![c].marker = marker]
      BY <1>47 DEF CleanBegins
    <3> QED BY <3>1, DiskTyped DEF TypeOK
  <2> QED BY <1>47, <2>1, <2>2 DEF CleanBegins, TypeOK, service, caches, process, bags,
     files
<1>48. ASSUME CleanEnds
       PROVE  TypeOK'
  <2>1. exit' \in Exits
    BY <1>48 DEF CleanEnds, Exits, ExitSteps, Handles
  <2>2. disk' \in [Collections -> Directories]
    BY <1>48, RemovedTyped DEF CleanEnds, TypeOK
  <2> QED BY <1>48, <2>1, <2>2 DEF CleanEnds, TypeOK, service, caches, process, bags, files
<1>49. ASSUME Unlock
       PROVE  TypeOK'
  <2>1. exit' \in Exits
    BY <1>49 DEF Unlock, TypeOK, Exits, ExitSteps
  <2> QED BY <1>49, <2>1 DEF Unlock, TypeOK, service, caches, process, bags, files
<1>50. ASSUME ExitDone
       PROVE  TypeOK'
  <2>1. state' \in States
    BY <1>50 DEF ExitDone, States
  <2>2. exit' \in Exits
    BY <1>50 DEF ExitDone, TypeOK, Exits, ExitSteps
  <2> QED BY <1>50, <2>1, <2>2 DEF ExitDone, TypeOK, service, caches, process, bags, files
<1>51. ASSUME Restart
       PROVE  TypeOK'
  <2>1. state' \in States
    BY <1>51 DEF Restart, States
  <2>2. active' \in Handles
    BY <1>51 DEF Restart, Handles
  <2>3. writerError' \in Codes
    BY <1>51 DEF Restart, Codes
  <2>4. gate' \in Gates
    BY <1>51 DEF Restart, Gates, NoGate, Handles
  <2>5. generation' \in 0..MaxGeneration
    <3>1. generation' = 0
      BY <1>51 DEF Restart
    <3> QED BY <3>1, ControllerAssumption
  <2>6. exits' \in 0..MaxExits
    <3>1. exits < MaxExits /\ exits' = exits + 1
      BY <1>51 DEF Restart
    <3> QED BY <3>1, ControllerAssumption DEF TypeOK
  <2>7. worker' \in [Workers -> Threads]
    BY <1>51 DEF Restart, Threads, Idle, Steps, Handles
  <2>8. input' \in Inputs
    <3>1. 0 \in 0..MaxGeneration
      BY ControllerAssumption
    <3>2. input' = [pc |-> "idle", gen |-> 0, raise |-> FALSE]
      BY <1>51 DEF Restart, Quiet
    <3> QED BY <3>1, <3>2 DEF Inputs
  <2>9. exit' \in Exits
    BY <1>51 DEF Restart, Exits, Running, ExitSteps, Handles
  <2>10. writer' \in [Collections -> Writers]
    BY <1>51 DEF Restart, Writers, NoWriter
  <2>11. disk' \in [Collections -> Directories]
    <3>1. disk' = Recovered /\ disk \in [Collections -> Directories]
      BY <1>51 DEF Restart, TypeOK
    <3>2. \A d \in Directories : [d EXCEPT !.where = "removed", !.marker = FALSE] \in Directories
      BY DEF Directories
    <3> QED BY <3>1, <3>2 DEF Recovered
  <2> QED BY <1>51, <2>1, <2>2, <2>3, <2>4, <2>5, <2>6, <2>7, <2>8, <2>9, <2>10,
     <2>11 DEF Restart, TypeOK, service, caches, process, bags, files
<1>52. CASE UNCHANGED vars
  BY <1>52 DEF vars, TypeOK, service, caches, process, bags, files
<1> QED BY <1>1, <1>2, <1>3, <1>4, <1>5, <1>6, <1>7, <1>8, <1>9, <1>10, <1>11, <1>12,
   <1>13, <1>14, <1>15, <1>16, <1>17, <1>18, <1>19, <1>20, <1>21, <1>22, <1>23, <1>24,
   <1>25, <1>26, <1>27, <1>28, <1>29, <1>30, <1>31, <1>32, <1>33, <1>34, <1>35, <1>36,
   <1>37, <1>38, <1>39, <1>40, <1>41, <1>42, <1>43, <1>44, <1>45, <1>46, <1>47, <1>48,
   <1>49, <1>50, <1>51, <1>52 DEF Next, Request, Step, Input, Exit

LEMMA InitTyped == Init => TypeOK
<1> SUFFICES ASSUME Init PROVE TypeOK
  OBVIOUS
<1>1. 0 \in 0..MaxGeneration /\ 0 \in 0..MaxExits /\ 0 \in 0..MaxCollections
  BY ControllerAssumption
<1>2. gate \in Gates /\ input \in Inputs /\ exit \in Exits
  BY <1>1 DEF Init, Gates, NoGate, Inputs, Quiet, Exits, Running, ExitSteps, Handles
<1>3. worker \in [Workers -> Threads]
  BY DEF Init, Threads, Idle, Steps, Handles
<1>4. writer \in [Collections -> Writers] /\ disk \in [Collections -> Directories]
  BY DEF Init, Writers, NoWriter, Directories, NoDir
<1>5. log \in [Collections -> Seq(Messages)]
  <2>1. <<>> \in Seq(Messages)
    BY EmptySeq
  <2> QED BY <2>1 DEF Init
<1>6. told \in [Collections -> SUBSET Answers]
  BY DEF Init
<1>7. /\ state \in States /\ active \in Handles /\ admitting \in BOOLEAN /\ writerError \in Codes
      /\ tfCached \in BOOLEAN /\ taskDir \in BOOLEAN
  BY DEF Init, States, Handles, Codes
<1>8. generation = 0 /\ issued = 0 /\ exits = 0
  BY DEF Init
<1> QED BY <1>1, <1>2, <1>3, <1>4, <1>5, <1>6, <1>7, <1>8 DEF TypeOK

\* Every variable of the controller keeps its type, in every behaviour of every instance.
THEOREM TypesCorrect == Spec => []TypeOK
BY InitTyped, NextTyped, PTL DEF Spec

-----------------------------------------------------------------------------
(* The inductive invariant *)

Reliable == "marker" \notin Faults

Starting   == {"stage", "open", "activate", "begin", "admit", "arm", "wait", "ready",
               "undo", "unjoin", "undiscard", "undone"}
Stopping   == {"quiesce", "join", "session"}
Saving     == {"manifest", "check", "rename", "unmark", "saved"}
Cancelling == {"abort", "abortjoin", "discard", "cancelled"}
Lifecycle  == Starting \cup Stopping \cup Saving \cup Cancelling

\* The state says which request a thread at step pc is running.
Phase(pc, s) ==
  /\ pc \in Starting => s = "starting"
  /\ pc \in Stopping => s = "stopping"
  /\ pc \in Saving => s = "saving"
  /\ pc \in Cancelling => s = "cancelling"

\* The state is the lock of the lifecycle, until shutdown takes it over.
Busy == Open => \A w \in Workers : Phase(worker[w].pc, state)
Alone ==
  \A v, w \in Workers : worker[v].pc \in Lifecycle /\ worker[w].pc \in Lifecycle => v = w

Holding == \A w \in Workers : worker[w].pc # "idle" => worker[w].col \in Collections

\* A collection that was not started has no directory and nobody knows it.
Unissued ==
  \A c \in Collections : c > issued =>
    /\ disk[c].where = "none" /\ active # c
    /\ \A w \in Workers : worker[w].col # c

\* One that was just started has no directory and only its own thread knows it.
Unstaged ==
  \A w \in Workers : worker[w].pc = "stage" =>
    /\ disk[worker[w].col].where = "none" /\ active # worker[w].col
    /\ \A v \in Workers : v # w => worker[v].col # worker[w].col

ActiveStaged == active # None => disk[active].where # "none"

\* A collection being started or cancelled is not saved.
Unsaved ==
  \A w \in Workers :
    /\ worker[w].pc \in {"open", "activate"} =>
         disk[worker[w].col].where \in {"staging", "removed"}
    /\ Reliable /\ worker[w].pc \in Cancelling =>
         disk[worker[w].col].where \in {"staging", "removed"}
    /\ Reliable /\ worker[w].pc = "cancelled" => disk[worker[w].col].where = "removed"

\* The active collection is saved only while its save comes to its end.
SavedByThread ==
  Reliable /\ active # None /\ disk[active].where \in {"task", "trash"} =>
    \E w \in Workers : worker[w].pc \in {"unmark", "saved"} /\ worker[w].col = active

Moved ==
  \A w \in Workers :
    /\ worker[w].pc \in {"unmark", "saved"} => disk[worker[w].col].where \in {"task", "trash"}
    /\ worker[w].pc = "rmdir" => disk[worker[w].col].where = "trash"

IInv ==
  /\ TypeOK /\ Busy /\ Alone /\ Holding /\ Unissued /\ Unstaged /\ ActiveStaged
  /\ Unsaved /\ SavedByThread /\ Moved

-----------------------------------------------------------------------------
(* What a step does to the threads and to the directories *)

\* The thread w goes to step pc; "idle" is the end of its request.
Moves(w, pc) ==
  \A v \in Workers :
    /\ worker'[v].pc = IF v = w THEN pc ELSE worker[v].pc
    /\ worker'[v].col = IF v = w /\ pc = "idle" THEN None ELSE worker[v].col

\* Directories stay where they are, but for some that go from the staging area.
Shrinks ==
  \A c \in Collections :
    \/ disk'[c].where = disk[c].where
    \/ disk[c].where = "staging" /\ disk'[c].where = "removed"

\* A step of ErrorIsFinal.
ErrorStep == state = "error" /\ Open /\ exits' = exits => state' \in {"error", "cancelling"}

LEMMA GotoMoves ==
  ASSUME TypeOK, NEW w \in Workers, NEW pc \in Steps \ {"idle"}, Goto(w, pc)
  PROVE  Moves(w, pc)
BY DEF TypeOK, Goto, Moves, Threads

LEMMA DoneMoves ==
  ASSUME TypeOK, NEW w \in Workers, Done(w)
  PROVE  Moves(w, "idle")
BY DEF TypeOK, Done, Moves, Threads, Idle

\* What every step is: it keeps the invariant, ERROR, and the ledger.
Good == IInv' /\ ErrorStep /\ (Reliable => Ledger!Next)

LEMMA KeptShrinks == UNCHANGED disk => Shrinks
BY DEF Shrinks

LEMMA RemovedShrinks ==
  ASSUME TypeOK, NEW c \in Collections, disk[c].where = "staging", disk' = Removed(c)
  PROVE  Shrinks /\ disk'[c].where = "removed"
BY DEF TypeOK, Directories, Removed, Shrinks

LEMMA DiscardShrinks ==
  ASSUME TypeOK, NEW c \in Collections, DiscardOk(c) \/ DiscardFails(c)
  PROVE  Shrinks
<1>1. CASE DiscardOk(c)
  <2>1. CASE Owned(c)
    BY <1>1, <2>1, RemovedShrinks DEF DiscardOk, Owned
  <2>2. CASE ~Owned(c)
    BY <1>1, <2>2, KeptShrinks DEF DiscardOk
  <2> QED BY <2>1, <2>2
<1>2. CASE DiscardFails(c)
  <2>1. CASE UNCHANGED disk
    BY <2>1, KeptShrinks
  <2>2. ASSUME NEW marker \in BOOLEAN,
               disk' = [disk EXCEPT ![c].intact = FALSE, ![c].marker = marker]
        PROVE  Shrinks
    BY <2>2 DEF TypeOK, Directories, Shrinks
  <2> QED BY <1>2, <2>1, <2>2 DEF DiscardFails
<1> QED BY <1>1, <1>2

LEMMA DiscardRemoves ==
  ASSUME TypeOK, NEW c \in Collections, disk[c].where \in {"staging", "removed"}, DiscardOk(c)
  PROVE  disk'[c].where = "removed"
<1>1. CASE Owned(c)
  BY <1>1, RemovedShrinks DEF DiscardOk, Owned
<1>2. CASE ~Owned(c)
  BY <1>2 DEF DiscardOk
<1> QED BY <1>1, <1>2

\* What leaves the staging area is dropped.
LEMMA Dropping ==
  ASSUME TypeOK, Shrinks, UNCHANGED told
  PROVE  Ledger!Next
<1> DEFINE S == {c \in Collections : disk'[c].where # disk[c].where}
<1>1. \A c \in S : disk[c].where = "staging" /\ disk'[c].where = "removed"
  BY DEF Shrinks
<1>2. \A c \in S : Record(c) = "unsaved" /\ Record(c)' = "dropped"
  BY <1>1 DEF Record
<1>3. \A c \in Collections \ S : Record(c)' = Record(c)
  BY DEF Record
<1>4. Ledger!Drop(S)
  BY <1>2, <1>3 DEF Ledger!Drop
<1>5. S \in SUBSET Collections
  OBVIOUS
<1> QED BY <1>4, <1>5 DEF Ledger!Next

\* A step that is not a request's: the threads stay where they are.
LEMMA Frame ==
  ASSUME IInv, TypeOK', UNCHANGED <<issued, worker, told>>, active' \in {active, None}, Shrinks,
         Open' => Open /\ (state' = state \/ \A w \in Workers : worker[w].pc \notin Lifecycle),
         Open /\ state = "error" => state' = state
  PROVE  Good
<1>1. Busy' /\ Alone' /\ Holding'
  BY DEF IInv, Busy, Alone, Holding, Phase, Lifecycle
<1>2. Unissued'
  BY DEF IInv, Unissued, Shrinks, None, Collections, TypeOK, Handles
<1>3. Unstaged'
  BY DEF IInv, Unstaged, Holding, Shrinks, None, Collections
<1>4. ActiveStaged'
  BY DEF IInv, ActiveStaged, Shrinks, TypeOK, Handles
<1>5. Unsaved'
  BY DEF IInv, Unsaved, Holding, Shrinks, Cancelling
<1>6. SavedByThread'
  BY DEF IInv, SavedByThread, Shrinks, TypeOK, Handles
<1>7. Moved'
  BY DEF IInv, Moved, Holding, Shrinks
<1>8. ErrorStep
  BY DEF ErrorStep
<1>9. Ledger!Next
  BY Dropping DEF IInv
<1> QED BY <1>1, <1>2, <1>3, <1>4, <1>5, <1>6, <1>7, <1>8, <1>9 DEF IInv, Good

\* A step of a request that neither makes nor saves a directory.
LEMMA Advance ==
  ASSUME IInv, TypeOK', NEW w \in Workers,
         NEW pc \in Steps \ {"stage", "open", "abort", "unmark", "trash", "rmdir"},
         Moves(w, pc), worker[w].pc # "idle",
         UNCHANGED issued, active' \in {active, None}, Shrinks, Open' => Open,
         worker[w].pc \in Lifecycle \/ (pc \notin Lifecycle /\ UNCHANGED state),
         Open' => Phase(pc, state'),
         pc = "activate" => worker[w].pc = "open",
         pc \in Cancelling => worker[w].pc \in Cancelling,
         Reliable /\ pc = "cancelled" => disk'[worker[w].col].where = "removed",
         pc = "saved" => worker[w].pc = "unmark",
         Reliable /\ worker[w].pc \in {"unmark", "saved"} => pc = "saved" \/ active' = None
  PROVE  IInv' /\ ErrorStep
<1>1. Busy'
  BY DEF IInv, Busy, Alone, Phase, Moves, Lifecycle
<1>2. Alone' /\ Holding'
  BY DEF IInv, Alone, Holding, Moves, Lifecycle, Starting, Stopping, Saving, Cancelling
<1>3. Unissued'
  BY DEF IInv, Unissued, Moves, Shrinks, None, Collections
<1>4. Unstaged'
  BY DEF IInv, Unstaged, Holding, Moves, Shrinks, None, Collections
<1>5. ActiveStaged'
  BY DEF IInv, ActiveStaged, Shrinks, TypeOK, Handles
<1>6. Unsaved'
  BY DEF IInv, Unsaved, Holding, Moves, Shrinks, Cancelling
<1>7. SavedByThread'
  BY DEF IInv, SavedByThread, Moves, Shrinks, TypeOK, Handles
<1>8. Moved'
  BY DEF IInv, Moved, Holding, Moves, Shrinks
<1>9. ErrorStep
  BY DEF IInv, Busy, Phase, ErrorStep, Lifecycle
<1> QED BY <1>1, <1>2, <1>3, <1>4, <1>5, <1>6, <1>7, <1>8, <1>9 DEF IInv

-----------------------------------------------------------------------------
(* Every step keeps the invariant and is a step of the ledger *)

\* The input thread, the writing threads, the timer and shutdown.
LEMMA OthersGood ==
  ASSUME IInv, TypeOK',
         Input \/ Sync \/ Exit \/ \E c \in Collections : WriterFails(c) \/ WriterEnds(c)
  PROVE  Good
<1> USE DEF Open
<1>1. CASE OpenGate
  <2>1. UNCHANGED <<issued, worker, told>> /\ active' \in {active, None}
    BY <1>1 DEF OpenGate, service, caches, process, bags, files
  <2>2. Shrinks
    BY <1>1, KeptShrinks DEF OpenGate, files
  <2>3. /\ Open' => Open /\ (state' = state \/ \A w \in Workers : worker[w].pc \notin Lifecycle)
        /\ Open /\ state = "error" => state' = state
    BY <1>1 DEF OpenGate, service, caches, process, bags, files
  <2> QED BY <2>1, <2>2, <2>3, Frame
<1>2. CASE Data
  <2>1. UNCHANGED <<issued, worker, told>> /\ active' \in {active, None}
    BY <1>2 DEF Data, service, caches, process, bags, files
  <2>2. Shrinks
    BY <1>2, KeptShrinks DEF Data, files
  <2>3. /\ Open' => Open /\ (state' = state \/ \A w \in Workers : worker[w].pc \notin Lifecycle)
        /\ Open /\ state = "error" => state' = state
    BY <1>2 DEF Data, service, caches, process, bags, files
  <2> QED BY <2>1, <2>2, <2>3, Frame
<1>3. CASE TfArrives
  <2>1. UNCHANGED <<issued, worker, told>> /\ active' \in {active, None}
    BY <1>3 DEF TfArrives, service, caches, process, bags, files
  <2>2. Shrinks
    BY <1>3, KeptShrinks DEF TfArrives, files
  <2>3. /\ Open' => Open /\ (state' = state \/ \A w \in Workers : worker[w].pc \notin Lifecycle)
        /\ Open /\ state = "error" => state' = state
    BY <1>3 DEF TfArrives, service, caches, process, bags, files
  <2> QED BY <2>1, <2>2, <2>3, Frame
<1>4. CASE TfSubmitted
  <2>1. UNCHANGED <<issued, worker, told>> /\ active' \in {active, None}
    BY <1>4 DEF TfSubmitted, service, caches, process, bags, files
  <2>2. Shrinks
    BY <1>4, KeptShrinks DEF TfSubmitted, files
  <2>3. /\ Open' => Open /\ (state' = state \/ \A w \in Workers : worker[w].pc \notin Lifecycle)
        /\ Open /\ state = "error" => state' = state
    BY <1>4 DEF TfSubmitted, service, caches, process, bags, files
  <2> QED BY <2>1, <2>2, <2>3, Frame
<1>5. CASE TimingArrives
  <2>1. UNCHANGED <<issued, worker, told>> /\ active' \in {active, None}
    BY <1>5 DEF TimingArrives, service, caches, process, bags, files
  <2>2. Shrinks
    BY <1>5, KeptShrinks DEF TimingArrives, files
  <2>3. /\ Open' => Open /\ (state' = state \/ \A w \in Workers : worker[w].pc \notin Lifecycle)
        /\ Open /\ state = "error" => state' = state
    BY <1>5 DEF TimingArrives, service, caches, process, bags, files
  <2> QED BY <2>1, <2>2, <2>3, Frame
<1>6. CASE TimingReported
  <2>1. UNCHANGED <<issued, worker, told>> /\ active' \in {active, None}
    BY <1>6 DEF TimingReported, service, caches, process, bags, files
  <2>2. Shrinks
    BY <1>6, KeptShrinks DEF TimingReported, files
  <2>3. /\ Open' => Open /\ (state' = state \/ \A w \in Workers : worker[w].pc \notin Lifecycle)
        /\ Open /\ state = "error" => state' = state
    BY <1>6 DEF TimingReported, service, caches, process, bags, files
  <2> QED BY <2>1, <2>2, <2>3, Frame
<1>7. CASE TimingSubmitted
  <2>1. UNCHANGED <<issued, worker, told>> /\ active' \in {active, None}
    BY <1>7 DEF TimingSubmitted, service, caches, process, bags, files
  <2>2. Shrinks
    BY <1>7, KeptShrinks DEF TimingSubmitted, files
  <2>3. /\ Open' => Open /\ (state' = state \/ \A w \in Workers : worker[w].pc \notin Lifecycle)
        /\ Open /\ state = "error" => state' = state
    BY <1>7 DEF TimingSubmitted, service, caches, process, bags, files
  <2> QED BY <2>1, <2>2, <2>3, Frame
<1>8. CASE Sync
  <2>1. UNCHANGED <<issued, worker, told>> /\ active' \in {active, None}
    BY <1>8 DEF Sync, service, caches, process, bags, files
  <2>2. Shrinks
    BY <1>8, KeptShrinks DEF Sync, files
  <2>3. /\ Open' => Open /\ (state' = state \/ \A w \in Workers : worker[w].pc \notin Lifecycle)
        /\ Open /\ state = "error" => state' = state
    BY <1>8 DEF Sync, Syncable, process, IInv, Busy, Phase, Lifecycle
  <2> QED BY <2>1, <2>2, <2>3, Frame
<1>9. CASE Shutdown
  <2>1. UNCHANGED <<issued, worker, told>> /\ active' \in {active, None}
    BY <1>9 DEF Shutdown, service, caches, process, bags, files
  <2>2. Shrinks
    BY <1>9, KeptShrinks DEF Shutdown, files
  <2>3. /\ Open' => Open /\ (state' = state \/ \A w \in Workers : worker[w].pc \notin Lifecycle)
        /\ Open /\ state = "error" => state' = state
    BY <1>9 DEF Shutdown, IInv, TypeOK, Exits, service, caches, process, bags, files
  <2> QED BY <2>1, <2>2, <2>3, Frame
<1>10. CASE Settle
  <2>1. UNCHANGED <<issued, worker, told>> /\ active' \in {active, None}
    BY <1>10 DEF Settle, service, caches, process, bags, files
  <2>2. Shrinks
    BY <1>10, KeptShrinks DEF Settle, files
  <2>3. /\ Open' => Open /\ (state' = state \/ \A w \in Workers : worker[w].pc \notin Lifecycle)
        /\ Open /\ state = "error" => state' = state
    BY <1>10 DEF Settle, IInv, TypeOK, Exits, service, caches, process, bags, files
  <2> QED BY <2>1, <2>2, <2>3, Frame
<1>11. CASE ExitAbort
  <2>1. UNCHANGED <<issued, worker, told>> /\ active' \in {active, None}
    BY <1>11 DEF ExitAbort, service, caches, process, bags, files
  <2>2. Shrinks
    BY <1>11, KeptShrinks DEF ExitAbort, files
  <2>3. /\ Open' => Open /\ (state' = state \/ \A w \in Workers : worker[w].pc \notin Lifecycle)
        /\ Open /\ state = "error" => state' = state
    BY <1>11 DEF ExitAbort, IInv, TypeOK, Exits, service, caches, process, bags, files
  <2> QED BY <2>1, <2>2, <2>3, Frame
<1>12. CASE ExitJoin
  <2>1. UNCHANGED <<issued, worker, told>> /\ active' \in {active, None}
    BY <1>12 DEF ExitJoin, service, caches, process, bags, files
  <2>2. Shrinks
    BY <1>12, KeptShrinks DEF ExitJoin, files
  <2>3. /\ Open' => Open /\ (state' = state \/ \A w \in Workers : worker[w].pc \notin Lifecycle)
        /\ Open /\ state = "error" => state' = state
    BY <1>12 DEF ExitJoin, service, caches, process, bags, files
  <2> QED BY <2>1, <2>2, <2>3, Frame
<1>13. CASE ExitClear
  <2>1. UNCHANGED <<issued, worker, told>> /\ active' \in {active, None}
    BY <1>13 DEF ExitClear, service, caches, process, bags, files
  <2>2. Shrinks
    BY <1>13, KeptShrinks DEF ExitClear, files
  <2>3. /\ Open' => Open /\ (state' = state \/ \A w \in Workers : worker[w].pc \notin Lifecycle)
        /\ Open /\ state = "error" => state' = state
    BY <1>13 DEF ExitClear, IInv, TypeOK, Exits, service, caches, process, bags, files
  <2> QED BY <2>1, <2>2, <2>3, Frame
<1>14. ASSUME NEW c \in Collections, CleanBegins(c)
       PROVE  Good
  <2>1. UNCHANGED <<issued, worker, told>> /\ active' \in {active, None}
    BY <1>14 DEF CleanBegins, service, caches, process, bags, files
  <2>2. Shrinks
    <3>1. PICK marker \in BOOLEAN :
            disk' = [disk EXCEPT ![c].intact = FALSE, ![c].marker = marker]
      BY <1>14 DEF CleanBegins
    <3> QED BY <3>1 DEF IInv, TypeOK, Directories, Shrinks
  <2>3. /\ Open' => Open /\ (state' = state \/ \A w \in Workers : worker[w].pc \notin Lifecycle)
        /\ Open /\ state = "error" => state' = state
    BY <1>14 DEF CleanBegins, service, caches, process, bags, files
  <2> QED BY <2>1, <2>2, <2>3, Frame
<1>15. CASE CleanEnds
  <2>1. UNCHANGED <<issued, worker, told>> /\ active' \in {active, None}
    BY <1>15 DEF CleanEnds, service, caches, process, bags, files
  <2>2. Shrinks
    <3>1. CASE UNCHANGED disk
      BY <3>1, KeptShrinks
    <3>2. CASE disk[exit.col].where = "staging" /\ disk' = Removed(exit.col)
      <4>1. CASE exit.col \in Collections
        BY <3>2, <4>1, RemovedShrinks DEF IInv
      <4>2. CASE exit.col \notin Collections
        BY <3>2, <4>2 DEF IInv, TypeOK, Removed, Shrinks
      <4> QED BY <4>1, <4>2
    <3> QED BY <1>15, <3>1, <3>2 DEF CleanEnds
  <2>3. /\ Open' => Open /\ (state' = state \/ \A w \in Workers : worker[w].pc \notin Lifecycle)
        /\ Open /\ state = "error" => state' = state
    BY <1>15 DEF CleanEnds, service, caches, process, bags, files
  <2> QED BY <2>1, <2>2, <2>3, Frame
<1>16. CASE Unlock
  <2>1. UNCHANGED <<issued, worker, told>> /\ active' \in {active, None}
    BY <1>16 DEF Unlock, service, caches, process, bags, files
  <2>2. Shrinks
    BY <1>16, KeptShrinks DEF Unlock, files
  <2>3. /\ Open' => Open /\ (state' = state \/ \A w \in Workers : worker[w].pc \notin Lifecycle)
        /\ Open /\ state = "error" => state' = state
    BY <1>16 DEF Unlock, IInv, TypeOK, Exits, service, caches, process, bags, files
  <2> QED BY <2>1, <2>2, <2>3, Frame
<1>17. CASE ExitDone
  <2>1. UNCHANGED <<issued, worker, told>> /\ active' \in {active, None}
    BY <1>17 DEF ExitDone, service, caches, process, bags, files
  <2>2. Shrinks
    BY <1>17, KeptShrinks DEF ExitDone, files
  <2>3. /\ Open' => Open /\ (state' = state \/ \A w \in Workers : worker[w].pc \notin Lifecycle)
        /\ Open /\ state = "error" => state' = state
    BY <1>17 DEF ExitDone, IInv, TypeOK, Exits, service, caches, process, bags, files
  <2> QED BY <2>1, <2>2, <2>3, Frame
<1>18. ASSUME NEW c \in Collections, WriterFails(c)
       PROVE  Good
  <2>1. UNCHANGED <<issued, worker, told>> /\ active' \in {active, None}
    BY <1>18 DEF WriterFails, service, caches, process, bags, files
  <2>2. Shrinks
    BY <1>18, KeptShrinks DEF WriterFails, files
  <2>3. /\ Open' => Open /\ (state' = state \/ \A w \in Workers : worker[w].pc \notin Lifecycle)
        /\ Open /\ state = "error" => state' = state
    BY <1>18 DEF WriterFails, service, caches, process, bags, files
  <2> QED BY <2>1, <2>2, <2>3, Frame
<1>19. ASSUME NEW c \in Collections, WriterEnds(c)
       PROVE  Good
  <2>1. UNCHANGED <<issued, worker, told>> /\ active' \in {active, None}
    BY <1>19 DEF WriterEnds, service, caches, process, bags, files
  <2>2. Shrinks
    BY <1>19 DEF WriterEnds, IInv, TypeOK, Directories, Shrinks
  <2>3. /\ Open' => Open /\ (state' = state \/ \A w \in Workers : worker[w].pc \notin Lifecycle)
        /\ Open /\ state = "error" => state' = state
    BY <1>19 DEF WriterEnds, service, caches, process, bags, files
  <2> QED BY <2>1, <2>2, <2>3, Frame
<1> QED BY <1>1, <1>2, <1>3, <1>4, <1>5, <1>6, <1>7, <1>8, <1>9, <1>10, <1>11, <1>12,
   <1>13, <1>14, <1>15, <1>16, <1>17, <1>18, <1>19 DEF Input, Exit

\* A service thread inside its request, where it neither makes nor saves a directory.
LEMMA StepsGood ==
  ASSUME IInv, TypeOK', NEW w \in Workers,
         \/ OpenBag(w) \/ Begin(w) \/ Admit(w) \/ Arm(w) \/ WaitEnds(w) \/ Ready(w)
         \/ Undo(w) \/ UndoJoin(w) \/ UndoDiscard(w) \/ Undone(w) \/ Quiesce(w) \/ Verify(w)
         \/ Session(w) \/ Manifest(w) \/ CheckOwned(w) \/ Unmark(w)
         \/ CancelAbort(w) \/ CancelJoin(w) \/ CancelDiscard(w)
  PROVE  Good
<1>1. CASE OpenBag(w)
  <2>1. /\ worker[w].pc = "open" /\ UNCHANGED <<issued, exit, told>>
        /\ active' \in {active, None}
    BY <1>1 DEF OpenBag, At, service, caches, process, bags, files
  <2>2. Shrinks
    BY <1>1, KeptShrinks DEF OpenBag, files
  <2>3. PICK pc \in {"activate", "undo"} :
          Moves(w, pc) /\ UNCHANGED state
    BY <1>1, GotoMoves DEF OpenBag, IInv, Steps, service
  <2>4. Open => Phase(worker[w].pc, state)
    BY DEF IInv, Busy
  <2>5. (Open' => Open) /\ (Open' => Phase(pc, state'))
    BY <2>1, <2>3, <2>4 DEF Open, Phase, Starting, Stopping, Saving, Cancelling
  <2>6. IInv' /\ ErrorStep
    BY <2>1, <2>2, <2>3, <2>5, Advance DEF Steps, Lifecycle, Starting, Stopping,
       Saving, Cancelling
  <2> QED BY <2>1, <2>2, <2>6, Dropping DEF IInv, Good
<1>2. CASE Begin(w)
  <2>1. /\ worker[w].pc = "begin" /\ UNCHANGED <<issued, exit, told>>
        /\ active' \in {active, None}
    BY <1>2 DEF Begin, At, service, caches, process, bags, files
  <2>2. Shrinks
    BY <1>2, KeptShrinks DEF Begin, files
  <2>3. PICK pc \in {"undo", "admit"} :
          Moves(w, pc) /\ UNCHANGED state
    BY <1>2, GotoMoves DEF Begin, IInv, Steps, service
  <2>4. Open => Phase(worker[w].pc, state)
    BY DEF IInv, Busy
  <2>5. (Open' => Open) /\ (Open' => Phase(pc, state'))
    BY <2>1, <2>3, <2>4 DEF Open, Phase, Starting, Stopping, Saving, Cancelling
  <2>6. IInv' /\ ErrorStep
    BY <2>1, <2>2, <2>3, <2>5, Advance DEF Steps, Lifecycle, Starting, Stopping,
       Saving, Cancelling
  <2> QED BY <2>1, <2>2, <2>6, Dropping DEF IInv, Good
<1>3. CASE Admit(w)
  <2>1. /\ worker[w].pc = "admit" /\ UNCHANGED <<issued, exit, told>>
        /\ active' \in {active, None}
    BY <1>3 DEF Admit, At, service, caches, process, bags, files
  <2>2. Shrinks
    BY <1>3, KeptShrinks DEF Admit, files
  <2>3. PICK pc \in {"ready"} :
          Moves(w, pc) /\ UNCHANGED state
    BY <1>3, GotoMoves DEF Admit, IInv, Steps, service
  <2>4. Open => Phase(worker[w].pc, state)
    BY DEF IInv, Busy
  <2>5. (Open' => Open) /\ (Open' => Phase(pc, state'))
    BY <2>1, <2>3, <2>4 DEF Open, Phase, Starting, Stopping, Saving, Cancelling
  <2>6. IInv' /\ ErrorStep
    BY <2>1, <2>2, <2>3, <2>5, Advance DEF Steps, Lifecycle, Starting, Stopping,
       Saving, Cancelling
  <2> QED BY <2>1, <2>2, <2>6, Dropping DEF IInv, Good
<1>4. CASE Arm(w)
  <2>1. /\ worker[w].pc = "arm" /\ UNCHANGED <<issued, exit, told>>
        /\ active' \in {active, None}
    BY <1>4 DEF Arm, At, service, caches, process, bags, files
  <2>2. Shrinks
    BY <1>4, KeptShrinks DEF Arm, files
  <2>3. PICK pc \in {"wait"} :
          Moves(w, pc) /\ UNCHANGED state
    BY <1>4, GotoMoves DEF Arm, IInv, Steps, service
  <2>4. Open => Phase(worker[w].pc, state)
    BY DEF IInv, Busy
  <2>5. (Open' => Open) /\ (Open' => Phase(pc, state'))
    BY <2>1, <2>3, <2>4 DEF Open, Phase, Starting, Stopping, Saving, Cancelling
  <2>6. IInv' /\ ErrorStep
    BY <2>1, <2>2, <2>3, <2>5, Advance DEF Steps, Lifecycle, Starting, Stopping,
       Saving, Cancelling
  <2> QED BY <2>1, <2>2, <2>6, Dropping DEF IInv, Good
<1>5. CASE WaitEnds(w)
  <2>1. /\ worker[w].pc = "wait" /\ UNCHANGED <<issued, exit, told>>
        /\ active' \in {active, None}
    BY <1>5 DEF WaitEnds, At, service, caches, process, bags, files
  <2>2. Shrinks
    BY <1>5, KeptShrinks DEF WaitEnds, files
  <2>3. PICK pc \in {"ready", "undo"} :
          Moves(w, pc) /\ UNCHANGED state
    BY <1>5, GotoMoves DEF WaitEnds, IInv, Steps, service
  <2>4. Open => Phase(worker[w].pc, state)
    BY DEF IInv, Busy
  <2>5. (Open' => Open) /\ (Open' => Phase(pc, state'))
    BY <2>1, <2>3, <2>4 DEF Open, Phase, Starting, Stopping, Saving, Cancelling
  <2>6. IInv' /\ ErrorStep
    BY <2>1, <2>2, <2>3, <2>5, Advance DEF Steps, Lifecycle, Starting, Stopping,
       Saving, Cancelling
  <2> QED BY <2>1, <2>2, <2>6, Dropping DEF IInv, Good
<1>6. CASE Ready(w)
  <2>1. /\ worker[w].pc = "ready" /\ UNCHANGED <<issued, exit, told>>
        /\ active' \in {active, None}
    BY <1>6 DEF Ready, At, service, caches, process, bags, files
  <2>2. Shrinks
    BY <1>6, KeptShrinks DEF Ready, files
  <2>3. PICK pc \in {"idle"} :
          Moves(w, pc)
    BY <1>6, DoneMoves DEF Ready, IInv, Steps
  <2>4. Open => Phase(worker[w].pc, state)
    BY DEF IInv, Busy
  <2>5. (Open' => Open) /\ (Open' => Phase(pc, state'))
    BY <2>1, <2>3, <2>4 DEF Open, Phase, Starting, Stopping, Saving, Cancelling
  <2>6. IInv' /\ ErrorStep
    BY <2>1, <2>2, <2>3, <2>5, Advance DEF Steps, Lifecycle, Starting, Stopping,
       Saving, Cancelling
  <2> QED BY <2>1, <2>2, <2>6, Dropping DEF IInv, Good
<1>7. CASE Undo(w)
  <2>1. /\ worker[w].pc = "undo" /\ UNCHANGED <<issued, exit, told>>
        /\ active' \in {active, None}
    BY <1>7 DEF Undo, At, service, caches, process, bags, files
  <2>2. Shrinks
    BY <1>7, KeptShrinks DEF Undo, files
  <2>3. PICK pc \in {"undiscard", "unjoin"} :
          Moves(w, pc) /\ UNCHANGED state
    BY <1>7, GotoMoves DEF Undo, IInv, Steps, service
  <2>4. Open => Phase(worker[w].pc, state)
    BY DEF IInv, Busy
  <2>5. (Open' => Open) /\ (Open' => Phase(pc, state'))
    BY <2>1, <2>3, <2>4 DEF Open, Phase, Starting, Stopping, Saving, Cancelling
  <2>6. IInv' /\ ErrorStep
    BY <2>1, <2>2, <2>3, <2>5, Advance DEF Steps, Lifecycle, Starting, Stopping,
       Saving, Cancelling
  <2> QED BY <2>1, <2>2, <2>6, Dropping DEF IInv, Good
<1>8. CASE UndoJoin(w)
  <2>1. /\ worker[w].pc = "unjoin" /\ UNCHANGED <<issued, exit, told>>
        /\ active' \in {active, None}
    BY <1>8 DEF UndoJoin, At, service, caches, process, bags, files
  <2>2. Shrinks
    BY <1>8, KeptShrinks DEF UndoJoin, files
  <2>3. PICK pc \in {"undiscard", "idle"} :
          Moves(w, pc) /\ (pc # "idle" => UNCHANGED state)
    BY <1>8, GotoMoves, DoneMoves DEF UndoJoin, IInv, Steps, service
  <2>4. Open => Phase(worker[w].pc, state)
    BY DEF IInv, Busy
  <2>5. (Open' => Open) /\ (Open' => Phase(pc, state'))
    BY <2>1, <2>3, <2>4 DEF Open, Phase, Starting, Stopping, Saving, Cancelling
  <2>6. IInv' /\ ErrorStep
    BY <2>1, <2>2, <2>3, <2>5, Advance DEF Steps, Lifecycle, Starting, Stopping,
       Saving, Cancelling
  <2> QED BY <2>1, <2>2, <2>6, Dropping DEF IInv, Good
<1>9. CASE UndoDiscard(w)
  <2>1. /\ worker[w].pc = "undiscard" /\ UNCHANGED <<issued, exit, told>>
        /\ active' \in {active, None}
    BY <1>9 DEF UndoDiscard, At, service, caches, process, bags, files
  <2>2. Shrinks
    BY <1>9, DiscardShrinks DEF UndoDiscard, IInv, Holding, At, Col
  <2>3. PICK pc \in {"undone"} :
          Moves(w, pc) /\ UNCHANGED state
    BY <1>9, GotoMoves DEF UndoDiscard, IInv, Steps, service
  <2>4. Open => Phase(worker[w].pc, state)
    BY DEF IInv, Busy
  <2>5. (Open' => Open) /\ (Open' => Phase(pc, state'))
    BY <2>1, <2>3, <2>4 DEF Open, Phase, Starting, Stopping, Saving, Cancelling
  <2>6. IInv' /\ ErrorStep
    BY <2>1, <2>2, <2>3, <2>5, Advance DEF Steps, Lifecycle, Starting, Stopping,
       Saving, Cancelling
  <2> QED BY <2>1, <2>2, <2>6, Dropping DEF IInv, Good
<1>10. CASE Undone(w)
  <2>1. /\ worker[w].pc = "undone" /\ UNCHANGED <<issued, exit, told>>
        /\ active' \in {active, None}
    BY <1>10 DEF Undone, At, service, caches, process, bags, files
  <2>2. Shrinks
    BY <1>10, KeptShrinks DEF Undone, files
  <2>3. PICK pc \in {"idle"} :
          Moves(w, pc)
    BY <1>10, DoneMoves DEF Undone, IInv, Steps
  <2>4. Open => Phase(worker[w].pc, state)
    BY DEF IInv, Busy
  <2>5. (Open' => Open) /\ (Open' => Phase(pc, state'))
    BY <2>1, <2>3, <2>4 DEF Open, Phase, Starting, Stopping, Saving, Cancelling
  <2>6. IInv' /\ ErrorStep
    BY <2>1, <2>2, <2>3, <2>5, Advance DEF Steps, Lifecycle, Starting, Stopping,
       Saving, Cancelling
  <2> QED BY <2>1, <2>2, <2>6, Dropping DEF IInv, Good
<1>11. CASE Quiesce(w)
  <2>1. /\ worker[w].pc = "quiesce" /\ UNCHANGED <<issued, exit, told>>
        /\ active' \in {active, None}
    BY <1>11 DEF Quiesce, At, service, caches, process, bags, files
  <2>2. Shrinks
    BY <1>11, KeptShrinks DEF Quiesce, files
  <2>3. PICK pc \in {"join"} :
          Moves(w, pc) /\ UNCHANGED state
    BY <1>11, GotoMoves DEF Quiesce, IInv, Steps, service
  <2>4. Open => Phase(worker[w].pc, state)
    BY DEF IInv, Busy
  <2>5. (Open' => Open) /\ (Open' => Phase(pc, state'))
    BY <2>1, <2>3, <2>4 DEF Open, Phase, Starting, Stopping, Saving, Cancelling
  <2>6. IInv' /\ ErrorStep
    BY <2>1, <2>2, <2>3, <2>5, Advance DEF Steps, Lifecycle, Starting, Stopping,
       Saving, Cancelling
  <2> QED BY <2>1, <2>2, <2>6, Dropping DEF IInv, Good
<1>12. CASE Verify(w)
  <2>1. /\ worker[w].pc = "join" /\ UNCHANGED <<issued, exit, told>>
        /\ active' \in {active, None}
    BY <1>12 DEF Verify, At, service, caches, process, bags, files
  <2>2. Shrinks
    BY <1>12, KeptShrinks DEF Verify, files
  <2>3. PICK pc \in {"session", "idle"} :
          Moves(w, pc) /\ (pc # "idle" => UNCHANGED state)
    BY <1>12, GotoMoves, DoneMoves DEF Verify, IInv, Steps, service
  <2>4. Open => Phase(worker[w].pc, state)
    BY DEF IInv, Busy
  <2>5. (Open' => Open) /\ (Open' => Phase(pc, state'))
    BY <2>1, <2>3, <2>4 DEF Open, Phase, Starting, Stopping, Saving, Cancelling
  <2>6. IInv' /\ ErrorStep
    BY <2>1, <2>2, <2>3, <2>5, Advance DEF Steps, Lifecycle, Starting, Stopping,
       Saving, Cancelling
  <2> QED BY <2>1, <2>2, <2>6, Dropping DEF IInv, Good
<1>13. CASE Session(w)
  <2>1. /\ worker[w].pc = "session" /\ UNCHANGED <<issued, exit, told>>
        /\ active' \in {active, None}
    BY <1>13 DEF Session, At, service, caches, process, bags, files
  <2>2. Shrinks
    <3>1. CASE UNCHANGED disk
      BY <3>1, KeptShrinks
    <3>2. CASE disk' = [disk EXCEPT ![Col(w)].session = "pending"]
      BY <3>2 DEF IInv, TypeOK, Directories, Shrinks
    <3> QED BY <1>13, <3>1, <3>2 DEF Session
  <2>3. PICK pc \in {"manifest", "idle"} :
          Moves(w, pc) /\ (pc = "manifest" => state' = "saving")
    BY <1>13, GotoMoves, DoneMoves DEF Session, IInv, Steps
  <2>4. Open => Phase(worker[w].pc, state)
    BY DEF IInv, Busy
  <2>5. (Open' => Open) /\ (Open' => Phase(pc, state'))
    BY <2>1, <2>3, <2>4 DEF Open, Phase, Starting, Stopping, Saving, Cancelling
  <2>6. IInv' /\ ErrorStep
    BY <2>1, <2>2, <2>3, <2>5, Advance DEF Steps, Lifecycle, Starting, Stopping,
       Saving, Cancelling
  <2> QED BY <2>1, <2>2, <2>6, Dropping DEF IInv, Good
<1>14. CASE Manifest(w)
  <2>1. /\ worker[w].pc = "manifest" /\ UNCHANGED <<issued, exit, told>>
        /\ active' \in {active, None}
    BY <1>14 DEF Manifest, At, service, caches, process, bags, files
  <2>2. Shrinks
    <3>1. CASE UNCHANGED disk
      BY <3>1, KeptShrinks
    <3>2. CASE disk' = [disk EXCEPT ![Col(w)].session = "saved"]
      BY <3>2 DEF IInv, TypeOK, Directories, Shrinks
    <3> QED BY <1>14, <3>1, <3>2 DEF Manifest
  <2>3. PICK pc \in {"check", "idle"} :
          Moves(w, pc) /\ (pc # "idle" => UNCHANGED state)
    BY <1>14, GotoMoves, DoneMoves DEF Manifest, IInv, Steps, SaveFails, service
  <2>4. Open => Phase(worker[w].pc, state)
    BY DEF IInv, Busy
  <2>5. (Open' => Open) /\ (Open' => Phase(pc, state'))
    BY <2>1, <2>3, <2>4 DEF Open, Phase, Starting, Stopping, Saving, Cancelling
  <2>6. IInv' /\ ErrorStep
    BY <2>1, <2>2, <2>3, <2>5, Advance DEF Steps, Lifecycle, Starting, Stopping,
       Saving, Cancelling
  <2> QED BY <2>1, <2>2, <2>6, Dropping DEF IInv, Good
<1>15. CASE CheckOwned(w)
  <2>1. /\ worker[w].pc = "check" /\ UNCHANGED <<issued, exit, told>>
        /\ active' \in {active, None}
    BY <1>15 DEF CheckOwned, At, service, caches, process, bags, files
  <2>2. Shrinks
    BY <1>15, KeptShrinks DEF CheckOwned, files
  <2>3. PICK pc \in {"rename", "idle"} :
          Moves(w, pc) /\ (pc # "idle" => UNCHANGED state)
    BY <1>15, GotoMoves, DoneMoves DEF CheckOwned, IInv, Steps, SaveFails, service
  <2>4. Open => Phase(worker[w].pc, state)
    BY DEF IInv, Busy
  <2>5. (Open' => Open) /\ (Open' => Phase(pc, state'))
    BY <2>1, <2>3, <2>4 DEF Open, Phase, Starting, Stopping, Saving, Cancelling
  <2>6. IInv' /\ ErrorStep
    BY <2>1, <2>2, <2>3, <2>5, Advance DEF Steps, Lifecycle, Starting, Stopping,
       Saving, Cancelling
  <2> QED BY <2>1, <2>2, <2>6, Dropping DEF IInv, Good
<1>16. CASE Unmark(w)
  <2>1. /\ worker[w].pc = "unmark" /\ UNCHANGED <<issued, exit, told>>
        /\ active' \in {active, None}
    BY <1>16 DEF Unmark, At, service, caches, process, bags, files
  <2>2. Shrinks
    <3>1. CASE UNCHANGED disk
      BY <3>1, KeptShrinks
    <3>2. CASE disk' = [disk EXCEPT ![Col(w)].marker = FALSE]
      BY <3>2 DEF IInv, TypeOK, Directories, Shrinks
    <3> QED BY <1>16, <3>1, <3>2 DEF Unmark
  <2>3. PICK pc \in {"saved", "idle"} :
          Moves(w, pc) /\ (pc # "idle" => UNCHANGED state) /\ (Reliable => pc = "saved")
    BY <1>16, GotoMoves, DoneMoves DEF Unmark, IInv, Steps, SaveFails, Reliable, service
  <2>4. Open => Phase(worker[w].pc, state)
    BY DEF IInv, Busy
  <2>5. (Open' => Open) /\ (Open' => Phase(pc, state'))
    BY <2>1, <2>3, <2>4 DEF Open, Phase, Starting, Stopping, Saving, Cancelling
  <2>6. IInv' /\ ErrorStep
    BY <2>1, <2>2, <2>3, <2>5, Advance DEF Steps, Lifecycle, Starting, Stopping,
       Saving, Cancelling
  <2> QED BY <2>1, <2>2, <2>6, Dropping DEF IInv, Good
<1>17. CASE CancelAbort(w)
  <2>1. /\ worker[w].pc = "abort" /\ UNCHANGED <<issued, exit, told>>
        /\ active' \in {active, None}
    BY <1>17 DEF CancelAbort, At, service, caches, process, bags, files
  <2>2. Shrinks
    BY <1>17, KeptShrinks DEF CancelAbort, files
  <2>3. PICK pc \in {"abortjoin"} :
          Moves(w, pc) /\ UNCHANGED state
    BY <1>17, GotoMoves DEF CancelAbort, IInv, Steps, service
  <2>4. Open => Phase(worker[w].pc, state)
    BY DEF IInv, Busy
  <2>5. (Open' => Open) /\ (Open' => Phase(pc, state'))
    BY <2>1, <2>3, <2>4 DEF Open, Phase, Starting, Stopping, Saving, Cancelling
  <2>6. IInv' /\ ErrorStep
    BY <2>1, <2>2, <2>3, <2>5, Advance DEF Steps, Lifecycle, Starting, Stopping,
       Saving, Cancelling
  <2> QED BY <2>1, <2>2, <2>6, Dropping DEF IInv, Good
<1>18. CASE CancelJoin(w)
  <2>1. /\ worker[w].pc = "abortjoin" /\ UNCHANGED <<issued, exit, told>>
        /\ active' \in {active, None}
    BY <1>18 DEF CancelJoin, At, service, caches, process, bags, files
  <2>2. Shrinks
    BY <1>18, KeptShrinks DEF CancelJoin, files
  <2>3. PICK pc \in {"discard", "idle"} :
          Moves(w, pc) /\ (pc # "idle" => UNCHANGED state)
    BY <1>18, GotoMoves, DoneMoves DEF CancelJoin, IInv, Steps, service
  <2>4. Open => Phase(worker[w].pc, state)
    BY DEF IInv, Busy
  <2>5. (Open' => Open) /\ (Open' => Phase(pc, state'))
    BY <2>1, <2>3, <2>4 DEF Open, Phase, Starting, Stopping, Saving, Cancelling
  <2>6. IInv' /\ ErrorStep
    BY <2>1, <2>2, <2>3, <2>5, Advance DEF Steps, Lifecycle, Starting, Stopping,
       Saving, Cancelling
  <2> QED BY <2>1, <2>2, <2>6, Dropping DEF IInv, Good
<1>19. CASE CancelDiscard(w)
  <2>1. /\ worker[w].pc = "discard" /\ UNCHANGED <<issued, exit, told>>
        /\ active' \in {active, None}
    BY <1>19 DEF CancelDiscard, At, service, caches, process, bags, files
  <2>2. Shrinks
    BY <1>19, DiscardShrinks DEF CancelDiscard, IInv, Holding, At, Col
  <2>3. PICK pc \in {"cancelled", "idle"} :
          Moves(w, pc) /\ (pc # "idle" => UNCHANGED state) /\ (pc = "cancelled" => DiscardOk(Col(w)))
    BY <1>19, GotoMoves, DoneMoves DEF CancelDiscard, IInv, Steps, service
  <2>4. Open => Phase(worker[w].pc, state)
    BY DEF IInv, Busy
  <2>5. (Open' => Open) /\ (Open' => Phase(pc, state'))
    BY <2>1, <2>3, <2>4 DEF Open, Phase, Starting, Stopping, Saving, Cancelling
  <2>6. Reliable /\ pc = "cancelled" => disk'[worker[w].col].where = "removed"
    BY <2>1, <2>3, DiscardRemoves DEF IInv, Holding, Unsaved, Cancelling, Col
  <2>7. IInv' /\ ErrorStep
    BY <2>1, <2>2, <2>3, <2>6, <2>5, Advance DEF Steps, Lifecycle, Starting, Stopping,
       Saving, Cancelling
  <2> QED BY <2>1, <2>2, <2>7, Dropping DEF IInv, Good
<1> QED BY <1>1, <1>2, <1>3, <1>4, <1>5, <1>6, <1>7, <1>8, <1>9, <1>10, <1>11, <1>12,
   <1>13, <1>14, <1>15, <1>16, <1>17, <1>18, <1>19

\* A failure before anything was made or moved.
LEMMA FailedStepsGood ==
  ASSUME IInv, TypeOK', NEW w \in Workers,
         \/ Stage(w) /\ Goto(w, "undo") /\ UNCHANGED disk
         \/ Rename(w) /\ Done(w) /\ UNCHANGED disk
         \/ MoveToTrash(w) /\ Done(w) /\ UNCHANGED disk
  PROVE  Good
<1>1. Shrinks /\ UNCHANGED <<issued, exit, told, active>>
  BY KeptShrinks DEF Stage, Rename, MoveToTrash, service, process
<1>2. Open => Phase(worker[w].pc, state)
  BY DEF IInv, Busy
<1>3. CASE Stage(w) /\ Goto(w, "undo") /\ UNCHANGED disk
  <2>1. worker[w].pc = "stage" /\ UNCHANGED state
    BY <1>3 DEF Stage, At, service
  <2>2. Moves(w, "undo")
    BY <1>3, GotoMoves DEF IInv, Steps
  <2>3. (Open' => Open) /\ (Open' => Phase("undo", state'))
    BY <1>1, <1>2, <2>1 DEF Open, Phase, Starting, Stopping, Saving, Cancelling
  <2>4. IInv' /\ ErrorStep
    BY <1>1, <2>1, <2>2, <2>3, Advance
    DEF Steps, Lifecycle, Starting, Stopping, Saving, Cancelling
  <2> QED BY <1>1, <2>4, Dropping DEF IInv, Good
<1>4. CASE (Rename(w) \/ MoveToTrash(w)) /\ Done(w) /\ UNCHANGED disk
  <2>1. /\ worker[w].pc \in {"rename", "trash"}
        /\ worker[w].pc = "trash" => UNCHANGED state
    BY <1>4 DEF Rename, MoveToTrash, At, service
  <2>2. Moves(w, "idle")
    BY <1>4, DoneMoves DEF IInv
  <2>3. (Open' => Open) /\ Phase("idle", state')
    BY <1>1 DEF Open, Phase, Starting, Stopping, Saving, Cancelling
  <2>4. IInv' /\ ErrorStep
    BY <1>1, <2>1, <2>2, <2>3, Advance
    DEF Steps, Lifecycle, Starting, Stopping, Saving, Cancelling
  <2> QED BY <1>1, <2>4, Dropping DEF IInv, Good
<1> QED BY <1>3, <1>4

\* The answer of a completed request is true.
LEMMA AnswersGood ==
  ASSUME IInv, TypeOK', NEW w \in Workers, Saved(w) \/ Cancelled(w) \/ RemoveTaskDir(w)
  PROVE  Good
<1> DEFINE c == worker[w].col
<1>1. /\ Shrinks /\ UNCHANGED <<issued, exit, disk>> /\ active' \in {active, None}
      /\ Done(w) /\ worker[w].pc \in {"saved", "cancelled", "rmdir"}
      /\ worker[w].pc = "rmdir" => UNCHANGED state
      /\ worker[w].pc = "saved" => active' = None
  BY KeptShrinks DEF Saved, Cancelled, RemoveTaskDir, At, service, process, files
<1>2. Moves(w, "idle")
  BY <1>1, DoneMoves DEF IInv
<1>3. (Open' => Open) /\ Phase("idle", state')
  BY <1>1 DEF Open, Phase, Starting, Stopping, Saving, Cancelling
<1>4. IInv' /\ ErrorStep
  BY <1>1, <1>2, <1>3, Advance
  DEF Steps, Lifecycle, Starting, Stopping, Saving, Cancelling
<1>5. c \in Collections
  BY <1>1 DEF IInv, Holding
<1>6. ASSUME Reliable
      PROVE  Ledger!Answer(c)
  <2>1. \A d \in Collections : Record(d)' = Record(d)
    BY <1>1 DEF Record
  <2>2. PICK what \in Answers : told' = [told EXCEPT ![c] = @ \cup {what}] /\
          \/ what = "saved" /\ worker[w].pc = "saved"
          \/ what = "cancelled" /\ worker[w].pc = "cancelled"
          \/ what = "deleted" /\ worker[w].pc = "rmdir"
    BY DEF Saved, Cancelled, RemoveTaskDir, Tell, Col, At, Answers
  <2>3. what \in Ledger!Facts(c)
    <3>1. CASE worker[w].pc = "saved"
      <4>1. disk[c].where \in {"task", "trash"}
        BY <3>1 DEF IInv, Moved
      <4>2. Record(c) \in {"saved", "trash"}
        BY <4>1 DEF Record
      <4> QED BY <1>5, <2>2, <3>1, <4>2 DEF Ledger!Facts
    <3>2. CASE worker[w].pc = "cancelled"
      <4>1. disk[c].where = "removed"
        BY <1>6, <3>2 DEF IInv, Unsaved
      <4>2. Record(c) = "dropped"
        BY <4>1 DEF Record
      <4> QED BY <1>5, <2>2, <3>2, <4>2 DEF Ledger!Facts
    <3>3. CASE worker[w].pc = "rmdir"
      <4>1. disk[c].where = "trash"
        BY <3>3 DEF IInv, Moved
      <4>2. Record(c) = "trash"
        BY <4>1 DEF Record
      <4> QED BY <1>5, <2>2, <3>3, <4>2 DEF Ledger!Facts
    <3> QED BY <1>1, <3>1, <3>2, <3>3
  <2> QED BY <2>1, <2>2, <2>3 DEF Ledger!Answer
<1>7. Reliable => Ledger!Next
  BY <1>5, <1>6 DEF Ledger!Next
<1> QED BY <1>4, <1>7 DEF Good

\* A request takes the lifecycle over from nobody.
LEMMA RequestsGood ==
  ASSUME IInv, TypeOK', NEW w \in Workers,
         \/ Start(w) \/ Save(w) \/ Cancel(w)
         \/ \E save \in BOOLEAN : Stop(w, save)
  PROVE  Good
<1> DEFINE c  == worker'[w].col
           pc == worker'[w].pc
<1>1. /\ Open /\ worker[w].pc = "idle" /\ UNCHANGED <<active, disk, told, exit>>
      /\ state \in {"idle", "recording", "pending", "error"}
  BY DEF Start, Save, Cancel, Stop, Startable, Stoppable, Cancellable, At, service, process,
     files
<1>2. \A v \in Workers : v # w => worker'[v] = worker[v]
  BY DEF Start, Save, Cancel, Stop, IInv, TypeOK
<1>3. \/ pc = "stage" /\ state' = "starting" /\ c = issued + 1 /\ issued' = issued + 1
         /\ issued < MaxCollections
      \/ pc \in {"quiesce", "manifest", "abort"} /\ c = active /\ active # None
         /\ issued' = issued /\ state' \in {"stopping", "saving", "cancelling"}
  BY TargetIs DEF Start, Save, Cancel, Stop, IInv, TypeOK, process
<1>4. Phase(pc, state') /\ (state = "error" => state' = "cancelling")
  BY <1>1, <1>2 DEF Start, Save, Cancel, Stop, Startable, Stoppable, IInv, TypeOK, Phase,
     Starting, Stopping, Saving, Cancelling
<1>5. issued \in Nat /\ MaxCollections \in Nat /\ active \in Handles
  BY ControllerAssumption DEF IInv, TypeOK
<1>6. c \in Collections
  BY <1>3, <1>5 DEF Collections, Handles
<1>7. \A v \in Workers : worker[v].pc \notin Lifecycle
  BY <1>1 DEF IInv, Busy, Phase, Lifecycle
<1>8. Busy' /\ Alone' /\ Holding'
  <2>1. Busy'
    BY <1>2, <1>4, <1>7
    DEF Busy, Phase, Lifecycle, Starting, Stopping, Saving, Cancelling
  <2>2. Alone'
    BY <1>2, <1>7 DEF Alone
  <2>3. Holding'
    BY <1>2, <1>6 DEF IInv, Holding
  <2> QED BY <2>1, <2>2, <2>3
<1>9. Unissued'
  <2>1. SUFFICES ASSUME NEW d \in Collections, d > issued'
                 PROVE  /\ disk'[d].where = "none" /\ active' # d
                        /\ \A v \in Workers : worker'[v].col # d
    BY DEF Unissued
  <2>2. d \in Nat /\ d > issued
    BY <1>3, <1>5, <2>1 DEF Collections
  <2>3. c # d
    BY <1>3, <1>5, <2>1, <2>2 DEF IInv, Unissued
  <2> QED BY <1>1, <1>2, <2>2, <2>3 DEF IInv, Unissued
<1>10. Unstaged'
  <2>1. SUFFICES ASSUME pc = "stage"
                 PROVE  /\ disk'[c].where = "none" /\ active' # c
                        /\ \A v \in Workers : v # w => worker'[v].col # c
    BY <1>2, <1>7 DEF Unstaged, Lifecycle, Starting
  <2>2. c > issued
    BY <1>3, <1>5, <2>1
  <2> QED BY <1>1, <1>2, <1>6, <2>2 DEF IInv, Unissued
<1>11. ActiveStaged' /\ SavedByThread'
  <2>1. \A v \in Workers : worker[v].pc \notin {"unmark", "saved"}
    BY <1>7 DEF Lifecycle, Saving
  <2> QED BY <1>1, <2>1 DEF IInv, ActiveStaged, SavedByThread
<1>12. Unsaved'
  <2>1. \A v \in Workers : worker'[v].pc \in Lifecycle => v = w
    BY <1>2, <1>7
  <2>2. ASSUME Reliable, pc \in Cancelling
        PROVE  pc # "cancelled" /\ disk'[c].where \in {"staging", "removed"}
    <3>1. pc = "abort" /\ c = active /\ active # None
      BY <1>3, <2>2 DEF Cancelling
    <3>2. disk[active].where \notin {"task", "trash", "none"}
      BY <1>7, <2>2, <3>1
      DEF IInv, SavedByThread, ActiveStaged, Lifecycle, Saving
    <3>3. disk[c] \in Directories
      BY <1>6 DEF IInv, TypeOK
    <3> QED BY <1>1, <3>1, <3>2, <3>3 DEF Directories
  <2>3. pc \notin {"open", "activate"}
    BY <1>3
  <2> QED BY <2>1, <2>2, <2>3 DEF Unsaved, Lifecycle, Starting, Cancelling
<1>13. Moved'
  BY <1>1, <1>2, <1>3 DEF IInv, Moved
<1>14. ErrorStep
  BY <1>4 DEF ErrorStep
<1>15. Ledger!Next
  BY <1>1, KeptShrinks, Dropping DEF IInv
<1> QED BY <1>8, <1>9, <1>10, <1>11, <1>12, <1>13, <1>14, <1>15 DEF IInv, Good

LEMMA DeleteGood ==
  ASSUME IInv, TypeOK', NEW w \in Workers, NEW c \in Collections, Delete(w, c)
  PROVE  Good
<1>1. /\ disk[c].where = "task" /\ UNCHANGED <<state, issued, active, disk, told, exit, exits>>
      /\ worker' = [worker EXCEPT ![w] = [pc |-> "trash", col |-> c, save |-> FALSE]]
  BY DEF Delete, service, process, files
<1>2. \A v \in Workers : worker'[v] = IF v = w THEN [pc |-> "trash", col |-> c, save |-> FALSE]
                                               ELSE worker[v]
  BY <1>1 DEF IInv, TypeOK
<1>3. worker'[w].pc = "trash" /\ worker'[w].col = c
  BY <1>2
<1>4. Busy' /\ Alone' /\ Holding'
  BY <1>1, <1>2, <1>3 DEF IInv, Busy, Alone, Holding, Phase, Open, Lifecycle, Starting,
     Stopping, Saving, Cancelling
<1>5. Unissued' /\ Unstaged'
  BY <1>1, <1>2, <1>3 DEF IInv, Unissued, Unstaged
<1>6. ActiveStaged' /\ Unsaved' /\ Moved'
  BY <1>1, <1>2, <1>3 DEF IInv, ActiveStaged, Unsaved, Moved, Cancelling
<1>7. SavedByThread'
  <2>1. worker[w].pc = "idle"
    BY DEF Delete, At
  <2> QED BY <1>1, <1>2, <2>1 DEF IInv, SavedByThread
<1>8. ErrorStep
  BY <1>1 DEF ErrorStep
<1>9. Ledger!Next
  BY <1>1, KeptShrinks, Dropping DEF IInv
<1> QED BY <1>4, <1>5, <1>6, <1>7, <1>8, <1>9 DEF IInv, Good

\* The directory is made.
LEMMA StageGood ==
  ASSUME IInv, TypeOK', NEW w \in Workers, Stage(w)
  PROVE  Good
<1> DEFINE c == worker[w].col
<1>1. CASE Goto(w, "undo") /\ UNCHANGED disk
  BY <1>1, FailedStepsGood
<1>2. CASE /\ disk' = [disk EXCEPT ![c].where = "staging", ![c].marker = TRUE]
           /\ Goto(w, "open") \/ Goto(w, "undo")
  <2>1. /\ worker[w].pc = "stage" /\ UNCHANGED <<state, issued, active, told, exit, exits>>
    BY DEF Stage, At, service, process
  <2>2. PICK pc \in {"open", "undo"} : Moves(w, pc)
    BY <1>2, GotoMoves DEF IInv, Steps
  <2>3. /\ c \in Collections /\ disk[c].where = "none" /\ active # c
        /\ \A v \in Workers : v # w => worker[v].col # c
    BY <2>1 DEF IInv, Holding, Unstaged
  <2>4. /\ disk'[c].where = "staging"
        /\ \A d \in Collections : d # c => disk'[d].where = disk[d].where
    BY <1>2, <2>3 DEF IInv, TypeOK, Directories
  <2>5. Busy' /\ Alone' /\ Holding'
    BY <2>1, <2>2 DEF IInv, Busy, Alone, Holding, Moves, Phase, Open, Lifecycle, Starting,
       Stopping, Saving, Cancelling
  <2>6. Unissued'
    BY <2>1, <2>2, <2>4 DEF IInv, Unissued, Moves
  <2>7. Unstaged'
    BY <2>1, <2>2, <2>3, <2>4 DEF IInv, Unstaged, Holding, Moves
  <2>8. ActiveStaged' /\ SavedByThread'
    BY <2>1, <2>2, <2>3, <2>4 DEF IInv, ActiveStaged, SavedByThread, Moves, TypeOK, Handles
  <2>9. Unsaved' /\ Moved'
    BY <2>1, <2>2, <2>3, <2>4 DEF IInv, Unsaved, Moved, Holding, Moves, Cancelling
  <2>10. ErrorStep
    BY <2>1 DEF ErrorStep
  <2>11. Ledger!Begin(c)
    <3>1. \A d \in Collections : d = c => Record(d) = "absent" /\ Record(d)' = "unsaved"
      BY <2>3, <2>4 DEF Record
    <3>2. \A d \in Collections : d # c => Record(d)' = Record(d)
      BY <2>4 DEF Record
    <3> QED BY <2>1, <2>3, <3>1, <3>2 DEF Ledger!Begin
  <2> QED BY <2>3, <2>5, <2>6, <2>7, <2>8, <2>9, <2>10, <2>11 DEF IInv, Good, Ledger!Next
<1> QED BY <1>1, <1>2 DEF Stage, Col

LEMMA ActivateGood ==
  ASSUME IInv, TypeOK', NEW w \in Workers, Activate(w)
  PROVE  Good
<1> DEFINE c == worker[w].col
<1>1. /\ worker[w].pc = "activate" /\ active' = c
      /\ UNCHANGED <<state, issued, disk, told, exit, exits>>
  BY DEF Activate, At, Col, process, files
<1>2. PICK pc \in {"arm", "begin"} : Moves(w, pc)
  BY GotoMoves DEF Activate, IInv, Steps
<1>3. c \in Collections /\ disk[c].where \in {"staging", "removed"}
  BY <1>1 DEF IInv, Holding, Unsaved
<1>4. Busy' /\ Alone' /\ Holding'
  BY <1>1, <1>2 DEF IInv, Busy, Alone, Holding, Moves, Phase, Open, Lifecycle, Starting,
     Stopping, Saving, Cancelling
<1>5. Unissued'
  BY <1>1, <1>2 DEF IInv, Unissued, Moves
<1>6. Unstaged'
  BY <1>1, <1>2, <1>3 DEF IInv, Unstaged, Moves
<1>7. ActiveStaged' /\ SavedByThread'
  BY <1>1, <1>3 DEF ActiveStaged, SavedByThread
<1>8. Unsaved' /\ Moved'
  BY <1>1, <1>2 DEF IInv, Unsaved, Moved, Moves, Cancelling
<1>9. ErrorStep
  BY <1>1 DEF ErrorStep
<1>10. Ledger!Next
  BY <1>1, KeptShrinks, Dropping DEF IInv
<1> QED BY <1>4, <1>5, <1>6, <1>7, <1>8, <1>9, <1>10 DEF IInv, Good

\* The directory moves to the task, or to the recycle area.
LEMMA MovesGood ==
  ASSUME IInv, TypeOK', NEW w \in Workers, Rename(w) \/ MoveToTrash(w)
  PROVE  Good
<1> DEFINE c == worker[w].col
<1>1. CASE Done(w) /\ UNCHANGED disk
  BY <1>1, FailedStepsGood
<1>2. ASSUME NEW from \in {"staging", "task"}, NEW to \in {"task", "trash"},
             NEW pc \in {"unmark", "rmdir"},
             Goto(w, pc), UNCHANGED state, disk[c].where = from,
             disk' = [disk EXCEPT ![c].where = to],
             \/ from = "staging" /\ to = "task" /\ pc = "unmark" /\ worker[w].pc = "rename"
             \/ from = "task" /\ to = "trash" /\ pc = "rmdir" /\ worker[w].pc = "trash"
      PROVE  Good
  <2>1. UNCHANGED <<issued, active, told, exit, exits>>
    BY DEF Rename, MoveToTrash, service, process
  <2>2. Moves(w, pc)
    BY <1>2, GotoMoves DEF IInv, Steps
  <2>3. c \in Collections
    BY <1>2 DEF IInv, Holding
  <2>4. /\ disk'[c].where = to
        /\ \A d \in Collections : d # c => disk'[d].where = disk[d].where
    BY <1>2, <2>3 DEF IInv, TypeOK, Directories
  <2>5. Busy' /\ Alone' /\ Holding'
    BY <1>2, <2>1, <2>2 DEF IInv, Busy, Alone, Holding, Moves, Phase, Open, Lifecycle,
       Starting, Stopping, Saving, Cancelling
  <2>6. Unissued'
    BY <1>2, <2>1, <2>2, <2>4 DEF IInv, Unissued, Moves
  <2>7. Unstaged'
    BY <1>2, <2>1, <2>2, <2>3, <2>4 DEF IInv, Unstaged, Holding, Moves
  <2>8. ActiveStaged'
    BY <1>2, <2>1, <2>4 DEF IInv, ActiveStaged, TypeOK, Handles
  <2>9. Unsaved'
    <3>1. CASE worker[w].pc = "rename"
      <4>1. \A v \in Workers : v # w => worker'[v].pc \notin Lifecycle
        BY <2>2, <3>1 DEF IInv, Alone, Moves, Lifecycle, Saving
      <4> QED BY <1>2, <2>2, <3>1, <4>1
          DEF Unsaved, Moves, Lifecycle, Starting, Cancelling
    <3>2. CASE worker[w].pc = "trash"
      <4>1. /\ disk[c].where = "task"
            /\ pc = "rmdir"
        BY <1>2, <3>2
      <4>2. \A v \in Workers : v # w =>
              worker'[v].pc = worker[v].pc /\ worker'[v].col = worker[v].col
        BY <2>2 DEF Moves
      <4>3. worker'[w].pc = "rmdir"
        BY <2>2, <4>1 DEF Moves
      <4>4. ASSUME NEW v \in Workers, v # w, worker[v].col = c
            PROVE  /\ worker[v].pc \notin {"open", "activate"}
                   /\ Reliable => worker[v].pc \notin Cancelling
        BY <4>1, <4>4 DEF IInv, Unsaved, Cancelling
      <4>5. ASSUME NEW v \in Workers, v # w, worker[v].col # c, worker[v].pc # "idle"
            PROVE  disk'[worker[v].col].where = disk[worker[v].col].where
        BY <2>4, <4>5 DEF IInv, Holding
      <4>6. ASSUME NEW v \in Workers, v # w, worker[v].pc \in {"open", "activate"} \cup Cancelling
            PROVE  worker[v].col # c =>
                     disk'[worker[v].col].where = disk[worker[v].col].where
        BY <4>5, <4>6 DEF Cancelling
      <4>7. "rmdir" \notin {"open", "activate"} \cup Cancelling /\ "cancelled" \in Cancelling
        BY DEF Cancelling
      <4>8. ASSUME NEW v \in Workers, v # w, worker[v].pc \in {"open", "activate"}
            PROVE  disk'[worker[v].col].where \in {"staging", "removed"}
        BY <4>4, <4>6, <4>8 DEF IInv, Unsaved
      <4>9. ASSUME NEW v \in Workers, v # w, worker[v].pc \in Cancelling, Reliable
            PROVE  /\ disk'[worker[v].col].where \in {"staging", "removed"}
                   /\ worker[v].pc = "cancelled" => disk'[worker[v].col].where = "removed"
        BY <4>4, <4>6, <4>9 DEF IInv, Unsaved
      <4> SUFFICES ASSUME NEW v \in Workers
                   PROVE  /\ worker'[v].pc \in {"open", "activate"} =>
                               disk'[worker'[v].col].where \in {"staging", "removed"}
                          /\ Reliable /\ worker'[v].pc \in Cancelling =>
                               disk'[worker'[v].col].where \in {"staging", "removed"}
                          /\ Reliable /\ worker'[v].pc = "cancelled" =>
                               disk'[worker'[v].col].where = "removed"
        BY DEF Unsaved, Reliable, Cancelling
      <4>10. CASE v = w
        BY <4>3, <4>7, <4>10
      <4>11. CASE v # w
        <5>1. worker'[v].pc = worker[v].pc /\ worker'[v].col = worker[v].col
          BY <4>2, <4>11
        <5> QED BY <5>1, <4>7, <4>8, <4>9, <4>11
      <4> QED BY <4>10, <4>11
    <3> QED BY <1>2, <3>1, <3>2
  <2>10. SavedByThread'
    <3>1. CASE worker[w].pc = "rename"
      BY <1>2, <2>1, <2>2, <2>4, <3>1
      DEF IInv, SavedByThread, Moves, TypeOK, Handles
    <3>2. CASE worker[w].pc = "trash"
      BY <1>2, <2>1, <2>2, <2>4, <3>2
      DEF IInv, SavedByThread, Moves, TypeOK, Handles
    <3> QED BY <1>2, <3>1, <3>2
  <2>11. Moved'
    BY <1>2, <2>2, <2>3, <2>4 DEF IInv, Moved, Holding, Moves
  <2>12. ErrorStep
    BY <1>2 DEF ErrorStep
  <2>13. Ledger!Save(c) \/ Ledger!Delete(c)
    <3>1. \A d \in Collections : d # c => Record(d)' = Record(d)
      BY <2>4 DEF Record
    <3>2. CASE from = "staging"
      <4>1. \A d \in Collections : d = c => Record(d) = "unsaved" /\ Record(d)' = "saved"
        BY <1>2, <2>4, <3>2 DEF Record
      <4> QED BY <2>1, <2>3, <3>1, <4>1 DEF Ledger!Save
    <3>3. CASE from = "task"
      <4>1. \A d \in Collections : d = c => Record(d) = "saved" /\ Record(d)' = "trash"
        BY <1>2, <2>4, <3>3 DEF Record
      <4> QED BY <2>1, <2>3, <3>1, <4>1 DEF Ledger!Delete
    <3> QED BY <3>2, <3>3
  <2> QED BY <2>3, <2>5, <2>6, <2>7, <2>8, <2>9, <2>10, <2>11, <2>12, <2>13
      DEF IInv, Good, Ledger!Next
<1>3. CASE Rename(w)
  BY <1>1, <1>2, <1>3 DEF Rename, SaveFails, NotMoved, At, Col
<1>4. CASE MoveToTrash(w)
  BY <1>1, <1>2, <1>4 DEF MoveToTrash, At, Col, service
<1> QED BY <1>3, <1>4

LEMMA RestartGood ==
  ASSUME IInv, TypeOK', Restart
  PROVE  Good
<1>1. /\ UNCHANGED <<issued, told>> /\ active' = None /\ exits' = exits + 1
      /\ worker' = [w \in Workers |-> Idle]
  BY DEF Restart
<1>2. Shrinks
  <2>1. \A c \in Collections :
          disk'[c] = IF Owned(c) THEN [disk[c] EXCEPT !.where = "removed", !.marker = FALSE]
                                 ELSE disk[c]
    BY DEF Restart, Recovered
  <2>2. \A c \in Collections : disk[c] \in Directories
    BY DEF IInv, TypeOK
  <2> QED BY <2>1, <2>2 DEF Owned, Shrinks, Directories
<1>3. \A w \in Workers : worker'[w].pc = "idle" /\ worker'[w].col = None
  BY <1>1 DEF Idle
<1>4. Busy' /\ Alone' /\ Holding' /\ Unstaged' /\ Unsaved' /\ Moved'
  BY <1>3 DEF Busy, Alone, Holding, Unstaged, Unsaved, Moved, Phase, Lifecycle, Starting,
     Stopping, Saving, Cancelling
<1>5. Unissued'
  BY <1>1, <1>2, <1>3 DEF IInv, Unissued, Shrinks, None, Collections
<1>6. ActiveStaged' /\ SavedByThread'
  BY <1>1 DEF ActiveStaged, SavedByThread
<1>7. ErrorStep
  <2>1. exits \in 0..MaxExits
    BY DEF IInv, TypeOK
  <2> QED BY <1>1, <2>1, ControllerAssumption DEF ErrorStep
<1>8. Ledger!Next
  BY <1>1, <1>2, Dropping DEF IInv
<1> QED BY <1>4, <1>5, <1>6, <1>7, <1>8 DEF IInv, Good

LEMMA UnchangedGood ==
  ASSUME IInv, TypeOK', UNCHANGED vars
  PROVE  Good
<1>1. UNCHANGED <<issued, worker, told, active, state, disk, exit>>
  BY DEF vars, service, process, files
<1> QED BY <1>1, KeptShrinks, Frame DEF Open

LEMMA NextGood == IInv /\ [Next]_vars => Good
<1> SUFFICES ASSUME IInv, [Next]_vars PROVE Good
  OBVIOUS
<1>1. TypeOK'
  BY NextTyped DEF IInv
<1>2. ASSUME NEW w \in Workers, Request(w)
      PROVE  Good
  BY <1>1, <1>2, RequestsGood, DeleteGood DEF Request
<1>3. ASSUME NEW w \in Workers, Step(w)
      PROVE  Good
  BY <1>1, <1>3, StepsGood, AnswersGood, StageGood, ActivateGood, MovesGood DEF Step
<1>4. CASE Input \/ Sync \/ Exit \/ \E c \in Collections : WriterFails(c) \/ WriterEnds(c)
  BY <1>1, <1>4, OthersGood
<1>5. CASE Restart
  BY <1>1, <1>5, RestartGood
<1>6. CASE UNCHANGED vars
  BY <1>1, <1>6, UnchangedGood
<1> QED BY <1>2, <1>3, <1>4, <1>5, <1>6 DEF Next

LEMMA InitInvariant == Init => IInv
<1> SUFFICES ASSUME Init PROVE IInv
  OBVIOUS
<1>1. \A w \in Workers : worker[w].pc = "idle" /\ worker[w].col = None
  BY DEF Init, Idle
<1>2. active = None /\ \A c \in Collections : disk[c].where = "none"
  BY DEF Init, NoDir
<1>3. Busy /\ Alone /\ Holding /\ Unstaged /\ Unsaved /\ Moved
  BY <1>1 DEF Busy, Alone, Holding, Unstaged, Unsaved, Moved, Phase, Lifecycle, Starting,
     Stopping, Saving, Cancelling
<1>4. Unissued /\ ActiveStaged /\ SavedByThread
  BY <1>1, <1>2 DEF Unissued, ActiveStaged, SavedByThread, None, Collections
<1> QED BY <1>3, <1>4, InitTyped DEF IInv

LEMMA InvariantCorrect == Spec => []IInv
<1>1. IInv /\ [Next]_vars => IInv'
  BY NextGood DEF Good
<1> QED BY <1>1, InitInvariant, PTL DEF Spec

-----------------------------------------------------------------------------
(* The theorems *)

\* No two requests of the service threads are inside the lifecycle of a collection at
\* once: the state, which is checked and changed under the lock, is their mutex, even
\* though they run their file operations and joins outside the lock.
THEOREM ExclusiveCorrect == Spec => []Exclusive
<1>1. IInv => Exclusive
  <2>1. TypeOK => \A w \in Workers : worker[w].pc \in Steps
    BY DEF TypeOK, Threads
  <2>2. Steps \subseteq Lifecycle \cup {"idle", "trash", "rmdir"}
    BY DEF Steps, Lifecycle, Starting, Stopping, Saving, Cancelling
  <2> QED BY <2>1, <2>2 DEF IInv, Exclusive, InFlight, Deleting, At, Alone
<1> QED BY <1>1, InvariantCorrect, PTL

\* A failed collection can only be cancelled: whatever runs at the same time, ERROR is
\* left by a cancellation, by shutdown or with the process.
THEOREM ErrorIsFinalCorrect == Spec => ErrorIsFinal
<1>1. IInv /\ [Next]_vars => ErrorStep
  BY NextGood DEF Good
<1>2. ErrorStep => [state = "error" /\ Open /\ exits' = exits =>
                       state' \in {"error", "cancelling"}]_state
  BY DEF ErrorStep
<1> QED BY <1>1, <1>2, InvariantCorrect, PTL DEF Spec, ErrorIsFinal

\* The service keeps the promises of the ledger: a collection is saved once and stays
\* saved until it is deleted, what is dropped was not saved, and every answer was true.
\* Requests, shutdown, restarts and every fault but one may come in any order: when the
\* marker of a directory that was moved cannot be removed, a saved record is in ERROR.
THEOREM LedgerCorrect == "marker" \notin Faults => (Spec => ImplementsLedger)
<1> SUFFICES ASSUME "marker" \notin Faults PROVE Spec => ImplementsLedger
  OBVIOUS
<1>1. ASSUME Init PROVE Ledger!Init
  <2>1. told = [c \in Collections |-> {}] /\ disk = [c \in Collections |-> NoDir]
    BY <1>1 DEF Init
  <2>2. \A c \in Collections : disk[c].where = "none"
    BY <2>1 DEF NoDir
  <2>3. \A c \in Collections : Record(c) = "absent"
    BY <2>2 DEF Record
  <2> QED BY <2>1, <2>3 DEF Ledger!Init
<1>2. IInv /\ [Next]_vars => Ledger!Next
  BY NextGood DEF Good, Reliable
<1> QED BY <1>1, <1>2, InvariantCorrect, PTL DEF Spec, ImplementsLedger, Ledger!Spec
=============================================================================
