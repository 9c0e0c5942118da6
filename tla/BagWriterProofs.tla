-------------------------- MODULE BagWriterProofs --------------------------
(***************************************************************************)
(* What the queue in front of the MCAP bag guarantees for every number of  *)
(* producers, callers, topics and every queue limit.                       *)
(***************************************************************************)
EXTENDS BagWriter, SequenceTheorems, FiniteSetTheorems, TLAPS

-----------------------------------------------------------------------------
(* Types *)

\* _record_error leaves a failure code and a Boolean.
LEMMA RecordErrorTypes ==
  ASSUME Types, NEW code \in Codes, RecordError(code)
  PROVE  errorCode' \in Codes /\ accepting' \in BOOLEAN
BY DEF Types, RecordError

\* Every step keeps the type of every variable.
LEMMA TypesStep ==
  ASSUME Types, [Next]_vars
  PROVE  Types'
<1> USE DEF queueVars, threadVars
<1>1. CASE Start
  <2>1. thread' \in ThreadStates
    BY <1>1 DEF Start, ThreadStates
  <2>2. QED
    BY <1>1, <2>1 DEF Start, Types
<1>2. ASSUME NEW p \in Producers, NEW t \in Topics, Offer(p, t)
      PROVE  Types'
  <2>1. queue' \in Seq(Topics) /\ accepted' \in Seq(Topics)
    <3>1. /\ queue \in Seq(Topics) /\ queue' = Append(queue, t)
          /\ accepted \in Seq(Topics) /\ accepted' = Append(accepted, t)
      BY <1>2 DEF Offer, Types
    <3>2. QED
      BY <3>1
  <2>2. thread' \in ThreadStates
    BY <1>2 DEF Offer, Notified, ThreadStates, Types
  <2>3. queuedBytes' \in Int
    <3>1. /\ queuedBytes \in Int /\ Size[t] \in Nat
          /\ queuedBytes' = queuedBytes + Size[t]
      BY <1>2, WriterAssumption DEF Offer, Types
    <3>2. QED
      BY <3>1
  <2>4. QED
    BY <1>2, <2>1, <2>2, <2>3 DEF Offer, Types
<1>3. ASSUME NEW p \in Producers, NEW t \in Topics, OfferFull(p, t)
      PROVE  Types'
  <2>1. producer' \in [Producers -> {"idle", "overflow", "report"}]
    BY <1>3 DEF OfferFull, Types
  <2>2. QED
    BY <1>3, <2>1 DEF OfferFull, Types
<1>4. ASSUME NEW p \in Producers, OfferFails(p)
      PROVE  Types'
  <2>1. producer' \in [Producers -> {"idle", "overflow", "report"}]
    BY <1>4 DEF OfferFails, Types
  <2>2. errorCode' \in Codes /\ accepting' \in BOOLEAN
    BY <1>4, RecordErrorTypes DEF OfferFails, Codes
  <2>3. QED
    BY <1>4, <2>1, <2>2 DEF OfferFails, Types
<1>5. ASSUME NEW p \in Producers, OfferReports(p)
      PROVE  Types'
  <2>1. producer' \in [Producers -> {"idle", "overflow", "report"}]
    BY <1>5 DEF OfferReports, Types
  <2>2. reported' \in Seq(Codes)
    <3>1. /\ reported \in Seq(Codes) /\ Overflow \in Codes
          /\ reported' = Append(reported, Overflow)
      BY <1>5 DEF OfferReports, Types, Codes
    <3>2. QED
      BY <3>1
  <2>3. QED
    BY <1>5, <2>1, <2>2 DEF OfferReports, Types
<1>6. CASE Take
  <2>1. item' \in Topics /\ queue' \in Seq(Topics)
    BY <1>6 DEF Take, Types
  <2>2. queuedBytes' \in Int
    BY <1>6, WriterAssumption DEF Take, Types
  <2>3. thread' \in ThreadStates
    BY <1>6 DEF Take, ThreadStates
  <2>4. QED
    BY <1>6, <2>1, <2>2, <2>3 DEF Take, Types
<1>7. CASE Drained
  <2>1. thread' \in ThreadStates
    BY <1>7 DEF Drained, ThreadStates
  <2>2. QED
    BY <1>7, <2>1 DEF Drained, Types
<1>8. CASE CheckError
  <2>1. thread' \in ThreadStates
    BY <1>8 DEF CheckError, AfterCheck, ThreadStates
  <2>2. QED
    BY <1>8, <2>1 DEF CheckError, Types
<1>9. CASE Write
  <2>1. thread' \in ThreadStates
    BY <1>9 DEF Write, ThreadStates
  <2>2. file' \in Seq(Topics)
    <3>1. /\ file \in Seq(Topics) /\ item \in Topics
          /\ file' = file \/ file' = Append(file, item)
      BY <1>9 DEF Write, Types
    <3>2. QED
      BY <3>1
  <2>3. QED
    BY <1>9, <2>1, <2>2 DEF Write, Types
<1>10. CASE Count
  <2>1. thread' \in ThreadStates
    BY <1>10 DEF Count, ThreadStates
  <2>2. counts' \in [Topics -> Nat]
    BY <1>10 DEF Count, Types
  <2>3. QED
    BY <1>10, <2>1, <2>2 DEF Count, Types
<1>11. CASE Close
  <2>1. thread' \in ThreadStates /\ backend' \in {"unopened", "open", "closed"}
    BY <1>11 DEF Close, ThreadStates, Types
  <2>2. QED
    BY <1>11, <2>1 DEF Close, Types
<1>12. CASE ThreadFails
  <2>1. thread' \in ThreadStates
    BY <1>12 DEF ThreadFails, AfterFailure, ThreadStates
  <2>2. errorCode' \in Codes /\ accepting' \in BOOLEAN
    BY <1>12, RecordErrorTypes DEF ThreadFails, Codes
  <2>3. QED
    BY <1>12, <2>1, <2>2 DEF ThreadFails, Types
<1>13. CASE ThreadReports
  <2>1. thread' \in ThreadStates
    BY <1>13 DEF ThreadReports, ThreadStates
  <2>2. reported' \in Seq(Codes)
    <3>1. /\ reported \in Seq(Codes) /\ WriteFailed \in Codes
          /\ reported' = Append(reported, WriteFailed)
      BY <1>13 DEF ThreadReports, Types, Codes
    <3>2. QED
      BY <3>1
  <2>3. QED
    BY <1>13, <2>1, <2>2 DEF ThreadReports, Types
<1>14. ASSUME NEW c \in Callers, Finish(c) \/ Abort(c)
       PROVE  Types'
  <2>1. thread' \in ThreadStates
    BY <1>14 DEF Finish, Abort, Notified, ThreadStates, Types
  <2>2. call' \in [Callers -> {"idle", "finish", "abort", "finished", "aborted"}]
    BY <1>14 DEF Finish, Abort, Types
  <2>3. queue' \in Seq(Topics) /\ queuedBytes' \in Int
    <3>1. /\ queue \in Seq(Topics) /\ queuedBytes \in Int
          /\ queue' = queue \/ queue' = <<>>
          /\ queuedBytes' = queuedBytes \/ queuedBytes' = 0
      BY <1>14 DEF Finish, Abort, Types
    <3>2. queue' \in Seq(Topics)
      BY <3>1, EmptySeq
    <3>3. QED
      BY <3>1, <3>2
  <2>4. QED
    BY <1>14, <2>1, <2>2, <2>3 DEF Finish, Abort, Types
<1>15. ASSUME NEW c \in Callers, Joined(c)
       PROVE  Types'
  <2>1. call' \in [Callers -> {"idle", "finish", "abort", "finished", "aborted"}]
    BY <1>15 DEF Joined, Types
  <2>2. errorCode' \in Codes /\ accepting' \in BOOLEAN
    BY <1>15, RecordErrorTypes DEF Joined, Types, RecordError, Codes
  <2>3. QED
    BY <1>15, <2>1, <2>2 DEF Joined, Types
<1>16. ASSUME NEW c \in Callers, Return(c)
       PROVE  Types'
  <2>1. [op |-> call[c], ok |-> Ok, stopped |-> ~Alive, counts |-> counts] \in ResultType
    BY <1>16 DEF Return, Ok, Alive, ResultType, Types
  <2>2. result' \in [Callers -> ResultType]
    BY <1>16, <2>1 DEF Return, Types
  <2>3. call' \in [Callers -> {"idle", "finish", "abort", "finished", "aborted"}]
    BY <1>16 DEF Return, Types
  <2>4. QED
    BY <1>16, <2>2, <2>3 DEF Return, Types
<1>17. CASE UNCHANGED vars
  BY <1>17 DEF vars, Types
<1>18. QED
  BY <1>1, <1>2, <1>3, <1>4, <1>5, <1>6, <1>7, <1>8, <1>9, <1>10, <1>11, <1>12, <1>13,
     <1>14, <1>15, <1>16, <1>17 DEF Next, Thread

\* The initial values have these types.
LEMMA InitTypes ==
  ASSUME Init
  PROVE  Types
<1>1. NoResult \in ResultType
  BY DEF NoResult, ResultType
<1>2. errorCode \in Codes /\ thread \in ThreadStates
  BY DEF Init, Codes, ThreadStates
<1>3. result \in [Callers -> ResultType]
  BY <1>1 DEF Init
<1>4. /\ counts \in [Topics -> Nat]
      /\ producer \in [Producers -> {"idle", "overflow", "report"}]
      /\ call \in [Callers -> {"idle", "finish", "abort", "finished", "aborted"}]
  BY DEF Init
<1>5. /\ queue \in Seq(Topics) /\ file \in Seq(Topics)
      /\ accepted \in Seq(Topics) /\ reported \in Seq(Codes)
  <2>1. queue = <<>> /\ file = <<>> /\ accepted = <<>> /\ reported = <<>>
    BY DEF Init
  <2>2. QED
    BY <2>1
<1>6. /\ accepting \in BOOLEAN /\ closing \in BOOLEAN
      /\ skipped \in BOOLEAN /\ aborted \in BOOLEAN
      /\ backend \in {"unopened", "open", "closed"} /\ item \in Topics
  BY Zenon DEF Init
<1>7. queuedBytes \in Int
  <2>1. queuedBytes = 0
    BY Zenon DEF Init
  <2>2. QED
    BY <2>1
<1>8. QED
  BY <1>2, <1>3, <1>4, <1>5, <1>6, <1>7 DEF Types

-----------------------------------------------------------------------------
(* The inductive invariant *)

\* The messages the thread has taken from the queue.
Taken == Len(file) + (IF thread \in {"item", "write"} THEN 1 ELSE 0)
Clean == errorCode = "" /\ thread # "writefail"

\* The message the thread is about to write is the next one of the bag.
HeldIsNext ==
  thread = "write" \/ (thread = "item" /\ errorCode = "") =>
    /\ Len(file) + 1 <= Len(accepted)
    /\ item = accepted[Len(file) + 1]

\* While nothing has failed the queue holds what follows the taken messages ...
QueueIsRest ==
  Clean => \A i \in 1..Len(queue) :
             Taken + i <= Len(accepted) /\ queue[i] = accepted[Taken + i]

\* ... and, unless abort discarded it, all of it.
NothingLost == Clean /\ ~aborted => Taken + Len(queue) = Len(accepted)

Stopped ==
  /\ closing => ~accepting
  /\ aborted => closing /\ queue = <<>>
  /\ \A c \in Callers : call[c] # "idle" => closing

Ended ==
  /\ thread \in {"close", "closefail", "reportclose", "dead"} => closing /\ queue = <<>>
  /\ thread = "reportclose" => errorCode # ""
  /\ thread = "dead" /\ errorCode = "" => backend = "closed"
  /\ thread = "none" => /\ backend = "unopened" /\ ~accepting
                        /\ accepted = <<>> /\ file = <<>> /\ queue = <<>>

ResultSound ==
  \A c \in Callers : result[c].ok =>
    /\ closing /\ ~Alive /\ backend # "open"
    /\ ~aborted => file = accepted

Log == BagIsPrefix /\ HeldIsNext /\ QueueIsRest /\ NothingLost

IInv == Types /\ Log /\ Stopped /\ Ended /\ ResultSound

-----------------------------------------------------------------------------
(* The inductive invariant holds *)

\* The initial state satisfies it.
LEMMA InitIInv ==
  ASSUME Init
  PROVE  IInv
<1>1. Types
  BY InitTypes
<1>2. /\ queue = <<>> /\ file = <<>> /\ accepted = <<>>
      /\ thread = "none" /\ backend = "unopened" /\ ~accepting /\ ~closing /\ ~aborted
      /\ \A c \in Callers : call[c] = "idle" /\ result[c].ok = FALSE
  BY DEF Init, NoResult
<1>3. Log
  BY <1>2 DEF Log, BagIsPrefix, HeldIsNext, QueueIsRest, NothingLost, Taken
<1>4. Stopped /\ Ended /\ ResultSound
  BY <1>2 DEF Stopped, Ended, ResultSound
<1>5. QED
  BY <1>1, <1>3, <1>4 DEF IInv

\* A step that leaves the messages where they are and repairs nothing.
LEMMA QuietKeepsLog ==
  ASSUME IInv,
         queue' = queue, accepted' = accepted, file' = file, item' = item,
         aborted => aborted', Clean' => Clean, Clean' => Taken' = Taken,
         thread' = "write" => thread = "write" \/ (thread = "item" /\ errorCode = ""),
         thread' = "item" => thread = "item" /\ (errorCode' = "" => errorCode = "")
  PROVE  Log'
<1>1. BagIsPrefix' /\ HeldIsNext'
  BY DEF IInv, Log, BagIsPrefix, HeldIsNext
<1>2. QueueIsRest'
  BY DEF IInv, Log, QueueIsRest
<1>3. NothingLost'
  BY DEF IInv, Log, NothingLost
<1>4. QED
  BY <1>1, <1>2, <1>3 DEF Log

\* The same for the steps of the lock's other users: the thread does not move, except
\* that it may be woken up, and a failure may be recorded.
LEMMA OthersKeepLog ==
  ASSUME IInv,
         queue' = queue, accepted' = accepted, file' = file, item' = item,
         aborted' = aborted, errorCode' = "" => errorCode = "",
         thread' \in {thread, Notified}
  PROVE  Log'
<1>1. /\ thread' = "item" <=> thread = "item"
      /\ thread' = "write" <=> thread = "write"
      /\ thread' = "writefail" <=> thread = "writefail"
  BY DEF Notified
<1>2. Taken' = Taken
  BY <1>1 DEF Taken
<1>3. Clean' => Clean
  BY <1>1 DEF Clean
<1>4. QED
  BY <1>1, <1>2, <1>3, QuietKeepsLog

\* offer adds the message at the end of the queue and of what was accepted.
LEMMA OfferKeepsLog ==
  ASSUME IInv, NEW p \in Producers, NEW t \in Topics, Offer(p, t)
  PROVE  Log'
<1>1. /\ file' = file /\ item' = item /\ errorCode' = errorCode /\ aborted' = aborted
      /\ ~aborted /\ thread' = Notified
  BY DEF Offer, IInv, Stopped
<1>2. /\ thread' = "item" <=> thread = "item"
      /\ thread' = "write" <=> thread = "write"
      /\ thread' = "writefail" <=> thread = "writefail"
  BY <1>1 DEF Notified
<1>3. Len(queue) \in Nat /\ Len(file) \in Nat /\ Len(accepted) \in Nat
  BY DEF IInv, Types
<1>4. Taken' = Taken /\ (Clean' <=> Clean)
  BY <1>1, <1>2 DEF Taken, Clean
<1>5. Taken \in Nat
  BY <1>3 DEF Taken
<1>6. /\ Len(accepted') = Len(accepted) + 1
      /\ \A i \in 1..Len(accepted) : accepted'[i] = accepted[i]
      /\ accepted'[Len(accepted) + 1] = t
  <2>1. accepted \in Seq(Topics) /\ accepted' = Append(accepted, t)
    BY DEF Offer, IInv, Types
  <2>2. QED
    BY <2>1
<1>7. /\ Len(queue') = Len(queue) + 1
      /\ \A i \in 1..Len(queue) : queue'[i] = queue[i]
      /\ queue'[Len(queue) + 1] = t
  <2>1. queue \in Seq(Topics) /\ queue' = Append(queue, t)
    BY DEF Offer, IInv, Types
  <2>2. QED
    BY <2>1
<1>8. BagIsPrefix'
  BY <1>1, <1>3, <1>6 DEF IInv, Log, BagIsPrefix
<1>9. HeldIsNext'
  <2>1. SUFFICES ASSUME thread = "write" \/ (thread = "item" /\ errorCode = "")
                 PROVE  /\ Len(file) + 1 <= Len(accepted')
                        /\ item = accepted'[Len(file) + 1]
    BY <1>1, <1>2 DEF HeldIsNext
  <2>2. Len(file) + 1 <= Len(accepted) /\ item = accepted[Len(file) + 1]
    BY <2>1 DEF IInv, Log, HeldIsNext
  <2>3. QED
    BY <2>2, <1>3, <1>6
<1>10. Clean => Taken + Len(queue) = Len(accepted)
  BY <1>1 DEF IInv, Log, NothingLost
<1>11. NothingLost'
  BY <1>3, <1>4, <1>5, <1>6, <1>7, <1>10 DEF NothingLost
<1>12. QueueIsRest'
  <2>1. SUFFICES ASSUME Clean, NEW i \in 1..Len(queue')
                 PROVE  Taken + i <= Len(accepted') /\ queue'[i] = accepted'[Taken + i]
    BY <1>4 DEF QueueIsRest
  <2>2. CASE i \in 1..Len(queue)
    <3>1. Taken + i <= Len(accepted) /\ queue[i] = accepted[Taken + i]
      BY <2>1, <2>2 DEF IInv, Log, QueueIsRest
    <3>2. QED
      BY <2>2, <3>1, <1>3, <1>5, <1>6, <1>7
  <2>3. CASE i = Len(queue) + 1
    BY <2>1, <2>3, <1>3, <1>5, <1>6, <1>7, <1>10
  <2>4. QED
    BY <2>2, <2>3, <1>3, <1>7
<1>13. QED
  BY <1>8, <1>9, <1>11, <1>12 DEF Log

\* The thread takes the oldest message of the queue.
LEMMA TakeKeepsLog ==
  ASSUME IInv, Take
  PROVE  Log'
<1>1. /\ file' = file /\ accepted' = accepted /\ errorCode' = errorCode
      /\ aborted' = aborted /\ thread = "loop" /\ thread' = "item"
  BY DEF Take, queueVars
<1>2. Len(queue) \in Nat /\ Len(file) \in Nat /\ Len(accepted) \in Nat
  BY DEF IInv, Types
<1>3. /\ Len(queue) >= 1 /\ Len(queue') = Len(queue) - 1 /\ item' = queue[1]
      /\ \A i \in 1..Len(queue') : queue'[i] = queue[i + 1]
  <2>1. queue \in Seq(Topics) /\ queue # <<>> /\ queue' = Tail(queue) /\ item' = Head(queue)
    BY DEF Take, IInv, Types
  <2>2. QED
    BY <2>1
<1>4. Taken = Len(file) /\ Taken' = Len(file) + 1
  BY <1>1, <1>2 DEF Taken
<1>5. Clean' <=> Clean
  BY <1>1 DEF Clean
<1>6. BagIsPrefix'
  BY <1>1 DEF IInv, Log, BagIsPrefix
<1>7. HeldIsNext'
  <2>1. SUFFICES ASSUME errorCode = ""
                 PROVE  Len(file) + 1 <= Len(accepted) /\ queue[1] = accepted[Len(file) + 1]
    BY <1>1, <1>3 DEF HeldIsNext
  <2>2. Clean
    BY <1>1, <2>1 DEF Clean
  <2>3. QED
    BY <2>2, <1>2, <1>3, <1>4 DEF IInv, Log, QueueIsRest
<1>8. QueueIsRest'
  <2>1. SUFFICES ASSUME Clean, NEW i \in 1..Len(queue')
                 PROVE  Taken' + i <= Len(accepted) /\ queue'[i] = accepted[Taken' + i]
    BY <1>1, <1>5 DEF QueueIsRest
  <2>2. i + 1 \in 1..Len(queue)
    BY <1>2, <1>3
  <2>3. Taken + (i + 1) <= Len(accepted) /\ queue[i + 1] = accepted[Taken + (i + 1)]
    BY <2>1, <2>2 DEF IInv, Log, QueueIsRest
  <2>4. Taken + (i + 1) = Taken' + i
    BY <1>2, <1>3, <1>4
  <2>5. QED
    BY <2>1, <2>3, <2>4, <1>3
<1>9. NothingLost'
  <2>1. Clean /\ ~aborted => Taken + Len(queue) = Len(accepted)
    BY DEF IInv, Log, NothingLost
  <2>2. Taken' + Len(queue') = Taken + Len(queue)
    BY <1>2, <1>3, <1>4
  <2>3. QED
    BY <2>1, <2>2, <1>1, <1>5 DEF NothingLost
<1>10. QED
  BY <1>6, <1>7, <1>8, <1>9 DEF Log

\* The bag takes the message the thread holds, or refuses it.
LEMMA WriteKeepsLog ==
  ASSUME IInv, Write
  PROVE  Log'
<1>1. /\ queue' = queue /\ accepted' = accepted /\ errorCode' = errorCode
      /\ item' = item /\ aborted' = aborted /\ thread = "write"
  BY DEF Write, queueVars
<1>2. CASE file' = file /\ thread' = "writefail"
  <2>1. ~Clean'
    BY <1>2 DEF Clean
  <2>2. QED
    BY <1>1, <1>2, <2>1, QuietKeepsLog
<1>3. CASE file' = Append(file, item) /\ thread' = "count"
  <2>1. Len(file) \in Nat /\ Len(accepted) \in Nat
    BY DEF IInv, Types
  <2>2. /\ Len(file') = Len(file) + 1
        /\ \A i \in 1..Len(file) : file'[i] = file[i]
        /\ file'[Len(file) + 1] = item
    <3>1. file \in Seq(Topics) /\ item \in Topics
      BY DEF IInv, Types
    <3>2. QED
      BY <3>1, <1>3
  <2>3. Taken' = Taken
    BY <1>1, <1>3, <2>1, <2>2 DEF Taken
  <2>4. Clean' => Clean
    BY <1>1, <1>3 DEF Clean
  <2>5. BagIsPrefix'
    BY <1>1, <2>1, <2>2 DEF IInv, Log, BagIsPrefix, HeldIsNext
  <2>6. HeldIsNext'
    BY <1>3 DEF HeldIsNext
  <2>7. QueueIsRest' /\ NothingLost'
    BY <1>1, <2>3, <2>4 DEF IInv, Log, QueueIsRest, NothingLost
  <2>8. QED
    BY <2>5, <2>6, <2>7 DEF Log
<1>4. QED
  BY <1>2, <1>3 DEF Write

\* Every step keeps the bag, the queue and the accepted messages in line.
LEMMA LogStep ==
  ASSUME IInv, [Next]_vars
  PROVE  Log'
<1> DEFINE Still == UNCHANGED <<queue, accepted, file, item, aborted>>
<1>1. CASE Start
  <2>1. Still /\ errorCode' = errorCode /\ thread = "none" /\ thread' = "loop"
    BY <1>1 DEF Start
  <2>2. QED
    BY <2>1, QuietKeepsLog DEF Clean, Taken
<1>2. CASE \E p \in Producers, t \in Topics : Offer(p, t)
  BY <1>2, OfferKeepsLog
<1>3. CASE \E p \in Producers, t \in Topics : OfferFull(p, t)
  <2>1. Still /\ errorCode' = errorCode /\ thread' = thread
    BY <1>3 DEF OfferFull, threadVars
  <2>2. QED
    BY <2>1, OthersKeepLog
<1>4. CASE \E p \in Producers : OfferFails(p) \/ OfferReports(p)
  <2>1. Still /\ (errorCode' = "" => errorCode = "") /\ thread' = thread
    BY <1>4 DEF OfferFails, OfferReports, RecordError, Overflow, queueVars, threadVars
  <2>2. QED
    BY <2>1, OthersKeepLog
<1>5. CASE Take
  BY <1>5, TakeKeepsLog
<1>6. CASE Drained
  <2>1. Still /\ errorCode' = errorCode /\ thread = "loop" /\ thread' \in {"close", "waiting"}
    BY <1>6 DEF Drained, queueVars
  <2>2. QED
    BY <2>1, QuietKeepsLog DEF Clean, Taken
<1>7. CASE CheckError
  <2>1. /\ Still /\ errorCode' = errorCode /\ thread = "item"
        /\ thread' = IF errorCode = "" THEN "write" ELSE "loop"
    BY <1>7 DEF CheckError, AfterCheck, queueVars
  <2>2. QED
    BY <2>1, QuietKeepsLog DEF Clean, Taken
<1>8. CASE Write
  BY <1>8, WriteKeepsLog
<1>9. CASE Count \/ Close \/ ThreadReports
  <2>1. /\ Still /\ errorCode' = errorCode
        /\ thread \in {"count", "close", "reportwrite", "reportclose"}
        /\ thread' \in {"loop", "dead", "closefail"}
    BY <1>9 DEF Count, Close, ThreadReports, queueVars
  <2>2. QED
    BY <2>1, QuietKeepsLog DEF Clean, Taken
<1>10. CASE ThreadFails
  <2>1. /\ Still /\ errorCode' # ""
        /\ thread' \in {"reportwrite", "reportclose", "loop", "dead"}
    BY <1>10 DEF ThreadFails, RecordError, AfterFailure, WriteFailed, queueVars
  <2>2. QED
    BY <2>1, QuietKeepsLog DEF Clean
<1>11. CASE \E c \in Callers : Finish(c)
  <2>1. Still /\ errorCode' = errorCode /\ thread' = Notified
    BY <1>11 DEF Finish, queueVars
  <2>2. QED
    BY <2>1, OthersKeepLog
<1>12. CASE \E c \in Callers : Abort(c)
  <2>1. /\ queue' = <<>> /\ aborted' /\ accepted' = accepted /\ file' = file
        /\ item' = item /\ errorCode' = errorCode /\ thread' = Notified
    BY <1>12 DEF Abort
  <2>2. BagIsPrefix' /\ HeldIsNext'
    BY <2>1 DEF IInv, Log, BagIsPrefix, HeldIsNext, Notified
  <2>3. QueueIsRest' /\ NothingLost'
    BY <2>1 DEF QueueIsRest, NothingLost
  <2>4. QED
    BY <2>2, <2>3 DEF Log
<1>13. CASE \E c \in Callers : Joined(c)
  <2>1. Still /\ (errorCode' = "" => errorCode = "") /\ thread' = thread
    BY <1>13 DEF Joined, RecordError, FinishTimeout, queueVars, threadVars
  <2>2. QED
    BY <2>1, OthersKeepLog
<1>14. CASE \E c \in Callers : Return(c)
  <2>1. Still /\ errorCode' = errorCode /\ thread' = thread
    BY <1>14 DEF Return, queueVars, threadVars
  <2>2. QED
    BY <2>1, OthersKeepLog
<1>15. CASE UNCHANGED vars
  BY <1>15, OthersKeepLog DEF vars
<1>16. QED
  BY <1>1, <1>2, <1>3, <1>4, <1>5, <1>6, <1>7, <1>8, <1>9, <1>10, <1>11, <1>12, <1>13,
     <1>14, <1>15 DEF Next, Thread

\* _record_error leaves a failure behind and never lets messages in again.
LEMMA RecordErrorEffect ==
  ASSUME NEW code \in {Overflow, WriteFailed, FinishTimeout}, RecordError(code)
  PROVE  errorCode' # "" /\ (accepting' => accepting)
<1>1. code # ""
  BY DEF Overflow, WriteFailed, FinishTimeout
<1>2. QED
  BY <1>1, Zenon DEF RecordError

\* Every step keeps the rules of closing: nothing is accepted once the writer closes,
\* abort leaves an empty queue, a caller waits only on a closing writer.
LEMMA StoppedStep ==
  ASSUME IInv, [Next]_vars
  PROVE  Stopped'
<1> USE DEF queueVars, threadVars, Stopped
<1>1. Stopped /\ (thread = "none" => queue = <<>>)
  BY DEF IInv, Ended
<1>2. CASE Start
  <2>1. UNCHANGED <<closing, aborted, queue, call>> /\ ~closing
    BY <1>2 DEF Start
  <2>2. QED
    BY <1>1, <2>1
<1>3. CASE \E p \in Producers, t \in Topics : Offer(p, t)
  <2>1. UNCHANGED <<closing, aborted, accepting, call>> /\ accepting
    BY <1>3 DEF Offer
  <2>2. QED
    BY <1>1, <2>1
<1>4. CASE \E p \in Producers, t \in Topics : OfferFull(p, t)
  <2>1. UNCHANGED <<closing, aborted, accepting, queue, call>>
    BY <1>4 DEF OfferFull
  <2>2. QED
    BY <1>1, <2>1
<1>5. CASE \E p \in Producers : OfferFails(p) \/ OfferReports(p)
  <2>1. /\ UNCHANGED <<closing, aborted, queue, call>>
        /\ RecordError(Overflow) \/ accepting' = accepting
    BY <1>5 DEF OfferFails, OfferReports
  <2>2. accepting' => accepting
    BY <2>1, RecordErrorEffect
  <2>3. QED
    BY <1>1, <2>1, <2>2
<1>6. CASE Take
  <2>1. UNCHANGED <<closing, aborted, accepting, call>> /\ queue # <<>>
    BY <1>6 DEF Take
  <2>2. QED
    BY <1>1, <2>1
<1>7. CASE Drained \/ CheckError \/ Write \/ Count \/ Close \/ ThreadFails \/ ThreadReports
  <2>1. /\ UNCHANGED <<closing, aborted, queue, call>>
        /\ RecordError(WriteFailed) \/ accepting' = accepting
    BY <1>7 DEF Drained, CheckError, Write, Count, Close, ThreadFails, ThreadReports
  <2>2. accepting' => accepting
    BY <2>1, RecordErrorEffect
  <2>3. QED
    BY <1>1, <2>1, <2>2
<1>8. CASE \E c \in Callers : Finish(c) \/ Abort(c)
  <2>1. closing' /\ ~accepting' /\ (aborted' => (aborted /\ queue' = queue) \/ queue' = <<>>)
    BY <1>8 DEF Finish, Abort
  <2>2. QED
    BY <1>1, <2>1
<1>9. CASE \E c \in Callers : Joined(c) \/ Return(c)
  <2>1. PICK c \in Callers : Joined(c) \/ Return(c)
    BY <1>9
  <2>2. UNCHANGED <<closing, aborted, queue>> /\ call[c] # "idle"
    BY <2>1 DEF Joined, Return
  <2>3. closing
    BY <1>1, <2>2
  <2>4. RecordError(FinishTimeout) \/ accepting' = accepting
    BY <2>1 DEF Joined, Return
  <2>5. accepting' => accepting
    BY <2>4, RecordErrorEffect
  <2>6. QED
    BY <1>1, <2>2, <2>3, <2>5
<1>10. CASE UNCHANGED vars
  <2>1. UNCHANGED <<closing, aborted, accepting, queue, call>>
    BY <1>10 DEF vars
  <2>2. QED
    BY <1>1, <2>1
<1>11. QED
  BY <1>2, <1>3, <1>4, <1>5, <1>6, <1>7, <1>8, <1>9, <1>10 DEF Next, Thread

\* Every step keeps what is known of a thread that is closing the bag or is gone.
LEMMA EndedStep ==
  ASSUME IInv, [Next]_vars
  PROVE  Ended'
<1> USE DEF queueVars, threadVars, Ended
<1>1. Ended /\ (closing => ~accepting)
  BY DEF IInv, Stopped
<1>2. CASE Start
  <2>1. thread' = "loop"
    BY <1>2 DEF Start
  <2>2. QED
    BY <2>1
<1>3. CASE \E p \in Producers, t \in Topics : Offer(p, t)
  <2>1. accepting /\ thread' = Notified
    BY <1>3 DEF Offer
  <2>2. thread \notin {"none", "close", "closefail", "reportclose", "dead"}
    BY <1>1, <2>1
  <2>3. QED
    BY <2>1, <2>2 DEF Notified
<1>4. CASE \E p \in Producers, t \in Topics : OfferFull(p, t)
  <2>1. UNCHANGED <<thread, closing, queue, errorCode, backend, accepting, accepted, file>>
    BY <1>4 DEF OfferFull
  <2>2. QED
    BY <1>1, <2>1
<1>5. CASE \E p \in Producers : OfferFails(p) \/ OfferReports(p)
  <2>1. /\ UNCHANGED <<thread, closing, queue, backend, accepted, file>>
        /\ RecordError(Overflow) \/ UNCHANGED <<accepting, errorCode>>
    BY <1>5 DEF OfferFails, OfferReports
  <2>2. accepting' => accepting
    BY <2>1, RecordErrorEffect
  <2>3. errorCode' = "" => errorCode = ""
    BY <2>1, RecordErrorEffect
  <2>4. QED
    BY <1>1, <2>1, <2>2, <2>3
<1>6. CASE Take \/ CheckError \/ Write \/ Count
  <2>1. thread' \in {"item", "write", "loop", "count", "writefail"}
    BY <1>6 DEF Take, CheckError, AfterCheck, Write, Count
  <2>2. QED
    BY <2>1
<1>7. CASE Drained
  <2>1. /\ UNCHANGED <<closing, queue>> /\ queue = <<>>
        /\ thread' = IF closing THEN "close" ELSE "waiting"
    BY <1>7 DEF Drained, Leaves
  <2>2. QED
    BY <1>1, <2>1
<1>8. CASE Close
  <2>1. /\ UNCHANGED <<closing, queue>> /\ thread = "close"
        /\ \/ backend' = "closed" /\ thread' = "dead"
           \/ thread' = "closefail"
    BY <1>8 DEF Close
  <2>2. QED
    BY <1>1, <2>1
<1>9. CASE ThreadFails
  <2>1. /\ UNCHANGED <<closing, queue, backend>> /\ errorCode' # ""
        /\ \/ thread = "closefail" /\ thread' \in {"reportclose", "dead"}
           \/ thread = "writefail" /\ thread' \in {"reportwrite", "loop"}
    BY <1>9 DEF ThreadFails, RecordError, AfterFailure, WriteFailed
  <2>2. QED
    BY <1>1, <2>1
<1>10. CASE ThreadReports
  <2>1. /\ UNCHANGED <<closing, queue, backend, errorCode>>
        /\ \/ thread = "reportclose" /\ thread' = "dead"
           \/ thread = "reportwrite" /\ thread' = "loop"
    BY <1>10 DEF ThreadReports
  <2>2. QED
    BY <1>1, <2>1
<1>11. CASE \E c \in Callers : Finish(c) \/ Abort(c)
  <2>1. /\ UNCHANGED <<errorCode, backend, accepted, file>> /\ closing' /\ ~accepting'
        /\ (queue' = queue \/ queue' = <<>>) /\ thread' = Notified
    BY <1>11 DEF Finish, Abort
  <2>2. QED
    BY <1>1, <2>1 DEF Notified
<1>12. CASE \E c \in Callers : Joined(c) \/ Return(c)
  <2>1. /\ UNCHANGED <<thread, closing, queue, backend, accepted, file>>
        /\ RecordError(FinishTimeout) \/ UNCHANGED <<accepting, errorCode>>
    BY <1>12 DEF Joined, Return
  <2>2. accepting' => accepting
    BY <2>1, RecordErrorEffect
  <2>3. errorCode' = "" => errorCode = ""
    BY <2>1, RecordErrorEffect
  <2>4. QED
    BY <1>1, <2>1, <2>2, <2>3
<1>13. CASE UNCHANGED vars
  <2>1. UNCHANGED <<thread, closing, queue, errorCode, backend, accepting, accepted, file>>
    BY <1>13 DEF vars
  <2>2. QED
    BY <1>1, <2>1
<1>14. QED
  BY <1>2, <1>3, <1>4, <1>5, <1>6, <1>7, <1>8, <1>9, <1>10, <1>11, <1>12, <1>13
     DEF Next, Thread

\* A result claims success only for a bag that is complete and will not change.
LEMMA ResultStep ==
  ASSUME IInv, [Next]_vars
  PROVE  ResultSound'
<1> USE DEF queueVars, threadVars
<1>1. SUFFICES ASSUME NEW c \in Callers, result'[c].ok
               PROVE  /\ closing' /\ ~Alive' /\ backend' # "open"
                      /\ ~aborted' => file' = accepted'
  BY DEF ResultSound
<1>2. CASE result'[c] = result[c]
  <2>1. /\ closing /\ thread \in {"none", "dead"} /\ backend # "open"
        /\ ~aborted => file = accepted
    BY <1>1, <1>2 DEF IInv, ResultSound, Alive
  <2>2. ~accepting
    BY <2>1 DEF IInv, Stopped
  <2>3. Notified = thread
    BY <2>1 DEF Notified
  <2>4. /\ UNCHANGED <<thread, backend, file, accepted>>
        /\ closing' /\ (aborted => aborted')
    <3>1. CASE Start \/ Thread
      BY <3>1, <2>1 DEF Start, Thread, Take, Drained, CheckError, Write, Count, Close,
                        ThreadFails, ThreadReports
    <3>2. CASE \E p \in Producers : OfferFails(p) \/ OfferReports(p)
      <4>1. UNCHANGED <<thread, backend, file, accepted, closing, aborted>>
        BY <3>2 DEF OfferFails, OfferReports
      <4>2. QED
        BY <4>1, <2>1
    <3>3. CASE \E p \in Producers, t \in Topics : Offer(p, t) \/ OfferFull(p, t)
      BY <3>3, <2>2 DEF Offer, OfferFull
    <3>4. CASE \E d \in Callers : Finish(d) \/ Abort(d)
      BY <3>4, <2>3 DEF Finish, Abort
    <3>5. CASE \E d \in Callers : Joined(d) \/ Return(d)
      <4>1. UNCHANGED <<thread, backend, file, accepted, closing, aborted>>
        BY <3>5 DEF Joined, Return
      <4>2. QED
        BY <4>1, <2>1
    <3>6. CASE UNCHANGED vars
      BY <3>6, <2>1 DEF vars
    <3>7. QED
      BY <3>1, <3>2, <3>3, <3>4, <3>5, <3>6 DEF Next
  <2>5. QED
    BY <2>1, <2>4 DEF Alive
<1>3. CASE result'[c] # result[c]
  <2>1. Return(c)
    <3>1. result \in [Callers -> ResultType]
      BY DEF IInv, Types
    <3>2. CASE \E d \in Callers : Return(d)
      BY <3>1, <3>2, <1>3 DEF Return
    <3>3. CASE ~(\E d \in Callers : Return(d))
      <4>1. result' = result
        BY <3>3 DEF Next, vars, Start, Thread, Take, Drained, CheckError, Write, Count,
                    Close, ThreadFails, ThreadReports, Offer, OfferFull, OfferFails,
                    OfferReports, Finish, Abort, Joined
      <4>2. QED
        BY <4>1, <1>3
    <3>4. QED
      BY <3>2, <3>3
  <2>2. /\ UNCHANGED <<thread, backend, file, accepted, closing, aborted, queue>>
        /\ call[c] # "idle"
    BY <2>1 DEF Return
  <2>3. ~Alive /\ errorCode = ""
    <3>1. result \in [Callers -> ResultType]
      BY DEF IInv, Types
    <3>2. result'[c].ok = Ok
      BY <2>1, <3>1 DEF Return
    <3>3. QED
      BY <3>2, <1>1 DEF Ok
  <2>4. closing
    BY <2>2 DEF IInv, Stopped
  <2>5. /\ thread \in {"none", "dead"} /\ queue = <<>> /\ backend # "open"
        /\ thread = "none" => accepted = <<>> /\ file = <<>>
    BY <2>3 DEF Alive, IInv, Ended
  <2>6. ASSUME ~aborted
        PROVE  file = accepted
    <3>1. Clean /\ Taken = Len(file) + 0
      BY <2>3, <2>5 DEF Clean, Taken
    <3>2. Len(file) = Len(accepted)
      <4>1. Taken + Len(queue) = Len(accepted)
        BY <2>6, <3>1 DEF IInv, Log, NothingLost
      <4>2. Len(queue) = 0 /\ Len(file) \in Nat
        BY <2>5 DEF IInv, Types
      <4>3. QED
        BY <3>1, <4>1, <4>2
    <3>3. file \in Seq(Topics) /\ accepted \in Seq(Topics)
      BY DEF IInv, Types
    <3>4. \A i \in 1..Len(file) : file[i] = accepted[i]
      BY DEF IInv, Log, BagIsPrefix
    <3>5. QED
      BY <3>2, <3>3, <3>4, SeqEqual
  <2>7. QED
    BY <2>2, <2>3, <2>4, <2>5, <2>6 DEF Alive
<1>4. QED
  BY <1>2, <1>3

-----------------------------------------------------------------------------
(* What follows for every behaviour *)

LEMMA IInvCorrect == Spec => []IInv
<1>1. Init => IInv
  BY InitIInv
<1>2. ASSUME IInv, [Next]_vars
      PROVE  IInv'
  <2>1. Types'
    BY <1>2, TypesStep DEF IInv
  <2>2. QED
    BY <1>2, <2>1, LogStep, StoppedStep, EndedStep, ResultStep DEF IInv
<1>3. QED
  BY <1>1, <1>2, PTL DEF Spec

\* finish and abort report success only for a closed bag that holds every accepted
\* message, unless abort threw the queue away.
THEOREM OkIsCompleteCorrect == Spec => []OkIsComplete
<1>1. IInv => OkIsComplete
  BY DEF IInv, ResultSound, OkIsComplete
<1>2. QED
  BY <1>1, IInvCorrect, PTL

-----------------------------------------------------------------------------
(* Comparing counts is enough *)

\* The places of a topic in a log.
Places(log, t) == {i \in DOMAIN log : log[i] = t}

\* The places of a topic in a log are finite in number.
LEMMA PlacesFinite ==
  ASSUME NEW log \in Seq(Topics), NEW t \in Topics
  PROVE  IsFiniteSet(Places(log, t)) /\ CountOf(log)[t] = Cardinality(Places(log, t))
<1>1. IsFiniteSet(1..Len(log))
  BY FS_Interval
<1>2. Places(log, t) \in SUBSET (1..Len(log))
  BY DEF Places
<1>3. QED
  BY <1>1, <1>2, FS_Subset DEF CountOf, Places

\* An appended message counts once, for its topic.
LEMMA CountAppend ==
  ASSUME NEW log \in Seq(Topics), NEW x \in Topics
  PROVE  \A t \in Topics : CountOf(Append(log, x))[t] = CountOf(log)[t] + (IF t = x THEN 1 ELSE 0)
<1> SUFFICES ASSUME NEW t \in Topics
             PROVE  CountOf(Append(log, x))[t] = CountOf(log)[t] + (IF t = x THEN 1 ELSE 0)
  OBVIOUS
<1>1. /\ Append(log, x) \in Seq(Topics) /\ Len(Append(log, x)) = Len(log) + 1
      /\ \A i \in 1..Len(log) : Append(log, x)[i] = log[i]
      /\ Append(log, x)[Len(log) + 1] = x
  BY AppendProperties
<1>2. IsFiniteSet(Places(log, t)) /\ Cardinality(Places(log, t)) \in Nat
  BY PlacesFinite, FS_CardinalityType
<1>3. /\ CountOf(log)[t] = Cardinality(Places(log, t))
      /\ CountOf(Append(log, x))[t] = Cardinality(Places(Append(log, x), t))
  BY <1>1, PlacesFinite
<1>4. CASE t = x
  <2>1. Places(Append(log, x), t) = Places(log, t) \cup {Len(log) + 1}
    BY <1>1, <1>4 DEF Places
  <2>2. Len(log) + 1 \notin Places(log, t)
    BY DEF Places
  <2>3. Cardinality(Places(log, t) \cup {Len(log) + 1}) = Cardinality(Places(log, t)) + 1
    BY <1>2, <2>2, FS_AddElement
  <2>4. QED
    BY <1>3, <1>4, <2>1, <2>3
<1>5. CASE t # x
  <2>1. Places(Append(log, x), t) = Places(log, t)
    BY <1>1, <1>5 DEF Places
  <2>2. QED
    BY <1>2, <1>3, <1>5, <2>1
<1>6. QED
  BY <1>4, <1>5

\* A prefix with the counts of the whole is the whole.
LEMMA CountsDecide ==
  ASSUME BagIsPrefix, file \in Seq(Topics), accepted \in Seq(Topics),
         CountOf(file) = CountOf(accepted)
  PROVE  file = accepted
<1>1. SUFFICES ASSUME Len(file) < Len(accepted)
               PROVE  FALSE
  <2>1. CASE Len(file) = Len(accepted)
    BY <2>1, SeqEqual DEF BagIsPrefix
  <2>2. Len(file) \in Nat /\ Len(accepted) \in Nat /\ Len(file) <= Len(accepted)
    BY DEF BagIsPrefix
  <2>3. QED
    BY <1>1, <2>1, <2>2
<1> DEFINE next == Len(file) + 1
           topic == accepted[next]
<1>2. next \in 1..Len(accepted) /\ topic \in Topics
  BY <1>1
<1>3. /\ IsFiniteSet(Places(file, topic)) /\ IsFiniteSet(Places(accepted, topic))
      /\ Cardinality(Places(file, topic)) = Cardinality(Places(accepted, topic))
  BY <1>2, PlacesFinite
<1>4. Places(file, topic) \subseteq Places(accepted, topic)
  BY DEF BagIsPrefix, Places
<1>5. next \in Places(accepted, topic) /\ next \notin Places(file, topic)
  BY <1>2 DEF Places
<1>6. Places(file, topic) = Places(accepted, topic)
  BY <1>3, <1>4, FS_Subset
<1>7. QED
  BY <1>5, <1>6

\* The counts of the writer are those of the bag, but for the message just written.
Counted ==
  \A t \in Topics :
    CountOf(file)[t] = counts[t] + (IF thread = "count" /\ t = item THEN 1 ELSE 0)

\* A successful result carries the counts of a thread that is gone.
ResultCounted == \A c \in Callers : result[c].ok => result[c].counts = counts

\* The initial state satisfies both.
LEMMA InitCounted ==
  ASSUME Init
  PROVE  Counted /\ ResultCounted
<1>1. ASSUME NEW t \in Topics
      PROVE  CountOf(<<>>)[t] = 0
  <2>1. <<>> \in Seq(Topics)
    OBVIOUS
  <2>2. Places(<<>>, t) = {}
    BY DEF Places
  <2>3. QED
    BY <2>1, <2>2, PlacesFinite, FS_EmptySet
<1>2. /\ file = <<>> /\ counts = [t \in Topics |-> 0] /\ thread = "none"
      /\ \A c \in Callers : result[c].ok = FALSE
  BY DEF Init, NoResult
<1>3. Counted
  BY <1>1, <1>2 DEF Counted
<1>4. QED
  BY <1>2, <1>3 DEF ResultCounted

\* Every step keeps the counts in line with the bag.
LEMMA CountedStep ==
  ASSUME Types, Counted, [Next]_vars
  PROVE  Counted'
<1> USE DEF queueVars, threadVars
<1>1. CASE Write
  <2>1. CASE file' = file /\ thread' = "writefail"
    BY <1>1, <2>1 DEF Write, Counted
  <2>2. CASE file' = Append(file, item) /\ thread' = "count"
    <3>1. \A t \in Topics : CountOf(file')[t] = CountOf(file)[t] + (IF t = item THEN 1 ELSE 0)
      BY <2>2, CountAppend DEF Types
    <3>2. \A t \in Topics : CountOf(file)[t] = counts[t]
      BY <1>1 DEF Write, Counted, Types
    <3>3. thread' = "count" /\ item' = item /\ counts' = counts
      BY <1>1, <2>2 DEF Write
    <3>4. QED
      BY <3>1, <3>2, <3>3 DEF Counted
  <2>3. QED
    BY <1>1, <2>1, <2>2 DEF Write
<1>2. CASE Count
  <2>1. /\ file' = file /\ item' = item /\ thread = "count" /\ thread' = "loop"
        /\ counts' = [counts EXCEPT ![item] = @ + 1] /\ counts \in [Topics -> Nat]
    BY <1>2 DEF Count, Types
  <2>2. QED
    BY <2>1 DEF Counted
<1>3. CASE Start \/ Take \/ Drained \/ CheckError \/ Close \/ ThreadFails \/ ThreadReports
  <2>1. file' = file /\ counts' = counts /\ thread # "count" /\ thread' # "count"
    BY <1>3 DEF Start, Take, Drained, CheckError, AfterCheck, Close, ThreadFails, AfterFailure,
                ThreadReports
  <2>2. QED
    BY <2>1 DEF Counted
<1>4. CASE /\ UNCHANGED <<file, counts, item>>
           /\ thread' \in {thread, Notified}
  BY <1>4 DEF Counted, Notified
<1>5. CASE \E p \in Producers, t \in Topics : Offer(p, t) \/ OfferFull(p, t)
  BY <1>4, <1>5 DEF Offer, OfferFull
<1>6. CASE \E p \in Producers : OfferFails(p) \/ OfferReports(p)
  BY <1>4, <1>6 DEF OfferFails, OfferReports
<1>7. CASE \E c \in Callers : Finish(c) \/ Abort(c) \/ Joined(c) \/ Return(c)
  BY <1>4, <1>7 DEF Finish, Abort, Joined, Return
<1>8. CASE UNCHANGED vars
  BY <1>4, <1>8 DEF vars
<1>9. QED
  BY <1>1, <1>2, <1>3, <1>5, <1>6, <1>7, <1>8 DEF Next, Thread

\* Every step keeps the counts of a successful result: it is taken from a thread that
\* is gone, and such a thread writes nothing more.
LEMMA ResultCountedStep ==
  ASSUME IInv, ResultCounted, [Next]_vars
  PROVE  ResultCounted'
<1> USE DEF queueVars, threadVars
<1>1. SUFFICES ASSUME NEW c \in Callers, result'[c].ok
               PROVE  result'[c].counts = counts'
  BY DEF ResultCounted
<1>2. CASE \E d \in Callers : Return(d)
  <2>1. PICK d \in Callers : Return(d)
    BY <1>2
  <2>2. result \in [Callers -> ResultType] /\ counts' = counts
    BY <2>1 DEF IInv, Types, Return
  <2>3. CASE c = d
    BY <2>1, <2>2, <2>3 DEF Return
  <2>4. CASE c # d
    <3>1. result'[c] = result[c]
      BY <2>1, <2>2, <2>4 DEF Return
    <3>2. QED
      BY <1>1, <2>2, <3>1 DEF ResultCounted
  <2>5. QED
    BY <2>3, <2>4
<1>3. CASE ~(\E d \in Callers : Return(d))
  <2>1. result' = result
    BY <1>3 DEF Next, vars, Start, Thread, Take, Drained, CheckError, Write, Count,
                Close, ThreadFails, ThreadReports, Offer, OfferFull, OfferFails,
                OfferReports, Finish, Abort, Joined
  <2>2. thread \in {"none", "dead"}
    BY <1>1, <2>1 DEF IInv, ResultSound, Alive
  <2>3. counts' = counts
    BY <1>3, <2>2 DEF Next, vars, Start, Thread, Take, Drained, CheckError, Write, Count,
                Close, ThreadFails, ThreadReports, Offer, OfferFull, OfferFails,
                OfferReports, Finish, Abort, Joined
  <2>4. QED
    BY <1>1, <2>1, <2>3 DEF ResultCounted
<1>4. QED
  BY <1>2, <1>3

\* The comparison of counts in _verify_writer decides whether the bag is complete, also
\* when another thread aborts the writer meanwhile.
THEOREM VerifiedIsCompleteCorrect == Spec => []VerifiedIsComplete
<1> DEFINE CInv == IInv /\ Counted /\ ResultCounted
<1>1. Init => CInv
  BY InitIInv, InitCounted
<1>2. ASSUME CInv, [Next]_vars
      PROVE  CInv'
  <2>1. IInv'
    <3>1. Types'
      BY <1>2, TypesStep DEF IInv
    <3>2. QED
      BY <1>2, <3>1, LogStep, StoppedStep, EndedStep, ResultStep DEF IInv
  <2>2. Counted'
    BY <1>2, CountedStep DEF IInv
  <2>3. ResultCounted'
    BY <1>2, ResultCountedStep
  <2>4. QED
    BY <2>1, <2>2, <2>3
<1>3. CInv => VerifiedIsComplete
  <2>1. SUFFICES ASSUME CInv, NEW c \in Callers, result[c].ok,
                        result[c].counts = CountOf(accepted)
                 PROVE  file = accepted /\ backend # "open"
    BY DEF VerifiedIsComplete
  <2>2. counts = CountOf(accepted) /\ thread # "count" /\ backend # "open"
    BY <2>1 DEF ResultCounted, IInv, ResultSound, Alive
  <2>3. CountOf(file) = CountOf(accepted)
    <3>1. counts \in [Topics -> Nat] /\ \A t \in Topics : CountOf(file)[t] = counts[t]
      BY <2>1, <2>2 DEF Counted, IInv, Types
    <3>2. CountOf(file) = [t \in Topics |-> CountOf(file)[t]]
      BY DEF CountOf
    <3>3. QED
      BY <2>2, <3>1, <3>2
  <2>4. BagIsPrefix /\ file \in Seq(Topics) /\ accepted \in Seq(Topics)
    BY <2>1 DEF IInv, Log, Types
  <2>5. QED
    BY <2>2, <2>3, <2>4, CountsDecide
<1>4. QED
  BY <1>1, <1>2, <1>3, PTL DEF Spec

\* Whoever is told that the bag is complete, by ok or by the counts, has it complete.
THEOREM ResultIsCompleteCorrect == Spec => []ResultIsComplete
BY OkIsCompleteCorrect, VerifiedIsCompleteCorrect, PTL DEF ResultIsComplete

-----------------------------------------------------------------------------
(* The byte count *)

\* left[i] is the size of what is queued from place i on.
Sums(q, left) ==
  \A i \in 1 .. Len(q) : left[i] = Size[q[i]] + left[i + 1]

\* _queued_bytes is the size of the queue: it is written as the existence of the sums from
\* each place on, since a sum over a sequence would be a recursive definition.
BytesAreQueued ==
  \E left \in [1 .. Len(queue) + 1 -> Nat] :
    left[1] = queuedBytes /\ left[Len(queue) + 1] = 0 /\ Sums(queue, left)

\* A queue with one more message at its end has the size of both.
LEMMA BytesAppend ==
  ASSUME Types, BytesAreQueued, NEW t \in Topics,
         queue' = Append(queue, t), queuedBytes' = queuedBytes + Size[t]
  PROVE  BytesAreQueued'
<1>1. PICK left \in [1 .. Len(queue) + 1 -> Nat] :
        left[1] = queuedBytes /\ left[Len(queue) + 1] = 0 /\ Sums(queue, left)
  BY DEF BytesAreQueued
<1>2. /\ queue \in Seq(Topics) /\ Len(queue) \in Nat /\ Size \in [Topics -> Nat]
      /\ Size[t] \in Nat
  BY WriterAssumption DEF Types
<1>3. /\ Len(queue') = Len(queue) + 1 /\ queue'[Len(queue) + 1] = t
      /\ \A i \in 1 .. Len(queue) : queue'[i] = queue[i] /\ queue[i] \in Topics
  BY <1>2
<1> DEFINE more == [i \in 1 .. Len(queue) + 2 |->
                      IF i = Len(queue) + 2 THEN 0 ELSE left[i] + Size[t]]
<1>4. /\ more \in [1 .. Len(queue') + 1 -> Nat]
      /\ more[1] = queuedBytes' /\ more[Len(queue') + 1] = 0
  BY <1>1, <1>2, <1>3
<1>5. Sums(queue', more)
  <2>1. ASSUME NEW i \in 1 .. Len(queue')
        PROVE  more[i] = Size[queue'[i]] + more[i + 1]
    <3>1. CASE i \in 1 .. Len(queue)
      <4>1. left[i] = Size[queue[i]] + left[i + 1] /\ queue'[i] = queue[i]
        BY <1>1, <1>3, <3>1 DEF Sums
      <4>2. /\ i \in 1 .. Len(queue) + 1 /\ i + 1 \in 1 .. Len(queue) + 1
            /\ i # Len(queue) + 2 /\ i + 1 # Len(queue) + 2
        BY <1>2, <3>1
      <4>3. more[i] = left[i] + Size[t] /\ more[i + 1] = left[i + 1] + Size[t]
        BY <1>2, <4>2
      <4>4. left[i] \in Nat /\ left[i + 1] \in Nat /\ Size[queue[i]] \in Nat
        BY <1>1, <1>2, <1>3, <3>1, <4>2
      <4>5. QED
        BY <1>2, <4>1, <4>3, <4>4
    <3>2. CASE i = Len(queue) + 1
      BY <1>1, <1>2, <1>3, <3>2
    <3>3. QED
      BY <1>2, <1>3, <2>1, <3>1, <3>2
  <2>2. QED
    BY <2>1 DEF Sums
<1>6. QED
  BY <1>4, <1>5 DEF BytesAreQueued

\* The first message of a queue is not larger than the queue, and leaves the size of the rest.
LEMMA BytesTail ==
  ASSUME Types, BytesAreQueued, queue # <<>>,
         queue' = Tail(queue), queuedBytes' = queuedBytes - Size[Head(queue)]
  PROVE  BytesAreQueued'
<1>1. PICK left \in [1 .. Len(queue) + 1 -> Nat] :
        left[1] = queuedBytes /\ left[Len(queue) + 1] = 0 /\ Sums(queue, left)
  BY DEF BytesAreQueued
<1>2. /\ Len(queue) \in Nat \ {0} /\ Head(queue) = queue[1] /\ queue[1] \in Topics
      /\ Size \in [Topics -> Nat] /\ Size[queue[1]] \in Nat
  BY WriterAssumption DEF Types
<1>3. /\ Len(queue') = Len(queue) - 1
      /\ \A i \in 1 .. Len(queue) - 1 : queue'[i] = queue[i + 1]
  BY <1>2 DEF Types
<1> DEFINE rest == [i \in 1 .. Len(queue) |-> left[i + 1]]
<1>4. left[1] = Size[queue[1]] + left[2] /\ left[2] \in Nat
  BY <1>1, <1>2 DEF Sums
<1>5. /\ rest \in [1 .. Len(queue') + 1 -> Nat]
      /\ rest[1] = queuedBytes' /\ rest[Len(queue') + 1] = 0
  BY <1>1, <1>2, <1>3, <1>4
<1>6. Sums(queue', rest)
  BY <1>1, <1>2, <1>3 DEF Sums
<1>7. QED
  BY <1>5, <1>6 DEF BytesAreQueued

\* An empty queue has no size.
LEMMA BytesEmpty ==
  ASSUME queue = <<>>, queuedBytes = 0
  PROVE  BytesAreQueued
<1> DEFINE none == [i \in 1 .. 1 |-> 0]
<1>1. Len(queue) = 0
  OBVIOUS
<1>2. /\ none \in [1 .. Len(queue) + 1 -> Nat]
      /\ none[1] = queuedBytes /\ none[Len(queue) + 1] = 0 /\ Sums(queue, none)
  BY <1>1 DEF Sums
<1>3. QED
  BY <1>2 DEF BytesAreQueued

\* Only offer, the thread and abort touch the queue, each together with the count.
LEMMA BytesStep ==
  ASSUME Types, BytesAreQueued, [Next]_vars
  PROVE  BytesAreQueued'
<1>1. CASE UNCHANGED <<queue, queuedBytes>>
  BY <1>1 DEF BytesAreQueued
<1>2. ASSUME NEW p \in Producers, NEW t \in Topics, Offer(p, t)
      PROVE  BytesAreQueued'
  BY <1>2, BytesAppend DEF Offer
<1>3. CASE Take
  BY <1>3, BytesTail DEF Take
<1>4. ASSUME NEW c \in Callers, Abort(c)
      PROVE  BytesAreQueued'
  <2>1. queue' = <<>> /\ queuedBytes' = 0
    BY <1>4 DEF Abort
  <2> DEFINE none == [i \in 1 .. 1 |-> 0]
  <2>2. Len(queue') = 0
    BY <2>1
  <2>3. /\ none \in [1 .. Len(queue') + 1 -> Nat]
        /\ none[1] = queuedBytes' /\ none[Len(queue') + 1] = 0 /\ Sums(queue', none)
    BY <2>1, <2>2 DEF Sums
  <2>4. QED
    BY <2>3 DEF BytesAreQueued
<1>5. QED
  BY <1>1, <1>2, <1>3, <1>4
     DEF Next, Thread, vars, queueVars, threadVars, Start, OfferFull, OfferFails,
         OfferReports, Drained, CheckError, Write, Count, Close, ThreadFails, ThreadReports,
         Finish, Joined, Return

\* Every variable of the writer keeps its type, and _queued_bytes never goes negative
\* although abort clears it while the thread is between two messages.
THEOREM TypesCorrect == Spec => []TypeOK
<1>1. Init => Types /\ BytesAreQueued
  BY InitTypes, BytesEmpty DEF Init
<1>2. Types /\ BytesAreQueued /\ [Next]_vars => (Types /\ BytesAreQueued)'
  BY TypesStep, BytesStep
<1>3. Types /\ BytesAreQueued => TypeOK
  BY DEF TypeOK, BytesAreQueued
<1>4. QED
  BY <1>1, <1>2, <1>3, PTL DEF Spec
-----------------------------------------------------------------------------
(* Overflows and reports *)

\* A message turned away is on its way to be the failure of the collection.
THEOREM NothingSkippedCorrect == Spec => []NothingSkipped
<1>1. Init => Types /\ NothingSkipped
  BY InitTypes DEF Init, NothingSkipped
<1>2. ASSUME Types, NothingSkipped, [Next]_vars
      PROVE  NothingSkipped'
  <2>1. ASSUME NEW p \in Producers, NEW t \in Topics, OfferFull(p, t)
        PROVE  NothingSkipped'
    <3>1. producer'[p] = "overflow"
      BY <2>1, <1>2 DEF OfferFull, Types
    <3>2. QED
      BY <3>1 DEF NothingSkipped
  <2>2. ASSUME NEW p \in Producers, OfferFails(p)
        PROVE  NothingSkipped'
    <3>1. errorCode' # ""
      BY <2>2 DEF OfferFails, RecordError, Overflow
    <3>2. QED
      BY <3>1 DEF NothingSkipped
  <2>3. ASSUME NEW p \in Producers, OfferReports(p)
        PROVE  NothingSkipped'
    <3>1. /\ skipped' = skipped /\ errorCode' = errorCode
          /\ \A q \in Producers : producer[q] = "overflow" => producer'[q] = "overflow"
      BY <2>3, <1>2 DEF OfferReports, Types, queueVars
    <3>2. QED
      BY <1>2, <3>1 DEF NothingSkipped
  <2>4. CASE /\ skipped' = skipped /\ producer' = producer
             /\ errorCode' = "" => errorCode = ""
    BY <1>2, <2>4 DEF NothingSkipped
  <2>5. QED
    BY <1>2, <2>1, <2>2, <2>3, <2>4
       DEF Next, Thread, vars, queueVars, threadVars, Start, Offer, Take, Drained,
           CheckError, Write, Count, Close, ThreadFails, ThreadReports, Finish, Abort,
           Joined, Return, RecordError, WriteFailed, FinishTimeout
<1>3. QED
  BY <1>1, <1>2, TypesStep, PTL DEF Spec

\* Whatever overflows, fails, times out or is aborted, the bag of every writer holds a
\* prefix of the messages offer accepted, in their order, and a message that it did not
\* accept for want of room ends the recording.
THEOREM FileIsPrefixCorrect == Spec => []FileIsPrefix
<1>1. IInv => BagIsPrefix
  BY DEF IInv, Log
<1>2. BagIsPrefix /\ NothingSkipped => FileIsPrefix
  BY DEF FileIsPrefix
<1>3. QED
  BY <1>1, <1>2, IInvCorrect, NothingSkippedCorrect, PTL

\* The thread is about to call the callback.
ThreadReporting == thread \in {"reportwrite", "reportclose"}

\* Nobody is about to call the callback.
NobodyReports == ~ThreadReporting /\ \A p \in Producers : producer[p] # "report"

\* The one who recorded the failure, and nobody else, reports it, once.
OneReport ==
  /\ errorCode = "" => NobodyReports /\ reported = <<>>
  /\ reported # <<>> => NobodyReports /\ reported = <<errorCode>>
  /\ ThreadReporting => errorCode = WriteFailed /\ \A p \in Producers : producer[p] # "report"
  /\ \A p \in Producers : producer[p] = "report" =>
       /\ errorCode = Overflow /\ ~ThreadReporting
       /\ \A q \in Producers : producer[q] = "report" => q = p

\* A step in which nobody begins or ends a report, and no failure is taken back.
LEMMA QuietKeepsReport ==
  ASSUME OneReport, reported' = reported, ThreadReporting' <=> ThreadReporting,
         errorCode' = errorCode \/ (errorCode = "" /\ errorCode' # ""),
         \A p \in Producers : producer'[p] = "report" <=> producer[p] = "report"
  PROVE  OneReport'
<1>1. NobodyReports' <=> NobodyReports
  BY DEF NobodyReports
<1>2. CASE errorCode = ""
  BY <1>1, <1>2 DEF OneReport, NobodyReports
<1>3. CASE errorCode' = errorCode
  BY <1>1, <1>3 DEF OneReport
<1>4. QED
  BY <1>2, <1>3

\* Who records the first failure is the only one to report.
LEMMA FailKeepsReport ==
  ASSUME Types, OneReport,
         \/ \E p \in Producers : OfferFails(p)
         \/ ThreadFails
  PROVE  OneReport'
<1>1. ASSUME NEW p \in Producers, OfferFails(p)
      PROVE  OneReport'
  <2>1. /\ reported' = reported /\ thread' = thread /\ producer[p] = "overflow"
        /\ producer' = [producer EXCEPT ![p] = IF errorCode = "" THEN "report" ELSE "idle"]
        /\ errorCode' = IF errorCode = "" THEN Overflow ELSE errorCode
        /\ DOMAIN producer = Producers
    BY <1>1 DEF OfferFails, RecordError, threadVars, Types
  <2>2. CASE errorCode = ""
    <3>1. /\ producer'[p] = "report" /\ errorCode' = Overflow /\ reported = <<>>
          /\ \A q \in Producers : q # p => producer'[q] # "report"
      BY <2>1, <2>2 DEF OneReport, NobodyReports
    <3>2. ~ThreadReporting'
      BY <2>1, <2>2 DEF OneReport, NobodyReports, ThreadReporting
    <3>3. QED
      BY <2>1, <3>1, <3>2 DEF OneReport, Overflow
  <2>3. CASE errorCode # ""
    <3>1. \A q \in Producers : producer'[q] = "report" <=> producer[q] = "report"
      BY <2>1, <2>3
    <3>2. ThreadReporting' <=> ThreadReporting
      BY <2>1 DEF ThreadReporting
    <3>3. QED
      BY <2>1, <2>3, <3>1, <3>2, QuietKeepsReport
  <2>4. QED
    BY <2>2, <2>3
<1>2. CASE ThreadFails
  <2>1. /\ reported' = reported /\ producer' = producer /\ ~ThreadReporting
        /\ thread' = AfterFailure
        /\ errorCode' = IF errorCode = "" THEN WriteFailed ELSE errorCode
    BY <1>2 DEF ThreadFails, RecordError, ThreadReporting
  <2>2. CASE errorCode = ""
    <3>1. errorCode' = WriteFailed /\ reported' = <<>>
      BY <2>1, <2>2 DEF OneReport
    <3>2. \A q \in Producers : producer'[q] # "report"
      BY <2>1, <2>2 DEF OneReport, NobodyReports
    <3>3. QED
      BY <3>1, <3>2 DEF OneReport, WriteFailed
  <2>3. CASE errorCode # ""
    <3>1. ~ThreadReporting'
      BY <2>1, <2>3 DEF AfterFailure, ThreadReporting
    <3>2. QED
      BY <2>1, <2>3, <3>1, QuietKeepsReport
  <2>4. QED
    BY <2>2, <2>3
<1>3. QED
  BY <1>1, <1>2

\* A report is of the recorded failure, and the reporter is then done.
LEMMA ReportKeepsReport ==
  ASSUME Types, OneReport,
         \/ \E p \in Producers : OfferReports(p)
         \/ ThreadReports
  PROVE  OneReport'
<1>1. ASSUME NEW p \in Producers, OfferReports(p)
      PROVE  OneReport'
  <2>1. /\ reported' = Append(reported, Overflow) /\ thread' = thread
        /\ producer[p] = "report" /\ producer' = [producer EXCEPT ![p] = "idle"]
        /\ errorCode' = errorCode /\ DOMAIN producer = Producers
    BY <1>1 DEF OfferReports, threadVars, Types
  <2>2. /\ errorCode = Overflow /\ ~ThreadReporting /\ reported = <<>>
        /\ \A q \in Producers : producer[q] = "report" => q = p
    BY <2>1 DEF OneReport, NobodyReports
  <2>3. reported' = <<errorCode'>>
    BY <2>1, <2>2
  <2>4. ~ThreadReporting' /\ \A q \in Producers : producer'[q] # "report"
    BY <2>1, <2>2 DEF ThreadReporting
  <2>5. QED
    BY <2>1, <2>2, <2>3, <2>4 DEF OneReport, NobodyReports, Overflow
<1>2. CASE ThreadReports
  <2>1. /\ reported' = Append(reported, WriteFailed) /\ producer' = producer
        /\ ThreadReporting /\ ~ThreadReporting' /\ errorCode' = errorCode
    BY <1>2 DEF ThreadReports, ThreadReporting
  <2>2. errorCode = WriteFailed /\ reported = <<>> /\ \A q \in Producers : producer[q] # "report"
    BY <2>1 DEF OneReport, NobodyReports
  <2>3. reported' = <<errorCode'>>
    BY <2>1, <2>2
  <2>4. QED
    BY <2>1, <2>2, <2>3 DEF OneReport, NobodyReports, WriteFailed
<1>3. QED
  BY <1>1, <1>2

\* Every step keeps it.
LEMMA OneReportStep ==
  ASSUME Types, OneReport, [Next]_vars
  PROVE  OneReport'
<1> USE DEF queueVars, threadVars
<1>1. CASE \/ \E p \in Producers : OfferFails(p) \/ OfferReports(p)
           \/ ThreadFails
           \/ ThreadReports
  BY <1>1, FailKeepsReport, ReportKeepsReport
<1>2. ASSUME NEW p \in Producers, NEW t \in Topics, OfferFull(p, t)
      PROVE  OneReport'
  <2>1. /\ reported' = reported /\ thread' = thread /\ errorCode' = errorCode
        /\ \A q \in Producers : producer'[q] = "report" <=> producer[q] = "report"
    BY <1>2 DEF OfferFull, Types
  <2>2. ThreadReporting' <=> ThreadReporting
    BY <2>1 DEF ThreadReporting
  <2>3. QED
    BY <2>1, <2>2, QuietKeepsReport
<1>3. CASE /\ reported' = reported /\ producer' = producer
           /\ thread' = thread \/ (~ThreadReporting /\ ~ThreadReporting')
           /\ errorCode' = errorCode \/ (errorCode = "" /\ errorCode' # "")
  BY <1>3, QuietKeepsReport DEF ThreadReporting
<1>4. CASE Start \/ Take \/ Drained \/ CheckError \/ Write \/ Count \/ Close
  BY <1>3, <1>4 DEF Start, Take, Drained, CheckError, AfterCheck, Write, Count, Close,
                    ThreadReporting
<1>5. CASE \E p \in Producers, t \in Topics : Offer(p, t)
  BY <1>3, <1>5 DEF Offer, Notified, ThreadReporting
<1>6. CASE \E c \in Callers : Finish(c) \/ Abort(c) \/ Return(c)
  BY <1>3, <1>6 DEF Finish, Abort, Return, Notified, ThreadReporting
<1>7. CASE \E c \in Callers : Joined(c)
  BY <1>3, <1>7 DEF Joined, RecordError, FinishTimeout
<1>8. CASE UNCHANGED vars
  BY <1>3, <1>8 DEF vars
<1>9. QED
  BY <1>1, <1>2, <1>4, <1>5, <1>6, <1>7, <1>8 DEF Next, Thread

\* on_error hears of one failure only, of the one that is kept.
THEOREM FirstErrorDecidesCorrect == Spec => []FirstErrorDecides
<1>1. Init => Types /\ OneReport
  <2>1. Init => NobodyReports /\ reported = <<>> /\ ~ThreadReporting
    BY DEF Init, NobodyReports, ThreadReporting
  <2>2. QED
    BY <2>1, InitTypes DEF OneReport, NobodyReports
<1>2. Types /\ OneReport /\ [Next]_vars => (Types /\ OneReport)'
  BY TypesStep, OneReportStep
<1>3. OneReport => FirstErrorDecides
  <2>1. CASE reported = <<>>
    BY <2>1 DEF FirstErrorDecides
  <2>2. CASE reported = <<errorCode>>
    BY <2>2 DEF FirstErrorDecides
  <2>3. QED
    BY <2>1, <2>2 DEF OneReport
<1>4. QED
  BY <1>1, <1>2, <1>3, PTL DEF Spec
=============================================================================
