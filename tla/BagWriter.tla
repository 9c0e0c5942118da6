----------------------------- MODULE BagWriter -----------------------------
(***************************************************************************)
(* fastumi_data/collection_writer.py: QueuedBagWriter, a bounded queue in  *)
(* front of one thread that writes the MCAP bag.  Producers call offer,    *)
(* callers call finish or abort (the stop request and the shutdown may do  *)
(* so at once), and the thread drains the queue and closes the bag.  One   *)
(* action is one critical section of the condition variable, or one call   *)
(* of the bag backend, so every interleaving of the real locks is here.    *)
(*                                                                         *)
(* A message is its topic; its payload matters only by its size.           *)
(***************************************************************************)
EXTENDS Integers, Sequences, FiniteSets

CONSTANTS Producers,    \* threads that call offer
          Callers,      \* threads that call finish or abort
          Topics,       \* topics of the bag
          Size,         \* bytes of a message of each topic
          MaxMessages,  \* queue_max_messages
          MaxBytes,     \* queue_max_bytes
          MaxOffers     \* bound on the messages one behaviour enqueues

ASSUME WriterAssumption ==
  /\ Size \in [Topics -> Nat]
  /\ MaxMessages \in Nat \ {0}
  /\ MaxBytes \in Nat \ {0}
  /\ MaxOffers \in Nat

VARIABLES
  queue, queuedBytes,   \* _queue and _queued_bytes
  accepting, closing,   \* _accepting and _closing
  errorCode,            \* _error_code, "" while nothing has failed
  counts,               \* _counts, messages written per topic
  thread, item,         \* where the writing thread stands, the message it holds
  backend, file,        \* the bag: its state and the messages in it, in order
  producer,             \* what each producer still has to do inside offer
  call, result,         \* what each caller waits for, the last result it got
  reported,             \* codes handed to the on_error callback
  accepted,             \* history: every message offer returned True for
  skipped,              \* history: offer has turned a message away for lack of room
  aborted               \* history: abort has discarded the queue

threadVars == <<thread, item, backend, file, counts>>
queueVars  == <<queue, queuedBytes, accepted, skipped>>
vars == <<queue, queuedBytes, accepting, closing, errorCode, counts, thread, item,
          backend, file, producer, call, result, reported, accepted, skipped, aborted>>

Overflow      == "QUEUE_OVERFLOW"
WriteFailed   == "WRITE_FAILED"
FinishTimeout == "FINISH_TIMEOUT"
Codes == {"", Overflow, WriteFailed, FinishTimeout}

NoResult == [op |-> "none", ok |-> FALSE, stopped |-> FALSE, counts |-> [t \in Topics |-> 0]]

\* The thread sleeps in Condition.wait and runs again only when notified.
NotifyLost == thread    \* mutant: the caller forgets to notify
Notified   == IF thread = "waiting" THEN "loop" ELSE thread

Alive == thread \notin {"none", "dead"}

\* WriterResult.ok
OkIgnoresError == ~Alive    \* mutant: only the thread is looked at
Ok             == ~Alive /\ errorCode = ""

\* Mutant: the code of the last failure is kept.
RecordLast(code) == errorCode' = code /\ accepting' = FALSE

\* _record_error: the first failure wins and stops acceptance.
RecordError(code) ==
  /\ errorCode' = IF errorCode = "" THEN code ELSE errorCode
  /\ accepting' = (accepting /\ errorCode # "")

Full(t) == \/ Len(queue) >= MaxMessages
           \/ queue # <<>> /\ queuedBytes + Size[t] > MaxBytes

Init ==
  /\ queue = <<>> /\ queuedBytes = 0
  /\ accepting = FALSE /\ closing = FALSE
  /\ errorCode = ""
  /\ counts = [t \in Topics |-> 0]
  /\ thread = "none" /\ item \in Topics
  /\ backend = "unopened" /\ file = <<>>
  /\ producer = [p \in Producers |-> "idle"]
  /\ call = [c \in Callers |-> "idle"]
  /\ result = [c \in Callers |-> NoResult]
  /\ reported = <<>>
  /\ accepted = <<>> /\ skipped = FALSE /\ aborted = FALSE

-----------------------------------------------------------------------------
(* start and offer *)

\* start: the bag opens in the calling thread, then the writing thread runs.
\* (A failing open raises and changes nothing.)  A writer is started once and
\* before it is finished or aborted, which is how the controller uses it.
Start ==
  /\ thread = "none" /\ ~closing
  /\ backend' = "open" /\ accepting' = TRUE /\ thread' = "loop"
  /\ UNCHANGED <<queue, queuedBytes, closing, errorCode, counts, item, file,
                 producer, call, result, reported, accepted, skipped, aborted>>

\* offer returns True: the message is queued and the thread notified.
Offer(p, t) ==
  /\ producer[p] = "idle"
  /\ accepting /\ errorCode = "" /\ ~Full(t)
  /\ Len(accepted) < MaxOffers
  /\ queue' = Append(queue, t)
  /\ queuedBytes' = queuedBytes + Size[t]
  /\ accepted' = Append(accepted, t)
  /\ thread' = Notified
  /\ UNCHANGED <<accepting, closing, errorCode, counts, item, backend, file,
                 producer, call, result, reported, skipped, aborted>>

\* Mutant: a message that does not fit is only turned away.
OfferSkips(p, t) ==
  /\ producer[p] = "idle"
  /\ accepting /\ errorCode = "" /\ Full(t)
  /\ skipped' = TRUE
  /\ UNCHANGED <<queue, queuedBytes, accepting, closing, errorCode, threadVars,
                 producer, call, result, reported, accepted, aborted>>

\* offer finds the queue full: it leaves the lock before it records the failure.
OfferFull(p, t) ==
  /\ producer[p] = "idle"
  /\ accepting /\ errorCode = "" /\ Full(t)
  /\ producer' = [producer EXCEPT ![p] = "overflow"]
  /\ skipped' = TRUE
  /\ UNCHANGED <<queue, queuedBytes, accepting, closing, errorCode, threadVars,
                 call, result, reported, accepted, aborted>>

OfferFails(p) ==
  /\ producer[p] = "overflow"
  /\ RecordError(Overflow)
  /\ producer' = [producer EXCEPT ![p] = IF errorCode = "" THEN "report" ELSE "idle"]
  /\ UNCHANGED <<queueVars, closing, threadVars, call, result, reported, aborted>>

OfferReports(p) ==
  /\ producer[p] = "report"
  /\ reported' = Append(reported, Overflow)
  /\ producer' = [producer EXCEPT ![p] = "idle"]
  /\ UNCHANGED <<queueVars, accepting, closing, errorCode, threadVars, call, result,
                 aborted>>

-----------------------------------------------------------------------------
(* _run, the writing thread *)

Take ==
  /\ thread = "loop" /\ queue # <<>>
  /\ item' = Head(queue) /\ queue' = Tail(queue)
  /\ queuedBytes' = queuedBytes - Size[Head(queue)]
  /\ thread' = "item"
  /\ UNCHANGED <<accepting, closing, errorCode, counts, backend, file, producer,
                 call, result, reported, accepted, skipped, aborted>>

\* The loop leaves only with an empty queue.
Leaves == queue = <<>>

\* Close the bag if told to, otherwise sleep.
Drained ==
  /\ thread = "loop" /\ Leaves
  /\ thread' = IF closing THEN "close" ELSE "waiting"
  /\ UNCHANGED <<queueVars, accepting, closing, errorCode, counts, item, backend,
                 file, producer, call, result, reported, aborted>>

\* Once something has failed the queue is drained without being written.
AlwaysWrite == "write"    \* mutant: the failure is not looked at
AfterCheck  == IF errorCode = "" THEN "write" ELSE "loop"

CheckError ==
  /\ thread = "item"
  /\ thread' = AfterCheck
  /\ UNCHANGED <<queueVars, accepting, closing, errorCode, counts, item, backend,
                 file, producer, call, result, reported, aborted>>

Write ==
  /\ thread = "write"
  /\ \/ file' = Append(file, item) /\ thread' = "count"
     \/ file' = file /\ thread' = "writefail"
  /\ UNCHANGED <<queueVars, accepting, closing, errorCode, counts, item, backend,
                 producer, call, result, reported, aborted>>

Count ==
  /\ thread = "count"
  /\ counts' = [counts EXCEPT ![item] = @ + 1]
  /\ thread' = "loop"
  /\ UNCHANGED <<queueVars, accepting, closing, errorCode, item, backend, file,
                 producer, call, result, reported, aborted>>

Close ==
  /\ thread = "close"
  /\ \/ backend' = "closed" /\ thread' = "dead"
     \/ backend' = backend /\ thread' = "closefail"
  /\ UNCHANGED <<queueVars, accepting, closing, errorCode, counts, item, file,
                 producer, call, result, reported, aborted>>

\* _fail calls on_error for the first failure; the thread then goes on or ends.
AfterFailure ==
  IF errorCode = "" THEN IF thread = "writefail" THEN "reportwrite" ELSE "reportclose"
                    ELSE IF thread = "writefail" THEN "loop" ELSE "dead"

ThreadFails ==
  /\ thread \in {"writefail", "closefail"}
  /\ RecordError(WriteFailed)
  /\ thread' = AfterFailure
  /\ UNCHANGED <<queueVars, closing, counts, item, backend, file, producer, call,
                 result, reported, aborted>>

ThreadReports ==
  /\ thread \in {"reportwrite", "reportclose"}
  /\ reported' = Append(reported, WriteFailed)
  /\ thread' = IF thread = "reportwrite" THEN "loop" ELSE "dead"
  /\ UNCHANGED <<queueVars, accepting, closing, errorCode, counts, item, backend,
                 file, producer, call, result, aborted>>

Thread == \/ Take \/ Drained \/ CheckError \/ Write \/ Count \/ Close
          \/ ThreadFails \/ ThreadReports

-----------------------------------------------------------------------------
(* finish and abort *)

Finish(c) ==
  /\ call[c] = "idle"
  /\ accepting' = FALSE /\ closing' = TRUE
  /\ thread' = Notified
  /\ call' = [call EXCEPT ![c] = "finish"]
  /\ UNCHANGED <<queueVars, errorCode, counts, item, backend, file, producer,
                 result, reported, aborted>>

\* Mutant: abort resets the byte counter and leaves the messages queued.
AbortKeepsQueue(c) ==
  /\ call[c] = "idle"
  /\ accepting' = FALSE /\ closing' = TRUE
  /\ queuedBytes' = 0
  /\ thread' = Notified
  /\ call' = [call EXCEPT ![c] = "abort"]
  /\ aborted' = TRUE
  /\ UNCHANGED <<queue, errorCode, counts, item, backend, file, producer, result,
                 reported, accepted, skipped>>

Abort(c) ==
  /\ call[c] = "idle"
  /\ accepting' = FALSE /\ closing' = TRUE
  /\ queue' = <<>> /\ queuedBytes' = 0
  /\ thread' = Notified
  /\ call' = [call EXCEPT ![c] = "abort"]
  /\ aborted' = TRUE
  /\ UNCHANGED <<errorCode, counts, item, backend, file, producer, result,
                 reported, accepted, skipped>>

\* join returned because the thread is gone, or timed out with it still alive.
Joined(c) ==
  /\ call[c] \in {"finish", "abort"}
  /\ IF Alive THEN RecordError(FinishTimeout) ELSE UNCHANGED <<errorCode, accepting>>
  /\ call' = [call EXCEPT ![c] = IF @ = "finish" THEN "finished" ELSE "aborted"]
  /\ UNCHANGED <<queueVars, closing, threadVars, producer, result, reported, aborted>>

\* _result: the snapshot finish and abort return.
Return(c) ==
  /\ call[c] \in {"finished", "aborted"}
  /\ result' = [result EXCEPT ![c] =
       [op |-> call[c], ok |-> Ok, stopped |-> ~Alive, counts |-> counts]]
  /\ call' = [call EXCEPT ![c] = "idle"]
  /\ UNCHANGED <<queueVars, accepting, closing, errorCode, threadVars, producer,
                 reported, aborted>>

Next ==
  \/ Start
  \/ Thread
  \/ \E p \in Producers : OfferFails(p) \/ OfferReports(p)
  \/ \E p \in Producers, t \in Topics : Offer(p, t) \/ OfferFull(p, t)
  \/ \E c \in Callers : Finish(c) \/ Abort(c) \/ Joined(c) \/ Return(c)

Spec == Init /\ [][Next]_vars

\* A caller waits at most its time-out in join and then returns; the disk may hang.
HungDiskSpec == Spec /\ \A c \in Callers : WF_vars(Joined(c) \/ Return(c))

\* The disk answers, so the thread keeps running; a producer inside offer finishes it.
DiskAnswers ==
  /\ WF_vars(Thread)
  /\ \A p \in Producers : WF_vars(OfferFails(p) \/ OfferReports(p))

-----------------------------------------------------------------------------
(* Properties *)

CountOf(log) == [t \in Topics |-> Cardinality({i \in DOMAIN log : log[i] = t})]

ThreadStates == {"none", "loop", "waiting", "item", "write", "count", "writefail",
                 "reportwrite", "close", "closefail", "reportclose", "dead"}
ResultType == [op : {"none", "finished", "aborted"}, ok : BOOLEAN, stopped : BOOLEAN,
               counts : [Topics -> Nat]]

Types ==
  /\ queue \in Seq(Topics) /\ queuedBytes \in Int
  /\ accepting \in BOOLEAN /\ closing \in BOOLEAN
  /\ errorCode \in Codes
  /\ counts \in [Topics -> Nat]
  /\ thread \in ThreadStates /\ item \in Topics
  /\ backend \in {"unopened", "open", "closed"}
  /\ file \in Seq(Topics)
  /\ producer \in [Producers -> {"idle", "overflow", "report"}]
  /\ call \in [Callers -> {"idle", "finish", "abort", "finished", "aborted"}]
  /\ result \in [Callers -> ResultType]
  /\ reported \in Seq(Codes)
  /\ accepted \in Seq(Topics)
  /\ skipped \in BOOLEAN /\ aborted \in BOOLEAN

\* Every variable keeps its type, and _queued_bytes never goes negative although
\* abort clears it while the thread is between two messages.
TypeOK == Types /\ queuedBytes \in Nat

\* The bag holds a prefix of the accepted messages: no hole, no reordering.
BagIsPrefix ==
  /\ Len(file) <= Len(accepted)
  /\ \A i \in 1..Len(file) : file[i] = accepted[i]

\* A message that did not fit is never just left out: the failure is recorded, or the
\* offer that met the full queue is still about to record it outside the lock, whatever
\* is finished, aborted or written in between.
NothingSkipped == skipped => errorCode # "" \/ \E p \in Producers : producer[p] = "overflow"

\* Whatever overflows, fails or is aborted, the bag holds a prefix of the messages that
\* were accepted, and one that was not accepted ends the recording.  After a failed write
\* the thread must not write the messages behind it (collection_writer.py: drain without
\* writing).
FileIsPrefix == BagIsPrefix /\ NothingSkipped

\* A WriterResult with ok means, unless abort discarded the queue, that every
\* accepted message is in the bag and the bag is closed; it does not change later.
OkIsComplete ==
  \A c \in Callers :
    result[c].ok /\ ~aborted => file = accepted /\ backend # "open"

\* The comparison the controller makes in _verify_writer (ok, and the counts of the
\* writer equal the counts of what was enqueued) is enough even when another thread
\* aborts the writer while it is being finished.
VerifiedIsComplete ==
  \A c \in Callers :
    result[c].ok /\ result[c].counts = CountOf(accepted)
      => file = accepted /\ backend # "open"

\* Either way a caller that is told that all is well has all in the bag.
ResultIsComplete == OkIsComplete /\ VerifiedIsComplete

\* Producers and the thread fail together, and the callback is called outside the lock:
\* it hears of one failure only, and of the one that every result carries.
FirstErrorDecides == Len(reported) <= 1 /\ \A i \in DOMAIN reported : reported[i] = errorCode

ThreadEnds      == closing ~> ~Alive
FailureReported == errorCode \in {Overflow, WriteFailed} ~> reported # <<>>
CallersReturn   == \A c \in Callers : call[c] # "idle" ~> call[c] = "idle"

\* No wake-up, no report and no caller is lost: finish and abort return even if the disk
\* never answers again, and if it answers the thread ends once one of them was called and a
\* failed write or an overflow reaches the on_error callback.
NothingIsStuck == CallersReturn /\ (DiskAnswers => ThreadEnds /\ FailureReported)
=============================================================================
