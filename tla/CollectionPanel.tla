-------------------------- MODULE CollectionPanel --------------------------
(***************************************************************************)
(* The operator's panel of the collection (collection_panel.cpp) and the   *)
(* service it talks to (CollectionController._run, idempotent requests).   *)
(*                                                                         *)
(* The panel runs in one thread, so a press, an answer, a status or a      *)
(* timer is one action; a question to the operator runs the event loop     *)
(* while it is open.  Requests of other clients, repeated ones among them, *)
(* come in between.  What a request does is reduced to the state it leaves *)
(* the lifecycle in; CollectionController has the detail.  A collection is *)
(* a number, and a later one has a higher number.                          *)
(***************************************************************************)
EXTENDS Integers, Sequences, FiniteSets, Functions

CONSTANTS Panels,
          MaxRequests,  \* bound on the requests made, by panels and other clients
          MaxFaults,    \* bound on repeated requests, late statuses and answers, ends of the service
          CacheSize,    \* idempotency_cache_size
          Stored,       \* number of records of earlier sessions
          OtherOps      \* operations that other clients ask for

ASSUME CollectionPanelAssumption ==
  /\ MaxRequests \in Nat /\ MaxFaults \in Nat
  /\ CacheSize \in Nat \ {0} /\ Stored \in Nat /\ "other" \notin Panels
  /\ OtherOps \subseteq {"start", "stop", "stop_and_save", "stop_and_cancel", "save", "cancel", "delete"}

VARIABLES
  service,  \* the controller: lifecycle, version, last, results, inflight
  records,  \* the saved collections
  born,     \* number of collections so far
  panel,    \* members of each CollectionPanel
  late,     \* a status for each panel that newer ones may overtake
  lists,    \* the newest query of each panel for the list of records, and its answer
  calls, answers,  \* the panels' requests to modify and their results, on their way
  asked,    \* history: every request, and how the panel's wait for it ended
  executed, \* history: how often each request was carried out
  succeeded, closed, forgotten,  \* history: requests answered with OK, answered
                                 \* at all, and no longer in the cache
  faults

outside  == <<late, lists, calls, answers>>
history  == <<asked, executed, succeeded, closed, forgotten>>
vars == <<service, records, born, panel, outside, history, faults>>

None  == 0
Ids   == 1 .. MaxRequests
Other == "other"     \* every client that is not a panel
Ops   == {"start", "stop", "stop_and_save", "stop_and_cancel", "save", "cancel", "delete"}

\* The states in which an operation is accepted, and the one it passes through.
AllowedIn(op) ==
  CASE op = "start"                     -> {"idle"}
    [] op \in {"stop", "stop_and_save"} -> {"recording"}
    [] op = "stop_and_cancel"           -> {"recording", "error"}
    [] op = "save"                      -> {"pending"}
    [] op = "cancel"                    -> {"pending", "error"}
    [] op = "delete"                    -> {}
Passing(op) ==
  CASE op = "start"                         -> "starting"
    [] op \in {"stop", "stop_and_save"}     -> "stopping"
    [] op \in {"stop_and_cancel", "cancel"} -> "cancelling"
    [] op = "save"                          -> "saving"

\* status_snapshot, as far as the panel uses it.
Snapshot == [version |-> service.version, state |-> service.state,
             active |-> service.active, last |-> service.last]
NoStatus == [version |-> 0, state |-> "unknown", active |-> None,
             last |-> [id |-> None, ok |-> FALSE]]

\* The row of a collection in a list of these: the newest comes first.
Row(rows, c) == Cardinality({d \in rows : d >= c})

Fresh == [up |-> TRUE, state |-> "idle", active |-> None, version |-> 1,
          last |-> NoStatus.last, results |-> <<>>, inflight |-> {}]
NoQuery  == [stage |-> "none", rows |-> {}]
NoDialog == [op |-> "none", row |-> 0, shown |-> None]

Init ==
  /\ service = Fresh
  /\ records = 1 .. Stored /\ born = Stored
  /\ panel = [p \in Panels |-> [pending |-> None, connected |-> FALSE, view |-> NoStatus,
                                refreshed |-> 0, rows |-> {}, dialog |-> NoDialog]]
  /\ late = [p \in Panels |-> NoStatus]
  /\ lists = [p \in Panels |-> NoQuery]
  /\ calls = {} /\ answers = {}
  /\ asked = <<>> /\ executed = [i \in Ids |-> 0]
  /\ succeeded = {} /\ closed = {} /\ forgotten = {}
  /\ faults = 0

-----------------------------------------------------------------------------
(* The service *)

\* A result goes to the client that asked; only panels are of interest.
Sent(to, id, code) ==
  answers' = IF to \in Panels THEN answers \cup {[to |-> to, id |-> id, code |-> code]}
                              ELSE answers

\* The entry of _run: the first result is repeated, and a request under way is not
\* carried out again.
Cached(id)  == {r \in Range(service.results) : r.id = id}
Running(id) == {q \in service.inflight : q.id = id}

RunningIgnored(id) == Cached(id) = {}    \* mutant: _inflight is not looked at
IsNew(id) == Cached(id) = {} /\ Running(id) = {}

\* _check_target and _start_state_rejection.
Accepts(q) == /\ service.state \in AllowedIn(q.op)
              /\ q.op = "start" \/ q.target = service.active

\* An operation begins: its critical section leaves a transient state.
Begin(q) ==
  /\ Accepts(q)
  /\ service' = [service EXCEPT !.state = Passing(q.op), !.version = @ + 1,
                                !.inflight = @ \cup {[q EXCEPT !.stage = "work"]}]
  /\ executed' = [executed EXCEPT ![q.id] = @ + 1]
  /\ UNCHANGED records

\* _delete: the record moves to the recycle area, whatever the lifecycle does.
Delete(q) ==
  /\ q.op = "delete" /\ q.target \in records
  /\ records' = records \ {q.target}
  /\ service' = [service EXCEPT !.inflight = @ \cup {q}]
  /\ executed' = [executed EXCEPT ![q.id] = @ + 1]

\* It is rejected: a start also by what blocks it, a deletion by the file system.
Reject(q) ==
  /\ Accepts(q) => q.op = "start"
  /\ service' = [service EXCEPT !.inflight = @ \cup {[q EXCEPT !.code = "REJECTED"]}]
  /\ UNCHANGED <<records, executed>>

Carry(id, op, target, from) ==
  LET q == [id |-> id, op |-> op, target |-> target, from |-> from,
            stage |-> "close", code |-> "OK"]
  IN Begin(q) \/ Delete(q) \/ Reject(q)

Enter(c) ==
  /\ service.up /\ c \in calls
  /\ calls' = calls \ {c}
  /\ \/ /\ IsNew(c.id)
        /\ Carry(c.id, asked[c.id].op, asked[c.id].target, c.from)
        /\ UNCHANGED answers
     \/ /\ ~IsNew(c.id)
        /\ \/ \E r \in Cached(c.id) : Sent(c.from, c.id, r.code)
           \/ Running(c.id) # {} /\ Sent(c.from, c.id, "IN_PROGRESS")
        /\ UNCHANGED <<service, records, executed>>
  /\ UNCHANGED <<born, panel, late, lists, asked, succeeded, closed, forgotten, faults>>

\* The request q is done with this result, which _run has yet to close.
Done(q, code) ==
  (service.inflight \ {q}) \cup {[q EXCEPT !.stage = "close", !.code = code]}

\* It succeeds.
Succeed(q) ==
  /\ q \in service.inflight /\ q.stage = "work"
  /\ LET new(state, active) ==
           service' = [service EXCEPT !.state = state, !.active = active,
                                      !.version = @ + 1,
                                      !.inflight = Done(q, "OK")]
     IN CASE q.op = "start" -> /\ new("recording", born + 1)
                               /\ born' = born + 1 /\ UNCHANGED records
          [] q.op = "stop"  -> /\ new("pending", service.active)
                               /\ UNCHANGED <<born, records>>
          [] q.op \in {"save", "stop_and_save"} ->
                               /\ new("idle", None)
                               /\ records' = records \cup {service.active}
                               /\ UNCHANGED born
          [] q.op \in {"cancel", "stop_and_cancel"} ->
                               /\ new("idle", None)
                               /\ UNCHANGED <<born, records>>
  /\ UNCHANGED <<panel, outside, history, faults>>

\* It fails.  A failed start leaves nothing; any other failure, and a start whose
\* writer does not end, leaves ERROR.  The failure is noted in _last under the
\* request before this one.
Fail(q) ==
  /\ q \in service.inflight /\ q.stage = "work"
  /\ \/ /\ q.op = "start"
        /\ service' = [service EXCEPT !.state = "idle", !.version = @ + 1,
                                      !.inflight = Done(q, "FAILED")]
        /\ UNCHANGED born
     \/ /\ service' = [service EXCEPT !.state = "error", !.version = @ + 1,
                         !.active = IF q.op = "start" THEN born + 1 ELSE @,
                         !.last.ok = IF q.op = "start" THEN @ ELSE FALSE,
                         !.inflight = Done(q, "FAILED")]
        /\ born' = IF q.op = "start" THEN born + 1 ELSE born
  /\ UNCHANGED <<records, panel, outside, history, faults>>

\* An exception nobody expected leaves the transient state.
Throw(q) ==
  /\ q \in service.inflight /\ q.stage = "work" /\ q.op # "start"
  /\ service' = [service EXCEPT !.inflight = Done(q, "INTERNAL_ERROR")]
  /\ UNCHANGED <<records, born, panel, outside, history, faults>>

\* The end of _run: the result is kept, shown in the status and sent.
KeptAll(q) == Append(service.results, [id |-> q.id, code |-> q.code])   \* mutant: no bound
Kept(q) == LET all == Append(service.results, [id |-> q.id, code |-> q.code])
           IN IF Len(all) > CacheSize THEN Tail(all) ELSE all

Close(q) ==
  /\ q \in service.inflight /\ q.stage = "close"
  /\ service' = [service EXCEPT !.inflight = @ \ {q}, !.results = Kept(q),
                                !.last = [id |-> q.id, ok |-> q.code = "OK"],
                                !.version = @ + 1]
  /\ Sent(q.from, q.id, q.code)
  /\ closed' = closed \cup {q.id}
  /\ succeeded' = IF q.code = "OK" THEN succeeded \cup {q.id} ELSE succeeded
  /\ forgotten' = IF Len(service.results) = CacheSize
                    THEN forgotten \cup {Head(service.results).id} ELSE forgotten
  /\ UNCHANGED <<records, born, panel, late, lists, calls, asked, executed, faults>>

\* _sync_writer_error: the recording fails between two requests, and _last keeps the
\* request and gets the failure.
WriterFails ==
  /\ service.up /\ service.state = "recording"
  /\ service' = [service EXCEPT !.state = "error", !.version = @ + 1, !.last.ok = FALSE]
  /\ UNCHANGED <<records, born, panel, outside, history, faults>>

\* The process ends: what is not saved is lost, and so are the calls on their way and
\* the statuses its threads hold.
Crash ==
  /\ service.up /\ faults < MaxFaults
  /\ faults' = faults + 1
  /\ service' = [Fresh EXCEPT !.up = FALSE]
  /\ calls' = {} /\ answers' \in {answers, {}}
  /\ lists' = [p \in Panels |-> IF lists[p].stage = "sent" THEN NoQuery ELSE lists[p]]
  /\ late' = [p \in Panels |-> NoStatus]
  /\ forgotten' = Ids
  /\ UNCHANGED <<records, born, panel, asked, executed, succeeded, closed>>

\* It is started by hand, which takes longer than kCollectionStatusTimeoutMs.
Restart ==
  /\ ~service.up /\ \A p \in Panels : ~panel[p].connected
  /\ service' = [service EXCEPT !.up = TRUE]
  /\ UNCHANGED <<records, born, panel, outside, history, faults>>

\* Other clients ask for anything, and may send any request again.
OtherAsks(op) ==
  /\ service.up /\ Len(asked) < MaxRequests
  /\ \E t \in IF op = "delete" THEN records
              ELSE IF op = "start" THEN {None} ELSE {service.active} \ {None} :
       /\ asked' = Append(asked, [from |-> Other, op |-> op, target |-> t,
                                  shown |-> t, end |-> "waiting"])
       /\ Carry(Len(asked) + 1, op, t, Other)
  /\ UNCHANGED <<born, panel, outside, succeeded, closed, forgotten, faults>>

Repeat(i) ==
  /\ service.up /\ faults < MaxFaults
  /\ i \in DOMAIN asked /\ IsNew(i)
  /\ faults' = faults + 1
  /\ Carry(i, asked[i].op, asked[i].target, Other)
  /\ UNCHANGED <<born, panel, outside, asked, succeeded, closed, forgotten>>

Service ==
  \/ \E c \in calls : Enter(c)
  \/ \E q \in service.inflight : Succeed(q) \/ Fail(q) \/ Throw(q) \/ Close(q)

-----------------------------------------------------------------------------
(* The panel: pressing *)

\* current_gate: what the last status allows, with no request pending.
Gate(p, op) ==
  /\ panel[p].connected /\ panel[p].pending = None
  /\ CASE op = "start"                                -> panel[p].view.state = "idle"
       [] op \in {"stop_and_save", "stop_and_cancel"} -> panel[p].view.state = "recording"
       [] op = "save"                                 -> panel[p].view.state = "pending"
       [] op = "cancel"                               -> panel[p].view.state \in {"pending", "error"}
       [] op = "delete"                               -> panel[p].rows # {}
       [] op = "stop"                                 -> FALSE

\* begin_request and submit_modify; without a service the request is not sent, or
\* sent to nobody if its end has not been noticed.
Submit(p, op, target, shown) ==
  LET id   == Len(asked) + 1
      new(end) == Append(asked, [from |-> p, op |-> op, target |-> target,
                                 shown |-> shown, end |-> end])
  IN /\ id \in Ids
     /\ \/ /\ asked' = new("waiting")
           /\ panel' = [panel EXCEPT ![p].pending = id, ![p].dialog = NoDialog]
           /\ calls' = IF service.up
                         THEN calls \cup {[id |-> id, from |-> p]}
                         ELSE calls
        \/ /\ ~service.up
           /\ asked' = new("unsent")
           /\ panel' = [panel EXCEPT ![p].dialog = NoDialog]
           /\ UNCHANGED calls
     /\ UNCHANGED <<service, records, born, late, lists, answers, executed, succeeded, closed,
                    forgotten, faults>>

\* The buttons and keys that send at once.
Press(p, op) ==
  /\ op \in {"start", "stop_and_save", "save"}
  /\ panel[p].dialog = NoDialog /\ Gate(p, op)
  /\ Submit(p, op, IF op = "start" THEN None ELSE panel[p].view.active, panel[p].view.active)

\* The buttons that ask first.  The question is about the collection shown, or about
\* the record in the selected row.
Ask(p, op, shown) ==
  /\ op \in {"stop_and_cancel", "cancel", "delete"}
  /\ panel[p].dialog = NoDialog /\ Gate(p, op) /\ Len(asked) < MaxRequests
  /\ shown \in IF op = "delete" THEN panel[p].rows ELSE {panel[p].view.active}
  /\ panel' = [panel EXCEPT ![p].dialog = [op |-> op, row |-> Row(panel[p].rows, shown),
                                           shown |-> shown]]
  /\ UNCHANGED <<service, records, born, outside, history, faults>>

\* The operator agrees.  What is sent is read now: the uuid of the status, or that of
\* the row, which is no record if the list has become shorter.
Meant(p) ==
  LET d     == panel[p].dialog
      inRow == {c \in panel[p].rows : Row(panel[p].rows, c) = d.row}
  IN IF d.op # "delete" THEN {panel[p].view.active}
     ELSE IF inRow = {} THEN {None} ELSE inRow

Agree(p) ==
  /\ panel[p].dialog # NoDialog
  /\ \E c \in Meant(p) : Submit(p, panel[p].dialog.op, c, panel[p].dialog.shown)

Decline(p) ==
  /\ panel[p].dialog # NoDialog
  /\ panel' = [panel EXCEPT ![p].dialog = NoDialog]
  /\ UNCHANGED <<service, records, born, outside, history, faults>>

-----------------------------------------------------------------------------
(* The panel: what comes in *)

\* The wait for the pending request is over.
EndOf(p, how) == [asked EXCEPT ![panel[p].pending].end = how]

\* request_list: the answer of the newest query counts (list_epoch_).
Query(p) ==
  IF service.up THEN [lists EXCEPT ![p] = [stage |-> "sent", rows |-> {}]] ELSE lists

NeverReconnected(p, s) == s.state = "idle" /\ s.version # panel[p].refreshed   \* mutant
ListIsDue(p, s) ==
  ~panel[p].connected \/ (s.state = "idle" /\ s.version # panel[p].refreshed)

\* should_apply_status
IsNewer(p, s) == ~panel[p].connected \/ s.version >= panel[p].view.version

\* apply_status
Apply(p, s) ==
  IF ~IsNewer(p, s)
  THEN UNCHANGED <<panel, asked, lists>>
  ELSE LET confirmed == panel[p].pending # None /\ s.last.id = panel[p].pending
       IN /\ panel' = [panel EXCEPT ![p].view = s, ![p].connected = TRUE,
                         ![p].pending = IF confirmed THEN None ELSE @,
                         ![p].refreshed = IF ListIsDue(p, s) THEN s.version ELSE @]
          /\ asked' = IF confirmed THEN EndOf(p, IF s.last.ok THEN "done" ELSE "failed")
                                   ELSE asked
          /\ lists' = IF ListIsDue(p, s) THEN Query(p) ELSE lists

\* The status topic, or the answer of get_status.
Status(p) ==
  /\ service.up
  /\ Apply(p, Snapshot)
  /\ UNCHANGED <<service, records, born, late, calls, answers, executed, succeeded, closed,
                 forgotten, faults>>

\* Two threads publish: one took its snapshot earlier and publishes it later.
Delayed(p) ==
  /\ service.up /\ late[p] = NoStatus /\ faults < MaxFaults
  /\ faults' = faults + 1
  /\ late' = [late EXCEPT ![p] = Snapshot]
  /\ UNCHANGED <<service, records, born, panel, lists, calls, answers, history>>

LateStatus(p) ==
  /\ late[p] # NoStatus
  /\ late' = [late EXCEPT ![p] = NoStatus]
  /\ Apply(p, late[p])
  /\ UNCHANGED <<service, records, born, calls, answers, executed, succeeded, closed, forgotten,
                 faults>>

\* What time alone does not bring about is bounded.
Disturbed(unless) == IF unless THEN UNCHANGED faults
                     ELSE faults < MaxFaults /\ faults' = faults + 1

\* No status was taken over for 3 s: check_connection ends the connection.
CheckConnection(p) ==
  /\ panel[p].connected
  /\ Disturbed(~service.up \/ ~IsNewer(p, Snapshot))
  /\ panel' = [panel EXCEPT ![p].connected = FALSE]
  /\ UNCHANGED <<service, records, born, outside, history>>

\* handle_result: only the result of the pending request counts.
AnyResult(p, a) == panel[p].pending # None    \* mutant: the identifier is not compared
IsResultOf(p, a) == panel[p].pending # None /\ a.id = panel[p].pending

EndsAnyway(a) == TRUE                  \* mutant: IN_PROGRESS ends the wait, too
EndsWait(a)   == a.code # "IN_PROGRESS"

HandleResult(p, a) ==
  /\ a \in answers /\ a.to = p
  /\ answers' = answers \ {a}
  /\ IF IsResultOf(p, a) /\ EndsWait(a)
     THEN /\ panel' = [panel EXCEPT ![p].pending = None]
          /\ asked' = EndOf(p, IF a.code = "OK" THEN "done" ELSE "failed")
     ELSE UNCHANGED <<panel, asked>>
  /\ UNCHANGED <<service, records, born, late, lists, calls, executed, succeeded, closed,
                 forgotten, faults>>

\* on_request_timeout: the answer is late, or there is none.
Timeout(p) ==
  /\ panel[p].pending # None
  /\ LET i == panel[p].pending IN
       Disturbed(i \notin {m.id : m \in calls \cup answers \cup service.inflight})
  /\ panel' = [panel EXCEPT ![p].pending = None]
  /\ asked' = EndOf(p, "timeout")
  /\ UNCHANGED <<service, records, born, outside, executed, succeeded, closed, forgotten>>

\* The service reads the records; apply_list shows them.
ServeList(p) ==
  /\ service.up /\ lists[p].stage = "sent"
  /\ lists' = [lists EXCEPT ![p] = [stage |-> "served", rows |-> records]]
  /\ UNCHANGED <<service, records, born, panel, late, calls, answers, history, faults>>

ApplyList(p) ==
  /\ lists[p].stage = "served"
  /\ lists' = [lists EXCEPT ![p] = NoQuery]
  /\ panel' = [panel EXCEPT ![p].rows = lists[p].rows]
  /\ UNCHANGED <<service, records, born, late, calls, answers, history, faults>>

Panel(p) ==
  \/ \E op \in Ops : Press(p, op) \/ \E c \in 0 .. born : Ask(p, op, c)
  \/ Agree(p) \/ Decline(p)
  \/ Status(p) \/ Delayed(p) \/ LateStatus(p) \/ CheckConnection(p)
  \/ \E a \in answers : HandleResult(p, a)
  \/ Timeout(p) \/ ServeList(p) \/ ApplyList(p)

Next ==
  \/ Service \/ WriterFails \/ Crash \/ Restart
  \/ \E op \in OtherOps : OtherAsks(op)
  \/ \E i \in DOMAIN asked : Repeat(i)
  \/ \E p \in Panels : Panel(p)

Spec == Init /\ [][Next]_vars

\* The threads of the service go on (every wait of theirs has a time-out), statuses
\* and lists arrive, and the timer of the panel runs.  A query that is sent again and
\* again is answered at last.
FairSpec ==
  /\ Spec /\ WF_vars(Service)
  /\ \A p \in Panels :
       /\ WF_vars(Status(p)) /\ WF_vars(CheckConnection(p) /\ ~IsNewer(p, Snapshot))
       /\ SF_vars(ServeList(p)) /\ SF_vars(ApplyList(p))

-----------------------------------------------------------------------------
(* Properties *)

States == {"idle", "starting", "recording", "stopping", "pending", "saving",
           "cancelling", "error"}
LastType   == [id : Ids \cup {None}, ok : BOOLEAN]
StatusType == [version : Nat, state : States \cup {"unknown"}, active : Nat, last : LastType]
Codes      == {"OK", "REJECTED", "FAILED", "INTERNAL_ERROR"}
RunType    == [id : Ids, op : Ops, target : Nat, from : Panels \cup {Other},
               stage : {"work", "close"}, code : Codes]
ServiceType ==
  [up : BOOLEAN, state : States, active : Nat, version : Nat, last : LastType,
   results : Seq([id : Ids, code : Codes]), inflight : SUBSET RunType]
PanelType ==
  [pending : Ids \cup {None}, connected : BOOLEAN, view : StatusType, refreshed : Nat,
   rows : SUBSET Nat, dialog : [op : Ops \cup {"none"}, row : Nat, shown : Nat]]

Types ==
  /\ service \in ServiceType
  /\ records \subseteq Nat /\ IsFiniteSet(records) /\ born \in Nat
  /\ panel \in [Panels -> PanelType] /\ late \in [Panels -> StatusType]
  /\ lists \in [Panels -> [stage : {"none", "sent", "served"}, rows : SUBSET Nat]]
  /\ \A p \in Panels : IsFiniteSet(panel[p].rows) /\ IsFiniteSet(lists[p].rows)
  /\ calls \subseteq [id : Ids, from : Panels]
  /\ answers \subseteq [to : Panels, id : Ids, code : Codes \cup {"IN_PROGRESS"}]
  /\ asked \in Seq([from : Panels \cup {Other}, op : Ops, target : Nat, shown : Nat,
                    end : {"waiting", "unsent", "done", "failed", "timeout"}])
  /\ executed \in [Ids -> Nat]
  /\ succeeded \subseteq Ids /\ closed \subseteq Ids /\ forgotten \subseteq Ids
  /\ faults \in Nat

\* Every variable keeps its type, and the cache of results its size.
TypeOK == Types /\ Len(service.results) <= CacheSize

\* The panel reports success only of a request that the service has carried out,
\* whatever came late, repeated or out of order.
DoneIsTrue == \A i \in DOMAIN asked : asked[i].end = "done" => i \in succeeded

\* A panel sends its next request only when the service has finished the one before,
\* or after it reported a time-out.
OneAtATime ==
  \A i, j \in DOMAIN asked :
    i < j /\ asked[i].from = asked[j].from /\ asked[i].from \in Panels
      => i \in closed \/ asked[i].end \in {"timeout", "unsent"}

\* A request that is repeated is carried out once, as long as its result is kept
\* (CollectionResult.msg: 重复请求返回首次结果).
AtMostOnce == \A i \in Ids : executed[i] > 1 => i \in forgotten

\* The panel comes to show what is: the status, and in idle the records, whatever
\* was lost, late or overtaken, after a restart of the service, too.
ViewSettles ==
  <>[](service.up => \A p \in Panels :
         /\ panel[p].view = Snapshot
         /\ service.state = "idle" => panel[p].rows = records)

\* A record is deleted that the operator was asked about (将把以下记录移入回收区).
DeletesWhatWasShown ==
  \A i \in DOMAIN asked :
    asked[i].op = "delete" /\ i \in succeeded => asked[i].target = asked[i].shown
=============================================================================
