----------------------- MODULE CollectionPanelProofs -----------------------
(***************************************************************************)
(* What CollectionPanel promises for any number of panels and requests,    *)
(* any number of faults and any size of the cache.                         *)
(***************************************************************************)
EXTENDS CollectionPanel, FiniteSetTheorems, SequenceTheorems, TLAPS

USE CollectionPanelAssumption DEF Ids, None, Other

\* The rows of a list are finite in number.
LEMMA RowIsNat ==
  ASSUME NEW rows \in SUBSET Nat, IsFiniteSet(rows), NEW c
  PROVE  Row(rows, c) \in Nat
<1>1. IsFiniteSet({d \in rows : d >= c})
  BY FS_Subset
<1>2. QED
  BY <1>1, FS_CardinalityType DEF Row

AskedType == [from : Panels \cup {Other}, op : Ops, target : Nat, shown : Nat,
              end : {"waiting", "unsent", "done", "failed", "timeout"}]

\* A service that starts, and panels that know nothing yet, have their types.
LEMMA FreshType ==
  Fresh \in ServiceType /\ [p \in Panels |-> NoStatus] \in [Panels -> StatusType]
<1>1. NoStatus.last \in LastType /\ NoStatus \in StatusType
  BY DEF NoStatus, LastType, StatusType
<1>2. Fresh \in ServiceType
  BY <1>1 DEF Fresh, ServiceType, States
<1>3. QED
  BY <1>1, <1>2

\* The system starts with its types.
LEMMA InitTypes == Init => Types
<1>1. IsFiniteSet(1 .. Stored) /\ IsFiniteSet({})
  BY FS_Interval, FS_EmptySet
<1>2. NoStatus.last \in LastType /\ NoStatus \in StatusType
  BY DEF NoStatus, LastType, StatusType
<1>3. Fresh \in ServiceType
  BY <1>2 DEF Fresh, ServiceType, States
<1>4. [pending |-> None, connected |-> FALSE, view |-> NoStatus, refreshed |-> 0,
       rows |-> {}, dialog |-> NoDialog] \in PanelType
  BY <1>2 DEF PanelType, NoDialog
<1>5. [p \in Panels |-> NoQuery]
        \in [Panels -> [stage : {"none", "sent", "served"}, rows : SUBSET Nat]]
  BY DEF NoQuery
<1>6. SUFFICES ASSUME Init PROVE Types
  OBVIOUS
<1>7. asked \in Seq(AskedType) /\ executed \in [Ids -> Nat]
  BY <1>6 DEF Init
<1>8. panel \in [Panels -> PanelType] /\ late \in [Panels -> StatusType]
  BY <1>2, <1>4, <1>6 DEF Init
<1>9. \A p \in Panels : panel[p].rows = {} /\ lists[p].rows = {}
  BY <1>6 DEF Init, NoQuery
<1>10. service \in ServiceType /\ records \subseteq Nat /\ IsFiniteSet(records)
  BY <1>1, <1>3, <1>6 DEF Init
<1>11. QED
  BY <1>1, <1>5, <1>6, <1>7, <1>8, <1>9, <1>10 DEF Init, Types, AskedType

\* The end of a wait is noted at the request it was for.
LEMMA EndOfType ==
  ASSUME Types, NEW p \in Panels, NEW how \in {"done", "failed", "timeout"}
  PROVE  EndOf(p, how) \in Seq(AskedType)
<1> DEFINE i == panel[p].pending
           e == [asked[i] EXCEPT !.end = how]
<1>1. asked \in Seq(AskedType)
  BY DEF Types, AskedType
<1>2. CASE i \in 1 .. Len(asked)
  <2>1. asked[i] \in AskedType
    BY <1>1, <1>2
  <2>2. e \in AskedType
    BY <2>1 DEF AskedType
  <2>3. [asked EXCEPT ![i] = e] \in Seq(AskedType)
    BY <1>1, <1>2, <2>2, ExceptSeq
  <2>4. QED
    BY <2>3 DEF EndOf
<1>3. CASE i \notin 1 .. Len(asked)
  <2>1. EndOf(p, how) = asked
    BY <1>1, <1>3 DEF EndOf
  <2>2. QED
    BY <1>1, <2>1
<1>4. QED
  BY <1>2, <1>3

\* A status taken over leaves a panel a panel.
LEMMA ApplyType ==
  ASSUME Types, NEW p \in Panels, NEW s \in StatusType, Apply(p, s)
  PROVE  /\ panel' \in [Panels -> PanelType]
         /\ lists' \in [Panels -> [stage : {"none", "sent", "served"}, rows : SUBSET Nat]]
         /\ asked' \in Seq(AskedType)
         /\ \A r \in Panels : IsFiniteSet(panel'[r].rows) /\ IsFiniteSet(lists'[r].rows)
<1>1. CASE ~IsNewer(p, s)
  BY <1>1 DEF Apply, Types, AskedType
<1>2. CASE IsNewer(p, s)
  <2>1. asked' \in Seq(AskedType)
    BY <1>2, EndOfType DEF Apply, Types, AskedType
  <2>2. panel' \in [Panels -> PanelType] /\ \A r \in Panels : panel'[r].rows = panel[r].rows
    <3>1. PICK m \in PanelType : m.rows = panel[p].rows /\ panel' = [panel EXCEPT ![p] = m]
      <4>1. panel \in [Panels -> PanelType] /\ panel[p] \in PanelType /\ s.version \in Nat
        BY DEF Types, StatusType
      <4> DEFINE pending == IF panel[p].pending # None /\ s.last.id = panel[p].pending
                              THEN None ELSE panel[p].pending
                 refreshed == IF ListIsDue(p, s) THEN s.version ELSE panel[p].refreshed
                 m == [panel[p] EXCEPT !.view = s, !.connected = TRUE,
                                       !.pending = pending, !.refreshed = refreshed]
      <4>2. panel' = [panel EXCEPT ![p] = m]
        BY <1>2, <4>1 DEF Apply
      <4>3. m \in PanelType /\ m.rows = panel[p].rows
        BY <4>1 DEF PanelType
      <4>4. QED
        BY <4>2, <4>3
    <3>2. panel \in [Panels -> PanelType]
      BY DEF Types
    <3>3. QED
      BY <3>1, <3>2
  <2>3. /\ lists' \in [Panels -> [stage : {"none", "sent", "served"}, rows : SUBSET Nat]]
        /\ \A r \in Panels : lists'[r].rows \in {lists[r].rows, {}}
    <3>1. lists' = lists \/ lists' = [lists EXCEPT ![p] = [stage |-> "sent", rows |-> {}]]
      BY <1>2 DEF Apply, Query
    <3>2. lists \in [Panels -> [stage : {"none", "sent", "served"}, rows : SUBSET Nat]]
      BY DEF Types
    <3>3. QED
      BY <3>1, <3>2
  <2>4. QED
    BY <2>1, <2>2, <2>3, FS_EmptySet DEF Types
<1>3. QED
  BY <1>1, <1>2

Results == Seq([id : Ids, code : Codes])

\* The fields of the service, one by one.
Holds(t, u, st, c, v, l, r, Q) ==
  /\ t.up = u /\ t.state = st /\ t.active = c /\ t.version = v
  /\ t.last = l /\ t.results = r /\ t.inflight = Q

\* A step changes fields of the service, each to a value of its type, and keeps the others.
LEMMA RunningFields ==
  ASSUME NEW s \in ServiceType, NEW u \in BOOLEAN
  PROVE  LET t == [s EXCEPT !.up = u]
         IN t \in ServiceType
            /\ Holds(t, u, s.state, s.active, s.version, s.last, s.results, s.inflight)
<1> DEFINE t == [s EXCEPT !.up = u]
<1>1. t \in ServiceType
  BY Zenon DEF ServiceType, Results, LastType
<1>2. Holds(t, u, s.state, s.active, s.version, s.last, s.results, s.inflight)
  BY DEF Holds, ServiceType
<1>3. QED
  BY <1>1, <1>2

\* The fields of a service whose requests under way changed.
LEMMA InflightFields ==
  ASSUME NEW s \in ServiceType, NEW Q \in SUBSET RunType
  PROVE  LET t == [s EXCEPT !.inflight = Q]
         IN t \in ServiceType
            /\ Holds(t, s.up, s.state, s.active, s.version, s.last, s.results, Q)
<1> DEFINE t == [s EXCEPT !.inflight = Q]
<1>1. t \in ServiceType
  BY Zenon DEF ServiceType, Results, LastType
<1>2. Holds(t, s.up, s.state, s.active, s.version, s.last, s.results, Q)
  BY DEF Holds, ServiceType
<1>3. QED
  BY <1>1, <1>2

\* The fields of a service that a request moved to another state.
LEMMA MovedFields ==
  ASSUME NEW s \in ServiceType, NEW st \in States, NEW v \in Nat, NEW Q \in SUBSET RunType
  PROVE  LET t == [s EXCEPT !.state = st, !.version = v, !.inflight = Q]
         IN t \in ServiceType
            /\ Holds(t, s.up, st, s.active, v, s.last, s.results, Q)
<1> DEFINE t == [s EXCEPT !.state = st, !.version = v, !.inflight = Q]
<1>1. t \in ServiceType
  BY Zenon DEF ServiceType, Results, LastType
<1>2. Holds(t, s.up, st, s.active, v, s.last, s.results, Q)
  BY DEF Holds, ServiceType
<1>3. QED
  BY <1>1, <1>2

\* The fields of a service that carried a request out.
LEMMA SettledFields ==
  ASSUME NEW s \in ServiceType, NEW st \in States, NEW c \in Nat, NEW v \in Nat,
         NEW Q \in SUBSET RunType
  PROVE  LET t == [s EXCEPT !.state = st, !.active = c, !.version = v, !.inflight = Q]
         IN t \in ServiceType
            /\ Holds(t, s.up, st, c, v, s.last, s.results, Q)
<1> DEFINE t == [s EXCEPT !.state = st, !.active = c, !.version = v, !.inflight = Q]
<1>1. t \in ServiceType
  BY Zenon DEF ServiceType, Results, LastType
<1>2. Holds(t, s.up, st, c, v, s.last, s.results, Q)
  BY DEF Holds, ServiceType
<1>3. QED
  BY <1>1, <1>2

\* The fields of a service that closed a request.
LEMMA ClosedFields ==
  ASSUME NEW s \in ServiceType, NEW Q \in SUBSET RunType, NEW r \in Results, NEW l \in LastType,
         NEW v \in Nat
  PROVE  LET t == [s EXCEPT !.inflight = Q, !.results = r, !.last = l, !.version = v]
         IN t \in ServiceType
            /\ Holds(t, s.up, s.state, s.active, v, l, r, Q)
<1> DEFINE t == [s EXCEPT !.inflight = Q, !.results = r, !.last = l, !.version = v]
<1>1. t \in ServiceType
  BY Zenon DEF ServiceType, Results, LastType
<1>2. Holds(t, s.up, s.state, s.active, v, l, r, Q)
  BY DEF Holds, ServiceType
<1>3. QED
  BY <1>1, <1>2

\* The fields of a service whose last answer changed with its state.
LEMMA BrokenFields ==
  ASSUME NEW s \in ServiceType, NEW st \in States, NEW v \in Nat, NEW b \in BOOLEAN
  PROVE  LET t == [s EXCEPT !.state = st, !.version = v, !.last.ok = b]
         IN t \in ServiceType
            /\ Holds(t, s.up, st, s.active, v, [s.last EXCEPT !.ok = b], s.results, s.inflight)
<1> DEFINE t == [s EXCEPT !.state = st, !.version = v, !.last.ok = b]
<1>1. t \in ServiceType
  BY Zenon DEF ServiceType, Results, LastType
<1>2. Holds(t, s.up, st, s.active, v, [s.last EXCEPT !.ok = b], s.results, s.inflight)
  BY DEF Holds, ServiceType
<1>3. QED
  BY <1>1, <1>2

\* The fields of a service whose request failed.
LEMMA FailedFields ==
  ASSUME NEW s \in ServiceType, NEW st \in States, NEW v \in Nat, NEW c \in Nat,
         NEW b \in BOOLEAN, NEW Q \in SUBSET RunType
  PROVE  LET t == [s EXCEPT !.state = st, !.version = v, !.active = c, !.last.ok = b,
                            !.inflight = Q]
         IN t \in ServiceType
            /\ Holds(t, s.up, st, c, v, [s.last EXCEPT !.ok = b], s.results, Q)
<1> DEFINE t == [s EXCEPT !.state = st, !.version = v, !.active = c, !.last.ok = b, !.inflight = Q]
<1>1. t \in ServiceType
  BY Zenon DEF ServiceType, Results, LastType
<1>2. Holds(t, s.up, st, c, v, [s.last EXCEPT !.ok = b], s.results, Q)
  BY DEF Holds, ServiceType
<1>3. QED
  BY <1>1, <1>2

\* The noted failure of a service whose last request is kept.
LEMMA NotedType ==
  ASSUME NEW l \in LastType, NEW b \in BOOLEAN
  PROVE  [l EXCEPT !.ok = b] \in LastType /\ [l EXCEPT !.ok = b].id = l.id
         /\ [l EXCEPT !.ok = b].ok = b
BY DEF LastType

-----------------------------------------------------------------------------
(* What the steps of the service do *)

\* A request that is carried out or rejected is under way, and it is counted at most once.
LEMMA CarryEffect ==
  ASSUME Types, NEW id \in Ids, NEW op \in Ops, NEW target \in Nat,
         NEW from \in Panels \cup {Other}, Carry(id, op, target, from)
  PROVE  /\ service' \in ServiceType
         /\ UNCHANGED <<service.up, service.results, service.last>>
         /\ \E run \in RunType : /\ run.id = id
                                 /\ run.stage = "work" => run.op # "delete"
                                 /\ service'.inflight = service.inflight \cup {run}
         /\ executed' \in {executed, [executed EXCEPT ![id] = @ + 1]}
         /\ records' \subseteq Nat /\ IsFiniteSet(records')
<1> DEFINE q == [id |-> id, op |-> op, target |-> target, from |-> from,
                 stage |-> "close", code |-> "OK"]
           w == [q EXCEPT !.stage = "work"]
           d == [q EXCEPT !.code = "REJECTED"]
<1>1. service \in ServiceType /\ records \subseteq Nat /\ IsFiniteSet(records)
  BY DEF Types
<1>2. /\ service.up \in BOOLEAN /\ service.state \in States /\ service.active \in Nat
      /\ service.version \in Nat /\ service.last \in LastType
      /\ service.results \in Results /\ service.inflight \in SUBSET RunType
  BY <1>1 DEF ServiceType, Results
<1>3. /\ q \in RunType /\ q.id = id /\ q.op = op /\ q.stage = "close" /\ q.target = target
      /\ w \in RunType /\ w.id = id /\ w.op = op /\ w.stage = "work"
      /\ d \in RunType /\ d.id = id /\ d.op = op /\ d.stage = "close"
  BY DEF RunType, Codes
<1>4. CASE Begin(q)
  <2>1. op # "delete"
    BY <1>3, <1>4 DEF Begin, Accepts, AllowedIn
  <2>2. Passing(q.op) \in States
    BY <1>3, <2>1 DEF Passing, States, Ops
  <2>3. service' = [service EXCEPT !.state = Passing(q.op), !.version = service.version + 1,
                                   !.inflight = service.inflight \cup {w}]
    BY <1>4 DEF Begin
  <2> HIDE DEF q, w
  <2>4. service.inflight \cup {w} \in SUBSET RunType /\ service.version + 1 \in Nat
    BY <1>2, <1>3
  <2>5. service' \in ServiceType
    BY <1>1, <2>2, <2>3, <2>4, MovedFields, Zenon
  <2>6. Holds(service', service.up, Passing(q.op), service.active, service.version + 1,
              service.last, service.results, service.inflight \cup {w})
    BY <1>1, <2>2, <2>3, <2>4, MovedFields, Zenon
  <2>7. executed' = [executed EXCEPT ![id] = @ + 1] /\ records' = records
    BY <1>3, <1>4 DEF Begin
  <2>8. QED
    BY <1>1, <1>3, <2>1, <2>5, <2>6, <2>7 DEF Holds
<1>5. CASE Delete(q) \/ Reject(q)
  <2>1. PICK run \in {q, d} :
          service' = [service EXCEPT !.inflight = service.inflight \cup {run}]
    BY <1>5 DEF Delete, Reject
  <2>2. executed' \in {executed, [executed EXCEPT ![id] = @ + 1]}
    BY <1>3, <1>5 DEF Delete, Reject
  <2>3. records' \subseteq records
    BY <1>5 DEF Delete, Reject
  <2>4. run \in RunType /\ run.id = id /\ run.stage = "close"
    BY <1>3, <2>1
  <2> HIDE DEF q, d
  <2>5. service.inflight \cup {run} \in SUBSET RunType
    BY <1>2, <2>4
  <2>6. service' \in ServiceType
    BY <1>1, <2>1, <2>5, InflightFields
  <2>7. Holds(service', service.up, service.state, service.active, service.version,
              service.last, service.results, service.inflight \cup {run})
    BY <1>1, <2>1, <2>5, InflightFields
  <2>8. records' \subseteq Nat /\ IsFiniteSet(records')
    BY <1>1, <2>3, FS_Subset
  <2>9. QED
    BY <2>2, <2>4, <2>6, <2>7, <2>8 DEF Holds
<1>6. QED
  BY <1>4, <1>5 DEF Carry

\* The request q is done, well or not.
LEMMA DoneIs ==
  ASSUME Types, NEW q \in service.inflight, NEW code \in Codes
  PROVE  \E r \in RunType : /\ r.id = q.id /\ r.stage = "close"
                            /\ Done(q, code) = (service.inflight \ {q}) \cup {r}
                            /\ Done(q, code) \in SUBSET RunType
<1>1. service.inflight \in SUBSET RunType /\ q \in RunType
  BY DEF Types, ServiceType
<1> DEFINE r == [q EXCEPT !.stage = "close", !.code = code]
<1>2. r \in RunType /\ r.id = q.id /\ r.stage = "close"
  BY <1>1 DEF RunType
<1>3. Done(q, code) = (service.inflight \ {q}) \cup {r}
  BY DEF Done
<1> HIDE DEF r
<1>4. QED
  BY <1>1, <1>2, <1>3

\* The work on a request ends: the request stays under way until _run closes it, and the
\* status never turns from a failure to a success.
LEMMA WorkEffect ==
  ASSUME Types, NEW q \in service.inflight, q.stage = "work" => q.op # "delete",
         Succeed(q) \/ Fail(q) \/ Throw(q)
  PROVE  /\ service' \in ServiceType
         /\ UNCHANGED <<service.up, service.results, service.last.id>>
         /\ service'.last.ok => service.last.ok
         /\ \E r \in RunType : /\ r.id = q.id /\ r.stage = "close"
                               /\ service'.inflight = (service.inflight \ {q}) \cup {r}
         /\ records' \subseteq Nat /\ IsFiniteSet(records') /\ born' \in Nat
<1>1. /\ service \in ServiceType /\ records \subseteq Nat /\ IsFiniteSet(records)
      /\ born \in Nat
  BY DEF Types
<1>2. /\ service.active \in Nat /\ service.version + 1 \in Nat /\ born + 1 \in Nat
      /\ service.last \in LastType
  BY <1>1 DEF ServiceType
<1>3. q.op \in Ops
  BY <1>1 DEF ServiceType, RunType
<1>4. CASE Succeed(q)
  <2>1. PICK r \in RunType : /\ r.id = q.id /\ r.stage = "close"
                             /\ Done(q, "OK") = (service.inflight \ {q}) \cup {r}
                             /\ Done(q, "OK") \in SUBSET RunType
    BY DoneIs DEF Codes
  <2>2. q.op \in Ops \ {"delete"}
    BY <1>3, <1>4 DEF Succeed
  <2>3. PICK state \in States, active \in Nat :
          service' = [service EXCEPT !.state = state, !.active = active,
                                     !.version = service.version + 1,
                                     !.inflight = Done(q, "OK")]
    <3>1. CASE q.op = "start"
      BY <1>2, <1>4, <3>1 DEF Succeed, States
    <3>2. CASE q.op = "stop"
      BY <1>2, <1>4, <3>2 DEF Succeed, States
    <3>3. CASE q.op \in {"save", "stop_and_save"}
      BY <1>2, <1>4, <3>3 DEF Succeed, States
    <3>4. CASE q.op \in {"cancel", "stop_and_cancel"}
      BY <1>2, <1>4, <3>4 DEF Succeed, States
    <3>5. QED
      BY <2>2, <3>1, <3>2, <3>3, <3>4 DEF Ops
  <2>4. service' \in ServiceType
    BY <1>1, <1>2, <2>1, <2>3, SettledFields, Zenon
  <2>5. Holds(service', service.up, state, active, service.version + 1, service.last,
              service.results, Done(q, "OK"))
    BY <1>1, <1>2, <2>1, <2>3, SettledFields, Zenon
  <2>6. records' \in {records, records \cup {service.active}} /\ born' \in {born, born + 1}
    BY <1>4, <2>2 DEF Succeed, Ops
  <2>7. records' \subseteq Nat /\ IsFiniteSet(records')
    BY <1>1, <1>2, <2>6, FS_AddElement
  <2>8. QED
    BY <1>1, <1>2, <2>1, <2>4, <2>5, <2>6, <2>7 DEF Holds
<1>5. CASE Fail(q)
  <2>1. PICK r \in RunType : /\ r.id = q.id /\ r.stage = "close"
                             /\ Done(q, "FAILED") = (service.inflight \ {q}) \cup {r}
                             /\ Done(q, "FAILED") \in SUBSET RunType
    BY DoneIs DEF Codes
  <2>2. CASE service' = [service EXCEPT !.state = "idle", !.version = service.version + 1,
                                        !.inflight = Done(q, "FAILED")]
    <3>1. "idle" \in States
      BY DEF States
    <3>2. service' \in ServiceType
      BY <1>1, <1>2, <2>1, <2>2, <3>1, MovedFields, Zenon
    <3>3. Holds(service', service.up, "idle", service.active, service.version + 1,
                service.last, service.results, Done(q, "FAILED"))
      BY <1>1, <1>2, <2>1, <2>2, <3>1, MovedFields, Zenon
    <3>4. QED
      BY <1>1, <1>2, <1>5, <2>1, <3>2, <3>3 DEF Holds, Fail
  <2>3. ASSUME NEW active \in Nat, NEW ok \in BOOLEAN, ok => service.last.ok,
               service' = [service EXCEPT !.state = "error", !.version = service.version + 1,
                             !.active = active, !.last.ok = ok,
                             !.inflight = Done(q, "FAILED")]
        PROVE  /\ service' \in ServiceType
               /\ UNCHANGED <<service.up, service.results, service.last.id>>
               /\ service'.last.ok => service.last.ok
               /\ service'.inflight = Done(q, "FAILED")
    <3>1. "error" \in States
      BY DEF States
    <3>2. service' \in ServiceType
      BY <1>1, <1>2, <2>1, <2>3, <3>1, FailedFields, Zenon
    <3>3. Holds(service', service.up, "error", active, service.version + 1,
                [service.last EXCEPT !.ok = ok], service.results, Done(q, "FAILED"))
      BY <1>1, <1>2, <2>1, <2>3, <3>1, FailedFields, Zenon
    <3>4. service'.last.id = service.last.id /\ service'.last.ok = ok
      BY <1>2, <3>3, NotedType DEF Holds
    <3>5. service'.up = service.up /\ service'.results = service.results
          /\ service'.inflight = Done(q, "FAILED")
      BY <3>3 DEF Holds
    <3>6. QED
      BY <2>3, <3>2, <3>4, <3>5
  <2>4. /\ service.last.ok \in BOOLEAN /\ service.active \in Nat
        /\ records' = records /\ born' \in {born, born + 1}
    BY <1>1, <1>2, <1>5 DEF Fail, LastType
  <2>5. CASE \E active \in Nat, ok \in BOOLEAN :
               /\ ok => service.last.ok
               /\ service' = [service EXCEPT !.state = "error", !.version = service.version + 1,
                                !.active = active, !.last.ok = ok,
                                !.inflight = Done(q, "FAILED")]
    BY <1>1, <1>2, <2>1, <2>3, <2>4, <2>5
  <2>6. CASE /\ service' # [service EXCEPT !.state = "idle", !.version = service.version + 1,
                                           !.inflight = Done(q, "FAILED")]
             /\ q.op = "start"
    BY <1>2, <1>5, <2>4, <2>5, <2>6 DEF Fail
  <2>7. CASE q.op # "start"
    BY <1>2, <1>5, <2>4, <2>5, <2>7 DEF Fail
  <2>8. QED
    BY <2>2, <2>6, <2>7
<1>6. CASE Throw(q)
  <2>1. PICK r \in RunType : /\ r.id = q.id /\ r.stage = "close"
                             /\ Done(q, "INTERNAL_ERROR") = (service.inflight \ {q}) \cup {r}
                             /\ Done(q, "INTERNAL_ERROR") \in SUBSET RunType
    BY DoneIs DEF Codes
  <2>2. service' = [service EXCEPT !.inflight = Done(q, "INTERNAL_ERROR")]
    BY <1>6 DEF Throw
  <2>3. service' \in ServiceType
    BY <1>1, <2>1, <2>2, InflightFields, Zenon
  <2>4. Holds(service', service.up, service.state, service.active, service.version,
              service.last, service.results, Done(q, "INTERNAL_ERROR"))
    BY <1>1, <2>1, <2>2, InflightFields, Zenon
  <2>5. QED
    BY <1>1, <1>6, <2>1, <2>3, <2>4 DEF Holds, Throw
<1>7. QED
  BY <1>4, <1>5, <1>6

\* What the cache holds is what its places hold.
LEMMA RangeIs ==
  ASSUME NEW r \in Results
  PROVE  /\ Range(r) = {r[i] : i \in 1 .. Len(r)}
         /\ \A x \in Range(r) : x \in [id : Ids, code : Codes]
         /\ r # <<>> => Head(r) \in Range(r)
<1> DEFINE T == [id : Ids, code : Codes]
<1>1. r \in Seq(T)
  BY DEF Results
<1> HIDE DEF T
<1>2. Range(r) = {r[i] : i \in 1 .. Len(r)}
  BY <1>1 DEF Range
<1>3. \A i \in 1 .. Len(r) : r[i] \in T
  BY <1>1
<1>4. r # <<>> => Head(r) = r[1] /\ 1 \in 1 .. Len(r)
  BY <1>1
<1>5. QED
  BY <1>2, <1>3, <1>4 DEF T

\* _run closes a request: its result is the last one, in the status and in the cache.
LEMMA KeptIs ==
  ASSUME Types, Len(service.results) <= CacheSize, NEW q \in service.inflight
  PROVE  /\ Kept(q) \in Results /\ Len(Kept(q)) <= CacheSize
         /\ \A r \in Range(Kept(q)) :
              r \in Range(service.results) \/ r = [id |-> q.id, code |-> q.code]
         /\ [id |-> q.id, code |-> q.code] \in Range(Kept(q))
         /\ \A r \in Range(service.results) :
              \/ r \in Range(Kept(q))
              \/ Len(service.results) = CacheSize /\ r = Head(service.results)
<1> DEFINE new == [id |-> q.id, code |-> q.code]
           old == service.results
           all == Append(old, new)
<1>1. old \in Results /\ q \in RunType
  BY DEF Types, ServiceType, Results
<1>2. new \in [id : Ids, code : Codes]
  BY <1>1 DEF RunType
<1> HIDE DEF new, old
<1>3. /\ all \in Results /\ Len(all) = Len(old) + 1 /\ Len(old) \in Nat
      /\ all[Len(old) + 1] = new /\ \A i \in 1 .. Len(old) : all[i] = old[i]
  BY <1>1, <1>2 DEF Results
<1>4. Range(old) = {old[i] : i \in 1 .. Len(old)}
  BY <1>1, RangeIs
<1> HIDE DEF all
<1>5. CASE Len(all) > CacheSize
  <2>1. Kept(q) = Tail(all)
    BY <1>5 DEF Kept, all, new, old
  <2>2. Len(old) = CacheSize /\ Len(old) >= 1
    BY <1>3, <1>5 DEF old
  <2>3. /\ Tail(all) \in Results /\ Len(Tail(all)) = Len(old)
        /\ \A i \in 1 .. Len(old) : Tail(all)[i] = all[i + 1]
    BY <1>3, <2>2 DEF Results
  <2>4. Range(Tail(all)) = {Tail(all)[i] : i \in 1 .. Len(old)}
    BY <2>3, RangeIs
  <2>5. \A i \in 1 .. Len(old) : Tail(all)[i] \in Range(old) \cup {new}
    BY <1>3, <1>4, <2>3
  <2>6. Tail(all)[Len(old)] = new
    BY <1>3, <2>2, <2>3
  <2>7. \A i \in 2 .. Len(old) : i - 1 \in 1 .. Len(old) /\ old[i] = Tail(all)[i - 1]
    BY <1>3, <2>2, <2>3
  <2>8. Head(old) = old[1]
    BY <1>1, <2>2 DEF Results
  <2>9. \A r \in Range(old) : r \in Range(Tail(all)) \/ r = Head(old)
    BY <1>3, <1>4, <2>2, <2>4, <2>7, <2>8
  <2>10. QED
    BY <2>1, <2>2, <2>3, <2>4, <2>5, <2>6, <2>9 DEF new, old
<1>6. CASE ~(Len(all) > CacheSize)
  <2>1. Kept(q) = all
    BY <1>6 DEF Kept, all, new, old
  <2>2. Len(all) <= CacheSize
    BY <1>3, <1>6
  <2>3. Range(all) = {all[i] : i \in 1 .. Len(old) + 1}
    BY <1>3, RangeIs
  <2>4. Range(all) = Range(old) \cup {new}
    BY <1>3, <1>4, <2>3
  <2>5. QED
    BY <1>3, <2>1, <2>2, <2>4 DEF new, old
<1>7. QED
  BY <1>5, <1>6

\* A closed request leaves the requests under way and enters the cache.
LEMMA CloseEffect ==
  ASSUME Types, Len(service.results) <= CacheSize, NEW q \in service.inflight, Close(q)
  PROVE  /\ service' \in ServiceType
         /\ UNCHANGED service.up
         /\ service'.results = Kept(q)
         /\ service'.last = [id |-> q.id, ok |-> q.code = "OK"]
         /\ service'.inflight = service.inflight \ {q}
<1>1. service \in ServiceType
  BY DEF Types
<1>2. q \in RunType /\ service.inflight \ {q} \in SUBSET RunType /\ service.version + 1 \in Nat
  BY <1>1 DEF ServiceType
<1>3. [id |-> q.id, ok |-> q.code = "OK"] \in LastType
  BY <1>2 DEF RunType, LastType
<1>4. service' = [service EXCEPT !.inflight = service.inflight \ {q}, !.results = Kept(q),
                                 !.last = [id |-> q.id, ok |-> q.code = "OK"],
                                 !.version = service.version + 1]
  BY DEF Close
<1>5. Kept(q) \in Results
  BY KeptIs
<1>6. service' \in ServiceType
  BY <1>1, <1>2, <1>3, <1>4, <1>5, ClosedFields, Zenon
<1>7. Holds(service', service.up, service.state, service.active, service.version + 1,
            [id |-> q.id, ok |-> q.code = "OK"], Kept(q), service.inflight \ {q})
  BY <1>1, <1>2, <1>3, <1>4, <1>5, ClosedFields, Zenon
<1>8. QED
  BY <1>6, <1>7 DEF Holds

-----------------------------------------------------------------------------
(* The inductive invariant *)

\* A request on its way, or waited for, has been made; a panel waits for one request
\* at most, and for none while it asks the operator.
Links ==
  /\ Len(asked) <= MaxRequests
  /\ \A c \in calls : c.id <= Len(asked)
  /\ \A p \in Panels :
       panel[p].pending # None =>
         /\ panel[p].pending <= Len(asked)
         /\ asked[panel[p].pending].from = p /\ asked[panel[p].pending].end = "waiting"
  /\ \A i \in DOMAIN asked :
       asked[i].from \in Panels /\ asked[i].end = "waiting"
         => panel[asked[i].from].pending = i
  /\ \A p \in Panels :
       panel[p].dialog # NoDialog => panel[p].dialog.op # "none" /\ panel[p].pending = None

\* A deletion has no critical section of its own.
Working == \A q \in service.inflight : q.stage = "work" => q.op # "delete"

Linked == Links /\ Working

\* What tells a panel that its request has ended, or has ended well, is true: the status
\* of the service, one that is late, a result in the cache, an answer on its way.
Vouches(last) == /\ last.ok => last.id \in succeeded
                 /\ last.id # None => last.id \in closed
Vouched ==
  /\ Vouches(service.last)
  /\ \A p \in Panels : Vouches(late[p].last)
  /\ \A r \in Range(service.results) :
       r.id \in closed /\ (r.code = "OK" => r.id \in succeeded)
  /\ \A a \in answers :
       a.code # "IN_PROGRESS" => a.id \in closed /\ (a.code = "OK" => a.id \in succeeded)

\* ... and so is what the panel made of it.
Ended ==
  \A i \in DOMAIN asked :
    /\ asked[i].end = "done" => i \in succeeded
    /\ asked[i].end \in {"done", "failed"} => i \in closed

\* A request that was carried out is under way, in the cache, or forgotten.
Counted ==
  \A i \in Ids :
    /\ i > Len(asked) => executed[i] = 0
    /\ executed[i] > 0 => i \in forgotten \/ Cached(i) # {} \/ Running(i) # {}
    /\ executed[i] > 1 => i \in forgotten

IInv == TypeOK /\ Linked /\ Vouched /\ Ended /\ OneAtATime /\ Counted

-----------------------------------------------------------------------------
(* Types *)

\* Every request under way, in the cache or on its way is one of the panel's numbers.
LEMMA EnterTypes ==
  ASSUME Types, Linked, NEW c \in calls, Enter(c)
  PROVE  Types'
<1>1. c.id \in Ids /\ c.from \in Panels /\ c.id \in 1 .. Len(asked)
  BY DEF Types, Linked, Links
<1>2. asked[c.id] \in AskedType
  <2>1. asked \in Seq(AskedType)
    BY DEF Types, AskedType
  <2>2. QED
    BY <1>1, <2>1
<1>3. CASE Carry(c.id, asked[c.id].op, asked[c.id].target, c.from) /\ UNCHANGED answers
  <2>1. asked[c.id].op \in Ops /\ asked[c.id].target \in Nat
    BY <1>2 DEF AskedType
  <2>2. service' \in ServiceType /\ records' \subseteq Nat /\ IsFiniteSet(records')
        /\ executed' \in {executed, [executed EXCEPT ![c.id] = @ + 1]}
    BY <1>1, <1>3, <2>1, CarryEffect
  <2>3. executed \in [Ids -> Nat]
    BY DEF Types
  <2>4. executed' \in [Ids -> Nat]
    BY <1>1, <2>2, <2>3
  <2>5. QED
    BY <1>3, <2>2, <2>4 DEF Enter, Types
<1>4. CASE /\ UNCHANGED <<service, records, executed>>
           /\ \/ \E r \in Cached(c.id) : Sent(c.from, c.id, r.code)
              \/ Running(c.id) # {} /\ Sent(c.from, c.id, "IN_PROGRESS")
  <2>1. PICK code \in Codes \cup {"IN_PROGRESS"} : Sent(c.from, c.id, code)
    <3>1. service.results \in Results
      BY DEF Types, ServiceType, Results
    <3>2. \A r \in Range(service.results) : r \in [id : Ids, code : Codes]
      BY <3>1, RangeIs
    <3>3. \A r \in Cached(c.id) : r.code \in Codes
      BY <3>2 DEF Cached
    <3>4. QED
      BY <1>4, <3>3
  <2>2. answers' \subseteq [to : Panels, id : Ids, code : Codes \cup {"IN_PROGRESS"}]
    BY <1>1, <2>1 DEF Sent, Types
  <2>3. QED
    BY <1>4, <2>2 DEF Enter, Types
<1>5. QED
  BY <1>3, <1>4 DEF Enter

\* The work on a request, its end, and what happens to the process.
LEMMA ProcessTypes ==
  ASSUME TypeOK, Linked,
         \/ \E q \in service.inflight : Succeed(q) \/ Fail(q) \/ Throw(q) \/ Close(q)
         \/ WriterFails \/ Crash \/ Restart
  PROVE  Types'
<1> USE DEF TypeOK, outside, history
<1>1. ASSUME NEW q \in service.inflight, Succeed(q) \/ Fail(q) \/ Throw(q)
      PROVE  Types'
  <2>1. /\ service' \in ServiceType /\ records' \subseteq Nat /\ IsFiniteSet(records')
        /\ born' \in Nat
    BY <1>1, WorkEffect DEF Linked, Working
  <2>2. UNCHANGED <<panel, outside, history, faults>>
    BY <1>1 DEF Succeed, Fail, Throw
  <2>3. QED
    BY <2>1, <2>2 DEF Types
<1>2. ASSUME NEW q \in service.inflight, Close(q)
      PROVE  Types'
  <2>1. service' \in ServiceType
    BY <1>2, CloseEffect
  <2>2. q \in RunType
    BY DEF Types, ServiceType
  <2>3. answers' \subseteq [to : Panels, id : Ids, code : Codes \cup {"IN_PROGRESS"}]
    <3>1. q.code \in Codes /\ q.id \in Ids
      BY <2>2 DEF RunType
    <3>2. answers' = answers \/ (q.from \in Panels
            /\ answers' = answers \cup {[to |-> q.from, id |-> q.id, code |-> q.code]})
      BY <1>2 DEF Close, Sent
    <3>3. answers \subseteq [to : Panels, id : Ids, code : Codes \cup {"IN_PROGRESS"}]
      BY DEF Types
    <3>4. QED
      BY <3>1, <3>2, <3>3
  <2>4. closed' \subseteq Ids /\ succeeded' \subseteq Ids
    BY <1>2, <2>2 DEF Close, Types, RunType
  <2>5. forgotten' \subseteq Ids
    <3>1. CASE Len(service.results) = CacheSize
      <4>1. Head(service.results) \in [id : Ids, code : Codes]
        <5>1. service.results \in Results
          BY DEF Types, ServiceType, Results
        <5>2. service.results # <<>>
          BY <3>1, <5>1 DEF Results
        <5>3. QED
          BY <5>1, <5>2, RangeIs
      <4>2. QED
        BY <1>2, <3>1, <4>1 DEF Close, Types
    <3>2. CASE Len(service.results) # CacheSize
      BY <1>2, <3>2 DEF Close, Types
    <3>3. QED
      BY <3>1, <3>2
  <2>6. QED
    BY <1>2, <2>1, <2>3, <2>4, <2>5 DEF Close, Types
<1>3. CASE WriterFails
  <2>1. /\ service' = [service EXCEPT !.state = "error", !.version = service.version + 1,
                                      !.last.ok = FALSE]
        /\ service \in ServiceType /\ service.version + 1 \in Nat /\ "error" \in States
    BY <1>3 DEF WriterFails, Types, ServiceType, States
  <2>2. service' \in ServiceType
    BY <2>1, BrokenFields, Zenon
  <2>3. QED
    BY <1>3, <2>2 DEF WriterFails, Types
<1>4. CASE Crash
  <2>1. Fresh \in ServiceType /\ [p \in Panels |-> NoStatus] \in [Panels -> StatusType]
    BY FreshType
  <2>2. service' \in ServiceType
    BY <1>4, <2>1, RunningFields, Zenon DEF Crash
  <2>3. lists' = [p \in Panels |-> IF lists[p].stage = "sent" THEN NoQuery ELSE lists[p]]
    BY <1>4 DEF Crash
  <2>4. /\ lists' \in [Panels -> [stage : {"none", "sent", "served"}, rows : SUBSET Nat]]
        /\ \A p \in Panels : IsFiniteSet(lists'[p].rows)
    BY <2>3, FS_EmptySet DEF Types, NoQuery
  <2>5. QED
    BY <1>4, <2>1, <2>2, <2>4 DEF Crash, Types
<1>5. CASE Restart
  <2>1. service' \in ServiceType
    BY <1>5, RunningFields, Zenon DEF Restart, Types
  <2>2. QED
    BY <1>5, <2>1 DEF Restart, Types
<1>6. QED
  BY <1>1, <1>2, <1>3, <1>4, <1>5

\* Other clients.
LEMMA OthersTypes ==
  ASSUME Types, Linked,
         (\E op \in OtherOps : OtherAsks(op)) \/ (\E i \in DOMAIN asked : Repeat(i))
  PROVE  Types'
<1>1. service \in ServiceType /\ records \subseteq Nat /\ asked \in Seq(AskedType)
  BY DEF Types, AskedType
<1>2. ASSUME NEW op \in OtherOps, OtherAsks(op)
      PROVE  Types'
  <2>1. PICK t \in IF op = "delete" THEN records
                   ELSE IF op = "start" THEN {0} ELSE {service.active} \ {0} :
          /\ asked' = Append(asked, [from |-> "other", op |-> op, target |-> t,
                                     shown |-> t, end |-> "waiting"])
          /\ Carry(Len(asked) + 1, op, t, "other")
    BY <1>2 DEF OtherAsks
  <2>2. t \in Nat /\ op \in Ops
    BY <1>1 DEF ServiceType, Ops
  <2>3. Len(asked) + 1 \in Ids
    BY <1>1, <1>2 DEF OtherAsks
  <2>4. /\ service' \in ServiceType /\ records' \subseteq Nat /\ IsFiniteSet(records')
        /\ executed' \in {executed, [executed EXCEPT ![Len(asked) + 1] = @ + 1]}
    BY <2>1, <2>2, <2>3, CarryEffect
  <2>5. executed' \in [Ids -> Nat]
    BY <2>3, <2>4 DEF Types
  <2>6. [from |-> "other", op |-> op, target |-> t, shown |-> t, end |-> "waiting"] \in AskedType
    BY <2>2 DEF AskedType
  <2>7. asked' \in Seq(AskedType)
    BY <1>1, <2>1, <2>6
  <2>8. QED
    BY <1>2, <2>4, <2>5, <2>7 DEF OtherAsks, Types, outside, AskedType
<1>3. ASSUME NEW i \in DOMAIN asked, Repeat(i)
      PROVE  Types'
  <2>1. i \in Ids /\ asked[i] \in AskedType
    BY <1>1 DEF Linked, Links
  <2>2. asked[i].op \in Ops /\ asked[i].target \in Nat
    BY <2>1 DEF AskedType
  <2>3. /\ service' \in ServiceType /\ records' \subseteq Nat /\ IsFiniteSet(records')
        /\ executed' \in {executed, [executed EXCEPT ![i] = @ + 1]}
    BY <1>3, <2>1, <2>2, CarryEffect DEF Repeat
  <2>4. executed \in [Ids -> Nat] /\ faults' \in Nat
    BY <1>3 DEF Types, Repeat
  <2>5. executed' \in [Ids -> Nat]
    BY <2>1, <2>3, <2>4
  <2>6. QED
    BY <1>3, <2>3, <2>4, <2>5 DEF Repeat, Types, outside
<1>4. QED
  BY <1>2, <1>3

\* A step of a panel changes fields of its record, each to a value of its type.
LEMMA PanelFields ==
  ASSUME NEW m \in PanelType, NEW i \in Ids \cup {None}, NEW b \in BOOLEAN,
         NEW R \in SUBSET Nat, NEW d \in [op : Ops \cup {"none"}, row : Nat, shown : Nat]
  PROVE  /\ [m EXCEPT !.pending = i] \in PanelType
         /\ [m EXCEPT !.connected = b] \in PanelType
         /\ [m EXCEPT !.rows = R] \in PanelType
         /\ [m EXCEPT !.dialog = d] \in PanelType
         /\ [m EXCEPT !.pending = i, !.dialog = d] \in PanelType
<1>1. [m EXCEPT !.pending = i] \in PanelType
  BY Zenon DEF PanelType
<1>2. [m EXCEPT !.connected = b] \in PanelType
  BY Zenon DEF PanelType
<1>3. [m EXCEPT !.rows = R] \in PanelType
  BY Zenon DEF PanelType
<1>4. [m EXCEPT !.dialog = d] \in PanelType
  BY Zenon DEF PanelType
<1>5. [m EXCEPT !.pending = i, !.dialog = d] \in PanelType
  BY Zenon DEF PanelType
<1>6. QED
  BY <1>1, <1>2, <1>3, <1>4, <1>5, Zenon

\* The record of one panel is replaced.
LEMMA PanelsType ==
  ASSUME Types, NEW p \in Panels, NEW m \in PanelType, IsFiniteSet(m.rows),
         panel' = [panel EXCEPT ![p] = m]
  PROVE  panel' \in [Panels -> PanelType] /\ \A r \in Panels : IsFiniteSet(panel'[r].rows)
<1>1. panel \in [Panels -> PanelType] /\ \A r \in Panels : IsFiniteSet(panel[r].rows)
  BY DEF Types
<1>2. QED
  BY <1>1

\* What is sent, from a button or after a question.
LEMMA SubmitTypes ==
  ASSUME Types, NEW p \in Panels, NEW op \in Ops, NEW target \in Nat, NEW shown \in Nat,
         Submit(p, op, target, shown)
  PROVE  Types'
<1> DEFINE id == Len(asked) + 1
           new(end) == [from |-> p, op |-> op, target |-> target, shown |-> shown, end |-> end]
<1>1. asked \in Seq(AskedType) /\ panel[p] \in PanelType /\ IsFiniteSet(panel[p].rows)
      /\ panel \in [Panels -> PanelType]
  BY DEF Types, AskedType
<1>2. NoDialog \in [op : Ops \cup {"none"}, row : Nat, shown : Nat]
  BY DEF NoDialog
<1>3. id \in Ids
  BY DEF Submit
<1>4. new("waiting") \in AskedType /\ new("unsent") \in AskedType
  BY DEF AskedType
<1>5. asked' = Append(asked, new("waiting")) \/ asked' = Append(asked, new("unsent"))
  BY DEF Submit
<1>6. asked' \in Seq(AskedType)
  BY <1>1, <1>4, <1>5
<1>7. calls' \subseteq [id : Ids, from : Panels]
  BY <1>3 DEF Submit, Types
<1>8. PICK m \in PanelType : m.rows = panel[p].rows /\ panel' = [panel EXCEPT ![p] = m]
  <2>1. CASE panel' = [panel EXCEPT ![p].pending = id, ![p].dialog = NoDialog]
    <3> DEFINE m == [panel[p] EXCEPT !.pending = id, !.dialog = NoDialog]
    <3>1. m \in PanelType
      BY <1>1, <1>2, <1>3, PanelFields, Zenon
    <3>2. m.rows = panel[p].rows
      BY <1>1 DEF PanelType
    <3>3. panel' = [panel EXCEPT ![p] = m]
      BY <1>1, <2>1
    <3>4. QED
      BY <3>1, <3>2, <3>3
  <2>2. CASE panel' = [panel EXCEPT ![p].dialog = NoDialog]
    <3> DEFINE m == [panel[p] EXCEPT !.dialog = NoDialog]
    <3>1. m \in PanelType
      BY <1>1, <1>2, PanelFields, Zenon
    <3>2. m.rows = panel[p].rows
      BY <1>1 DEF PanelType
    <3>3. panel' = [panel EXCEPT ![p] = m]
      BY <1>1, <2>2
    <3>4. QED
      BY <3>1, <3>2, <3>3
  <2>3. QED
    BY <2>1, <2>2 DEF Submit
<1>9. panel' \in [Panels -> PanelType] /\ \A r \in Panels : IsFiniteSet(panel'[r].rows)
  BY <1>1, <1>8, PanelsType
<1>10. UNCHANGED <<service, records, born, late, lists, answers, executed, succeeded, closed,
                   forgotten, faults>>
  BY DEF Submit
<1>11. QED
  BY <1>6, <1>7, <1>9, <1>10 DEF Types, AskedType

\* The operator presses, is asked and answers.
LEMMA OperatorTypes ==
  ASSUME Types, Linked, NEW p \in Panels,
         \/ \E op \in Ops : Press(p, op) \/ \E c \in 0 .. born : Ask(p, op, c)
         \/ Agree(p) \/ Decline(p)
  PROVE  Types'
<1>1. /\ panel \in [Panels -> PanelType] /\ panel[p] \in PanelType
      /\ IsFiniteSet(panel[p].rows) /\ panel[p].rows \subseteq Nat
      /\ panel[p].view.active \in Nat
      /\ panel[p].dialog \in [op : Ops \cup {"none"}, row : Nat, shown : Nat]
      /\ born \in Nat
  BY DEF Types, PanelType, StatusType
<1>2. ASSUME NEW op \in Ops, Press(p, op)
      PROVE  Types'
  BY <1>1, <1>2, SubmitTypes DEF Press
<1>3. ASSUME NEW op \in Ops, NEW c \in 0 .. born, Ask(p, op, c)
      PROVE  Types'
  <2> DEFINE d == [op |-> op, row |-> Row(panel[p].rows, c), shown |-> c]
             m == [panel[p] EXCEPT !.dialog = d]
  <2>1. c \in Nat /\ Row(panel[p].rows, c) \in Nat
    BY <1>1, RowIsNat
  <2>2. d \in [op : Ops \cup {"none"}, row : Nat, shown : Nat]
    BY <2>1
  <2>3. m \in PanelType /\ panel' = [panel EXCEPT ![p] = m]
    <3>1. m \in PanelType
      BY <1>1, <2>2, PanelFields, Zenon
    <3>2. panel' = [panel EXCEPT ![p] = m]
      BY <1>1, <1>3 DEF Ask
    <3>3. QED
      BY <3>1, <3>2
  <2>4. m.rows = panel[p].rows
    BY <1>1 DEF PanelType
  <2>5. panel' \in [Panels -> PanelType] /\ \A r \in Panels : IsFiniteSet(panel'[r].rows)
    BY <1>1, <2>3, <2>4, PanelsType
  <2>6. QED
    BY <1>3, <2>5 DEF Ask, Types, outside, history
<1>4. CASE Agree(p)
  <2>1. PICK c \in Meant(p) : Submit(p, panel[p].dialog.op, c, panel[p].dialog.shown)
    BY <1>4 DEF Agree
  <2>2. c \in Nat
    BY <1>1, <2>1 DEF Meant
  <2>3. panel[p].dialog.op \in Ops /\ panel[p].dialog.shown \in Nat
    BY <1>1, <1>4 DEF Agree, Linked, Links
  <2>4. QED
    BY <2>1, <2>2, <2>3, SubmitTypes
<1>5. CASE Decline(p)
  <2> DEFINE m == [panel[p] EXCEPT !.dialog = NoDialog]
  <2>1. m \in PanelType
    BY <1>1 DEF PanelType, NoDialog
  <2>2. panel' = [panel EXCEPT ![p] = m]
    BY <1>1, <1>5 DEF Decline
  <2>3. m.rows = panel[p].rows
    BY <1>1 DEF PanelType
  <2>4. panel' \in [Panels -> PanelType] /\ \A r \in Panels : IsFiniteSet(panel'[r].rows)
    BY <1>1, <2>1, <2>2, <2>3, PanelsType
  <2>5. QED
    BY <1>5, <2>4 DEF Decline, Types, outside, history
<1>6. QED
  BY <1>2, <1>3, <1>4, <1>5

\* Statuses, results, time-outs and lists come in.
LEMMA IncomingTypes ==
  ASSUME Types, NEW p \in Panels,
         \/ Status(p) \/ Delayed(p) \/ LateStatus(p) \/ CheckConnection(p)
         \/ (\E a \in answers : HandleResult(p, a))
         \/ Timeout(p) \/ ServeList(p) \/ ApplyList(p)
  PROVE  Types'
<1>1. /\ panel \in [Panels -> PanelType] /\ panel[p] \in PanelType
      /\ IsFiniteSet(panel[p].rows) /\ service \in ServiceType
      /\ late \in [Panels -> StatusType] /\ late[p] \in StatusType
      /\ faults \in Nat
  BY DEF Types
<1>2. Snapshot \in StatusType /\ NoStatus \in StatusType
  <2>1. Snapshot \in StatusType
    BY <1>1 DEF Snapshot, StatusType, ServiceType
  <2>2. QED
    BY <2>1 DEF NoStatus, StatusType, LastType
<1> USE DEF outside, history
<1>3. CASE Status(p)
  BY <1>2, <1>3, ApplyType DEF Status, Types, AskedType
<1>4. CASE Delayed(p)
  <2>1. late' = [late EXCEPT ![p] = Snapshot] /\ faults' = faults + 1
    BY <1>4 DEF Delayed
  <2>2. late' \in [Panels -> StatusType] /\ faults' \in Nat
    BY <1>1, <1>2, <2>1
  <2>3. QED
    BY <1>4, <2>2 DEF Delayed, Types
<1>5. CASE LateStatus(p)
  <2>1. late' = [late EXCEPT ![p] = NoStatus] /\ Apply(p, late[p])
    BY <1>5 DEF LateStatus
  <2>2. late' \in [Panels -> StatusType]
    BY <1>1, <1>2, <2>1
  <2>3. QED
    BY <1>1, <1>5, <2>1, <2>2, ApplyType DEF LateStatus, Types, AskedType
<1>6. CASE CheckConnection(p)
  <2> DEFINE m == [panel[p] EXCEPT !.connected = FALSE]
  <2>1. m \in PanelType /\ m.rows = panel[p].rows
    BY <1>1 DEF PanelType
  <2>2. panel' = [panel EXCEPT ![p] = m]
    BY <1>1, <1>6 DEF CheckConnection
  <2>3. panel' \in [Panels -> PanelType] /\ \A r \in Panels : IsFiniteSet(panel'[r].rows)
    BY <1>1, <2>1, <2>2, PanelsType
  <2>4. faults' \in Nat
    BY <1>1, <1>6 DEF CheckConnection, Disturbed
  <2>5. QED
    BY <1>6, <2>3, <2>4 DEF CheckConnection, Types
<1>7. ASSUME panel' = panel \/ panel' = [panel EXCEPT ![p].pending = None]
      PROVE  panel' \in [Panels -> PanelType] /\ \A r \in Panels : IsFiniteSet(panel'[r].rows)
  <2>1. CASE panel' = panel
    BY <2>1 DEF Types
  <2>2. CASE panel' = [panel EXCEPT ![p].pending = None]
    <3> DEFINE m == [panel[p] EXCEPT !.pending = None]
    <3>1. m \in PanelType /\ m.rows = panel[p].rows
      BY <1>1 DEF PanelType
    <3>2. panel' = [panel EXCEPT ![p] = m]
      BY <1>1, <2>2
    <3>3. QED
      BY <1>1, <3>1, <3>2, PanelsType
  <2>3. QED
    BY <1>7, <2>1, <2>2
<1>8. ASSUME NEW a \in answers, HandleResult(p, a)
      PROVE  Types'
  <2>1. asked' = asked \/ asked' = EndOf(p, "done") \/ asked' = EndOf(p, "failed")
    BY <1>8 DEF HandleResult
  <2>2. asked' \in Seq(AskedType)
    BY <2>1, EndOfType DEF Types, AskedType
  <2>3. panel' = panel \/ panel' = [panel EXCEPT ![p].pending = None]
    BY <1>8 DEF HandleResult
  <2>4. answers' \subseteq answers
    BY <1>8 DEF HandleResult
  <2>5. QED
    BY <1>7, <1>8, <2>2, <2>3, <2>4 DEF HandleResult, Types, AskedType
<1>9. CASE Timeout(p)
  <2>1. asked' \in Seq(AskedType)
    BY <1>9, EndOfType DEF Timeout
  <2>2. faults' \in Nat
    BY <1>1, <1>9 DEF Timeout, Disturbed
  <2>3. panel' = [panel EXCEPT ![p].pending = None]
    BY <1>9 DEF Timeout
  <2>4. QED
    BY <1>7, <1>9, <2>1, <2>2, <2>3 DEF Timeout, Types, AskedType
<1>10. /\ lists \in [Panels -> [stage : {"none", "sent", "served"}, rows : SUBSET Nat]]
       /\ \A r \in Panels : IsFiniteSet(lists[r].rows)
       /\ records \subseteq Nat /\ IsFiniteSet(records)
  BY DEF Types
<1>11. CASE ServeList(p)
  <2>1. lists' = [lists EXCEPT ![p] = [stage |-> "served", rows |-> records]]
    BY <1>11 DEF ServeList
  <2>2. /\ lists' \in [Panels -> [stage : {"none", "sent", "served"}, rows : SUBSET Nat]]
        /\ \A r \in Panels : IsFiniteSet(lists'[r].rows)
    BY <1>10, <2>1
  <2>3. QED
    BY <1>11, <2>2 DEF ServeList, Types
<1>12. CASE ApplyList(p)
  <2> DEFINE m == [panel[p] EXCEPT !.rows = lists[p].rows]
  <2>1. lists[p].rows \subseteq Nat /\ IsFiniteSet(lists[p].rows)
    BY <1>10
  <2>2. m \in PanelType /\ m.rows = lists[p].rows
    BY <1>1, <2>1 DEF PanelType
  <2>3. panel' = [panel EXCEPT ![p] = m]
    BY <1>1, <1>12 DEF ApplyList
  <2>4. panel' \in [Panels -> PanelType] /\ \A r \in Panels : IsFiniteSet(panel'[r].rows)
    BY <1>1, <2>1, <2>2, <2>3, PanelsType
  <2>5. lists' = [lists EXCEPT ![p] = NoQuery]
    BY <1>12 DEF ApplyList
  <2>6. /\ lists' \in [Panels -> [stage : {"none", "sent", "served"}, rows : SUBSET Nat]]
        /\ \A r \in Panels : IsFiniteSet(lists'[r].rows)
    BY <1>10, <2>5, FS_EmptySet DEF NoQuery
  <2>7. QED
    BY <1>12, <2>4, <2>6 DEF ApplyList, Types
<1>13. QED
  BY <1>3, <1>4, <1>5, <1>6, <1>8, <1>9, <1>11, <1>12

\* Every step keeps the types.
LEMMA TypesStep ==
  ASSUME TypeOK, Linked, [Next]_vars
  PROVE  Types'
<1>1. CASE \E c \in calls : Enter(c)
  BY <1>1, EnterTypes DEF TypeOK
<1>2. CASE \/ \E q \in service.inflight : Succeed(q) \/ Fail(q) \/ Throw(q) \/ Close(q)
           \/ WriterFails \/ Crash \/ Restart
  BY <1>2, ProcessTypes
<1>3. CASE (\E op \in OtherOps : OtherAsks(op)) \/ (\E i \in DOMAIN asked : Repeat(i))
  BY <1>3, OthersTypes DEF TypeOK
<1>4. ASSUME NEW p \in Panels, Panel(p)
      PROVE  Types'
  BY <1>4, OperatorTypes, IncomingTypes DEF Panel, TypeOK
<1>5. CASE UNCHANGED vars
  BY <1>5 DEF vars, outside, history, TypeOK, Types
<1>6. QED
  BY <1>1, <1>2, <1>3, <1>4, <1>5 DEF Next, Service

-----------------------------------------------------------------------------
(* What a step does to the requests *)

\* The same requests are waited for.
Quiet ==
  /\ asked' = asked
  /\ \A r \in Panels : panel'[r].pending = panel[r].pending
  /\ closed \subseteq closed' /\ succeeded \subseteq succeeded'

\* p, a panel or another client, makes a request.
Asking(p) ==
  \E m \in AskedType :
    /\ m.from = p /\ m.end \in {"waiting", "unsent"} /\ asked' = Append(asked, m)
    /\ Len(asked) < MaxRequests
    /\ p \in Panels => panel[p].pending = None
    /\ \A r \in Panels :
         panel'[r].pending = IF r = p /\ m.end = "waiting" THEN Len(asked) + 1
                                                           ELSE panel[r].pending
    /\ UNCHANGED <<closed, succeeded>>

\* The wait of p ends, for a good reason.
Ending(p) ==
  \E how \in {"done", "failed", "timeout"} :
    /\ panel[p].pending # None /\ asked' = EndOf(p, how)
    /\ \A r \in Panels : panel'[r].pending = IF r = p THEN None ELSE panel[r].pending
    /\ how = "done" => panel[p].pending \in succeeded
    /\ how \in {"done", "failed"} => panel[p].pending \in closed
    /\ UNCHANGED <<closed, succeeded>>

\* A panel takes a status over that is true.
LEMMA ApplyIs ==
  ASSUME Types, NEW p \in Panels, NEW s \in StatusType, Vouches(s.last), Apply(p, s),
         UNCHANGED <<closed, succeeded>>
  PROVE  Quiet \/ Ending(p)
<1>1. panel \in [Panels -> PanelType] /\ panel[p] \in PanelType
  BY DEF Types
<1> DEFINE confirmed == panel[p].pending # None /\ s.last.id = panel[p].pending
<1>2. CASE ~IsNewer(p, s)
  BY <1>2 DEF Apply, Quiet
<1>3. CASE IsNewer(p, s)
  <2>1. /\ panel' = [panel EXCEPT ![p].view = s, ![p].connected = TRUE,
                       ![p].pending = IF confirmed THEN None ELSE panel[p].pending,
                       ![p].refreshed = IF ListIsDue(p, s) THEN s.version
                                                           ELSE panel[p].refreshed]
        /\ asked' = IF confirmed THEN EndOf(p, IF s.last.ok THEN "done" ELSE "failed")
                                 ELSE asked
    BY <1>3, <1>1 DEF Apply
  <2>2. \A r \in Panels : panel'[r].pending = IF r = p /\ confirmed THEN None
                                                                    ELSE panel[r].pending
    BY <1>1, <2>1 DEF PanelType
  <2>3. CASE ~confirmed
    BY <2>1, <2>2, <2>3 DEF Quiet
  <2>4. CASE confirmed
    <3>1. panel[p].pending \in closed /\ (s.last.ok => panel[p].pending \in succeeded)
      BY <2>4 DEF Vouches
    <3>2. CASE s.last.ok
      BY <2>1, <2>2, <2>4, <3>1, <3>2 DEF Ending
    <3>3. CASE ~s.last.ok
      BY <2>1, <2>2, <2>4, <3>1, <3>3 DEF Ending
    <3>4. QED
      BY <3>2, <3>3
  <2>5. QED
    BY <2>3, <2>4
<1>4. QED
  BY <1>2, <1>3

\* A panel sends when it waits for nothing.
LEMMA SubmitIs ==
  ASSUME Types, NEW p \in Panels, NEW op \in Ops, NEW target \in Nat, NEW shown \in Nat,
         panel[p].pending = None, Submit(p, op, target, shown)
  PROVE  Asking(p)
<1> DEFINE id == Len(asked) + 1
           new(end) == [from |-> p, op |-> op, target |-> target, shown |-> shown, end |-> end]
<1>1. asked \in Seq(AskedType) /\ panel \in [Panels -> PanelType] /\ panel[p] \in PanelType
  BY DEF Types, AskedType
<1>2. Len(asked) < MaxRequests /\ UNCHANGED <<closed, succeeded>>
  BY <1>1 DEF Submit
<1>3. new("waiting") \in AskedType /\ new("unsent") \in AskedType
  BY DEF AskedType
<1>4. CASE /\ asked' = Append(asked, new("waiting"))
           /\ panel' = [panel EXCEPT ![p].pending = id, ![p].dialog = NoDialog]
  <2>1. \A r \in Panels : panel'[r].pending = IF r = p THEN id ELSE panel[r].pending
    BY <1>1, <1>4 DEF PanelType
  <2>2. QED
    BY <1>2, <1>3, <1>4, <2>1 DEF Asking
<1>5. CASE /\ asked' = Append(asked, new("unsent"))
           /\ panel' = [panel EXCEPT ![p].dialog = NoDialog]
  <2>1. \A r \in Panels : panel'[r].pending = panel[r].pending
    BY <1>1, <1>5 DEF PanelType
  <2>2. QED
    BY <1>2, <1>3, <1>5, <2>1 DEF Asking
<1>6. QED
  BY <1>4, <1>5 DEF Submit

\* Every step is of one of these kinds.
LEMMA StepIs ==
  ASSUME TypeOK, Linked, Vouched, [Next]_vars
  PROVE  \/ Quiet
         \/ \E p \in Panels \cup {Other} : Asking(p)
         \/ \E p \in Panels : Ending(p)
<1> USE DEF outside, history
<1>1. /\ Types /\ Links /\ asked \in Seq(AskedType) /\ service \in ServiceType
      /\ records \subseteq Nat
      /\ panel \in [Panels -> PanelType] /\ late \in [Panels -> StatusType]
  BY DEF TypeOK, Types, Linked, AskedType
<1>2. CASE UNCHANGED <<panel, asked>> /\ closed \subseteq closed' /\ succeeded \subseteq succeeded'
  BY <1>2 DEF Quiet
<1>3. CASE \E c \in calls : Enter(c)
  BY <1>2, <1>3 DEF Enter
<1>4. CASE \E q \in service.inflight : Succeed(q) \/ Fail(q) \/ Throw(q)
  BY <1>2, <1>4 DEF Succeed, Fail, Throw
<1>5. CASE \E q \in service.inflight : Close(q)
  BY <1>2, <1>5 DEF Close
<1>6. CASE WriterFails \/ Crash \/ Restart
  BY <1>2, <1>6 DEF WriterFails, Crash, Restart
<1>7. CASE \E i \in DOMAIN asked : Repeat(i)
  BY <1>2, <1>7 DEF Repeat
<1>8. ASSUME NEW op \in OtherOps, OtherAsks(op)
      PROVE  Asking(Other)
  <2>1. PICK t \in IF op = "delete" THEN records
                   ELSE IF op = "start" THEN {0} ELSE {service.active} \ {0} :
          asked' = Append(asked, [from |-> "other", op |-> op, target |-> t,
                                  shown |-> t, end |-> "waiting"])
    BY <1>8 DEF OtherAsks
  <2>2. t \in Nat /\ op \in Ops
    BY <1>1 DEF ServiceType, Ops
  <2>3. [from |-> "other", op |-> op, target |-> t, shown |-> t, end |-> "waiting"] \in AskedType
    BY <2>2 DEF AskedType
  <2>4. \A r \in Panels : r # "other"
    OBVIOUS
  <2>5. QED
    BY <1>8, <2>1, <2>3, <2>4 DEF OtherAsks, Asking
<1>9. ASSUME NEW p \in Panels, Panel(p)
      PROVE  Quiet \/ Asking(p) \/ Ending(p)
  <2>1. panel[p] \in PanelType /\ panel[p].view.active \in Nat /\ late[p] \in StatusType
    BY <1>1 DEF PanelType, StatusType
  <2>2. ASSUME NEW op \in Ops, Press(p, op)
        PROVE  Asking(p)
    <3>1. panel[p].pending = None
      BY <2>2 DEF Press, Gate
    <3>2. PICK target \in Nat : Submit(p, op, target, panel[p].view.active)
      BY <2>1, <2>2 DEF Press
    <3>3. QED
      BY <1>1, <2>1, <3>1, <3>2, SubmitIs
  <2>3. CASE Agree(p)
    <3>1. PICK c \in Meant(p) : Submit(p, panel[p].dialog.op, c, panel[p].dialog.shown)
      BY <2>3 DEF Agree
    <3>2. c \in Nat
      BY <2>1, <3>1 DEF Meant, PanelType
    <3>3. /\ panel[p].dialog.op \in Ops /\ panel[p].dialog.shown \in Nat
          /\ panel[p].pending = None
      BY <1>1, <2>1, <2>3 DEF Agree, Links, PanelType
    <3>4. QED
      BY <1>1, <3>1, <3>2, <3>3, SubmitIs
  <2>4. CASE (\E op \in Ops : \E c \in 0 .. born : Ask(p, op, c)) \/ Decline(p)
             \/ CheckConnection(p) \/ ApplyList(p)
    <3>1. UNCHANGED <<asked, closed, succeeded>>
      BY <2>4 DEF Ask, Decline, CheckConnection, ApplyList
    <3>2. CASE (\E op \in Ops : \E c \in 0 .. born : Ask(p, op, c)) \/ Decline(p)
      <4>1. PICK d : panel' = [panel EXCEPT ![p] = [panel[p] EXCEPT !.dialog = d]]
        BY <3>2 DEF Ask, Decline
      <4>2. \A r \in Panels : panel'[r].pending = panel[r].pending
        BY <1>1, <4>1 DEF PanelType
      <4>3. QED
        BY <3>1, <4>2 DEF Quiet
    <3>3. CASE CheckConnection(p) \/ ApplyList(p)
      <4>1. CASE panel' = [panel EXCEPT ![p].connected = FALSE]
        BY <1>1, <3>1, <4>1 DEF PanelType, Quiet
      <4>2. CASE panel' = [panel EXCEPT ![p].rows = lists[p].rows]
        BY <1>1, <3>1, <4>2 DEF PanelType, Quiet
      <4>3. QED
        BY <3>3, <4>1, <4>2 DEF CheckConnection, ApplyList
    <3>4. QED
      BY <2>4, <3>2, <3>3
  <2>5. CASE Delayed(p) \/ ServeList(p)
    <3>1. UNCHANGED <<panel, asked, closed, succeeded>>
      BY <2>5 DEF Delayed, ServeList
    <3>2. QED
      BY <3>1 DEF Quiet
  <2>6. CASE Status(p)
    <3>1. Snapshot \in StatusType /\ Vouches(Snapshot.last)
      BY <1>1 DEF Snapshot, StatusType, ServiceType, Vouched
    <3>2. QED
      BY <1>1, <2>6, <3>1, ApplyIs DEF Status
  <2>7. CASE LateStatus(p)
    BY <1>1, <2>1, <2>7, ApplyIs DEF LateStatus, Vouched
  <2>8. ASSUME NEW a \in answers, HandleResult(p, a)
        PROVE  Quiet \/ Ending(p)
    <3>1. CASE ~(IsResultOf(p, a) /\ EndsWait(a))
      <4>1. UNCHANGED <<panel, asked, closed, succeeded>>
        BY <2>8, <3>1 DEF HandleResult
      <4>2. QED
        BY <4>1 DEF Quiet
    <3>2. CASE IsResultOf(p, a) /\ EndsWait(a)
      <4>1. /\ panel[p].pending # None /\ panel[p].pending = a.id
            /\ a.id \in closed /\ (a.code = "OK" => a.id \in succeeded)
        BY <3>2 DEF IsResultOf, EndsWait, Vouched
      <4>2. /\ panel' = [panel EXCEPT ![p].pending = None]
            /\ asked' = EndOf(p, IF a.code = "OK" THEN "done" ELSE "failed")
            /\ UNCHANGED <<closed, succeeded>>
        BY <2>8, <3>2 DEF HandleResult
      <4>3. \A r \in Panels : panel'[r].pending = IF r = p THEN None ELSE panel[r].pending
        BY <1>1, <4>2 DEF PanelType
      <4>4. CASE a.code = "OK"
        BY <4>1, <4>2, <4>3, <4>4 DEF Ending
      <4>5. CASE a.code # "OK"
        BY <4>1, <4>2, <4>3, <4>5 DEF Ending
      <4>6. QED
        BY <4>4, <4>5
    <3>3. QED
      BY <3>1, <3>2
  <2>9. CASE Timeout(p)
    <3>1. panel' = [panel EXCEPT ![p].pending = None]
      BY <2>9 DEF Timeout
    <3>2. \A r \in Panels : panel'[r].pending = IF r = p THEN None ELSE panel[r].pending
      BY <1>1, <3>1 DEF PanelType
    <3>3. QED
      BY <2>9, <3>2 DEF Timeout, Ending
  <2>10. QED
    BY <1>9, <2>2, <2>3, <2>4, <2>5, <2>6, <2>7, <2>8, <2>9 DEF Panel
<1>10. CASE UNCHANGED vars
  BY <1>2, <1>10 DEF vars
<1>11. QED
  BY <1>3, <1>4, <1>5, <1>6, <1>7, <1>8, <1>9, <1>10 DEF Next, Service

-----------------------------------------------------------------------------
(* The invariant is kept *)

\* The requests after one more, and after the end of a wait.
LEMMA AppendIs ==
  ASSUME Types, NEW m \in AskedType
  PROVE  LET all == Append(asked, m) IN
           /\ all \in Seq(AskedType) /\ Len(all) = Len(asked) + 1 /\ Len(asked) \in Nat
           /\ all[Len(asked) + 1] = m
           /\ \A i \in 1 .. Len(asked) : all[i] = asked[i]
<1>1. asked \in Seq(AskedType)
  BY DEF Types, AskedType
<1>2. QED
  BY <1>1

\* The end of a wait changes the end of that request and of no other.
LEMMA EndOfIs ==
  ASSUME Types, NEW p \in Panels, NEW how \in {"done", "failed", "timeout"}
  PROVE  /\ EndOf(p, how) \in Seq(AskedType) /\ Len(EndOf(p, how)) = Len(asked)
         /\ Len(asked) \in Nat
         /\ \A i \in 1 .. Len(asked) :
              /\ EndOf(p, how)[i].from = asked[i].from
              /\ EndOf(p, how)[i].end = IF i = panel[p].pending THEN how ELSE asked[i].end
<1>1. asked \in Seq(AskedType) /\ \A i \in 1 .. Len(asked) : asked[i] \in AskedType
  <2>1. asked \in Seq(AskedType)
    BY DEF Types, AskedType
  <2>2. QED
    BY <2>1
<1> DEFINE j == panel[p].pending
           e == [asked[j] EXCEPT !.end = how]
<1>2. EndOf(p, how) = [asked EXCEPT ![j] = e]
  BY DEF EndOf
<1>3. j \in 1 .. Len(asked) => e.from = asked[j].from /\ e.end = how
  BY <1>1 DEF AskedType
<1> HIDE DEF e, j
<1>4. Len([asked EXCEPT ![j] = e]) = Len(asked) /\ Len(asked) \in Nat
  BY <1>1
<1>5. \A i \in 1 .. Len(asked) : [asked EXCEPT ![j] = e][i] = IF i = j THEN e ELSE asked[i]
  BY <1>1
<1>6. EndOf(p, how) \in Seq(AskedType)
  BY EndOfType
<1>7. QED
  BY <1>2, <1>3, <1>4, <1>5, <1>6 DEF j

\* The waits and the requests go together.
LEMMA LinksStep ==
  ASSUME TypeOK, Linked, Vouched, [Next]_vars
  PROVE  /\ Len(asked') <= MaxRequests /\ Len(asked) <= Len(asked')
         /\ \A p \in Panels :
              panel'[p].pending # None =>
                /\ panel'[p].pending <= Len(asked')
                /\ asked'[panel'[p].pending].from = p
                /\ asked'[panel'[p].pending].end = "waiting"
         /\ \A i \in 1 .. Len(asked') :
              asked'[i].from \in Panels /\ asked'[i].end = "waiting"
                => panel'[asked'[i].from].pending = i
<1>1. Types /\ Links /\ Len(asked) \in Nat /\ DOMAIN asked = 1 .. Len(asked)
  BY DEF TypeOK, Linked, Types
<1>2. \A p \in Panels : panel[p].pending \in 0 .. MaxRequests
  BY <1>1 DEF Types, PanelType
<1>3. CASE Quiet
  BY <1>1, <1>3 DEF Quiet, Links
<1>4. ASSUME NEW p \in Panels \cup {Other}, Asking(p)
      PROVE  /\ Len(asked') = Len(asked) + 1 /\ Len(asked') <= MaxRequests
             /\ \A r \in Panels :
                  panel'[r].pending # None =>
                    /\ panel'[r].pending <= Len(asked')
                    /\ asked'[panel'[r].pending].from = r
                    /\ asked'[panel'[r].pending].end = "waiting"
             /\ \A i \in 1 .. Len(asked') :
                  asked'[i].from \in Panels /\ asked'[i].end = "waiting"
                    => panel'[asked'[i].from].pending = i
  <2>1. PICK m \in AskedType :
          /\ m.from = p /\ m.end \in {"waiting", "unsent"} /\ asked' = Append(asked, m)
          /\ Len(asked) < MaxRequests
          /\ p \in Panels => panel[p].pending = None
          /\ \A r \in Panels :
               panel'[r].pending = IF r = p /\ m.end = "waiting" THEN Len(asked) + 1
                                                                 ELSE panel[r].pending
    BY <1>4 DEF Asking
  <2>2. /\ Len(asked') = Len(asked) + 1 /\ asked'[Len(asked) + 1] = m
        /\ \A i \in 1 .. Len(asked) : asked'[i] = asked[i]
    BY <1>1, <2>1, AppendIs
  <2>3. Len(asked') <= MaxRequests
    BY <1>1, <2>1, <2>2
  <2>4. ASSUME NEW r \in Panels, panel'[r].pending # None
        PROVE  /\ panel'[r].pending <= Len(asked')
               /\ asked'[panel'[r].pending].from = r
               /\ asked'[panel'[r].pending].end = "waiting"
    <3>1. CASE r = p /\ m.end = "waiting"
      BY <1>1, <2>1, <2>2, <3>1
    <3>2. CASE ~(r = p /\ m.end = "waiting")
      <4>1. panel'[r].pending = panel[r].pending /\ panel[r].pending \in 1 .. Len(asked)
        BY <1>1, <1>2, <2>1, <2>4, <3>2 DEF Links
      <4>2. QED
        BY <1>1, <2>2, <2>4, <4>1 DEF Links
    <3>3. QED
      BY <3>1, <3>2
  <2>5. ASSUME NEW i \in 1 .. Len(asked'), asked'[i].from \in Panels,
               asked'[i].end = "waiting"
        PROVE  panel'[asked'[i].from].pending = i
    <3>1. CASE i = Len(asked) + 1
      BY <2>1, <2>2, <2>5, <3>1
    <3>2. CASE i # Len(asked) + 1
      <4>1. i \in 1 .. Len(asked) /\ asked'[i] = asked[i]
        BY <1>1, <2>2, <3>2
      <4>2. panel[asked[i].from].pending = i
        BY <1>1, <2>5, <4>1 DEF Links
      <4>3. asked[i].from # p
        BY <2>1, <2>5, <4>1, <4>2
      <4>4. QED
        BY <2>1, <2>5, <4>1, <4>2, <4>3
    <3>3. QED
      BY <3>1, <3>2
  <2>6. QED
    BY <2>2, <2>3, <2>4, <2>5
<1>5. ASSUME NEW p \in Panels, Ending(p)
      PROVE  /\ Len(asked') = Len(asked)
             /\ \A r \in Panels :
                  panel'[r].pending # None =>
                    /\ panel'[r].pending <= Len(asked')
                    /\ asked'[panel'[r].pending].from = r
                    /\ asked'[panel'[r].pending].end = "waiting"
             /\ \A i \in 1 .. Len(asked') :
                  asked'[i].from \in Panels /\ asked'[i].end = "waiting"
                    => panel'[asked'[i].from].pending = i
  <2>1. PICK how \in {"done", "failed", "timeout"} :
          /\ panel[p].pending # None /\ asked' = EndOf(p, how)
          /\ \A r \in Panels : panel'[r].pending = IF r = p THEN None ELSE panel[r].pending
    BY <1>5 DEF Ending
  <2>2. /\ Len(asked') = Len(asked)
        /\ \A i \in 1 .. Len(asked) :
             /\ asked'[i].from = asked[i].from
             /\ asked'[i].end = IF i = panel[p].pending THEN how ELSE asked[i].end
    BY <1>1, <2>1, EndOfIs
  <2>3. asked[panel[p].pending].from = p
    BY <1>1, <2>1 DEF Links
  <2>4. ASSUME NEW r \in Panels, panel'[r].pending # None
        PROVE  /\ panel'[r].pending <= Len(asked')
               /\ asked'[panel'[r].pending].from = r
               /\ asked'[panel'[r].pending].end = "waiting"
    <3>1. r # p /\ panel'[r].pending = panel[r].pending
      BY <2>1, <2>4
    <3>2. panel[r].pending \in 1 .. Len(asked) /\ asked[panel[r].pending].from = r
          /\ asked[panel[r].pending].end = "waiting"
      BY <1>1, <1>2, <2>4, <3>1 DEF Links
    <3>3. QED
      BY <1>1, <2>2, <2>3, <3>1, <3>2
  <2>5. ASSUME NEW i \in 1 .. Len(asked'), asked'[i].from \in Panels,
               asked'[i].end = "waiting"
        PROVE  panel'[asked'[i].from].pending = i
    <3>1. i \in 1 .. Len(asked) /\ i # panel[p].pending /\ asked'[i].from = asked[i].from
          /\ asked[i].end = "waiting"
      BY <2>1, <2>2, <2>5
    <3>2. panel[asked[i].from].pending = i
      BY <1>1, <2>5, <3>1 DEF Links
    <3>3. QED
      BY <2>1, <2>5, <3>1, <3>2
  <2>6. QED
    BY <2>2, <2>4, <2>5
<1>6. QED
  BY <1>1, <1>3, <1>4, <1>5, StepIs DEF Links, Quiet

\* A call is made with its request, and a question is put only while nothing is waited for.
LEMMA CallsStep ==
  ASSUME TypeOK, Linked, Vouched, [Next]_vars
  PROVE  \A c \in calls' : c.id <= Len(asked')
<1>1. Types /\ Links /\ Len(asked) \in Nat /\ asked \in Seq(AskedType)
  BY DEF TypeOK, Linked, Types, AskedType
<1>2. Len(asked) <= Len(asked') /\ Len(asked') \in Nat
  BY LinksStep, TypesStep DEF Types
<1>3. \A c \in calls : c.id \in Nat /\ c.id <= Len(asked')
  BY <1>1, <1>2 DEF Types, Links
<1>4. CASE calls' \subseteq calls
  BY <1>3, <1>4
<1>5. ASSUME NEW p \in Panels, NEW op, NEW target, NEW shown, Submit(p, op, target, shown)
      PROVE  \A c \in calls' : c.id <= Len(asked')
  <2>1. PICK m : asked' = Append(asked, m) /\ m \in AskedType
    <3>1. asked' \in Seq(AskedType)
      BY TypesStep DEF Types, AskedType
    <3>2. PICK m : asked' = Append(asked, m)
      BY <1>5, Zenon DEF Submit
    <3>3. Len(asked') = Len(asked) + 1 /\ asked'[Len(asked) + 1] = m
      BY <1>1, <3>2
    <3>4. QED
      BY <1>1, <3>1, <3>2, <3>3
  <2>2. Len(asked') = Len(asked) + 1
    BY <1>1, <2>1, AppendIs
  <2>3. calls' \subseteq calls \cup {[id |-> Len(asked) + 1, from |-> p]}
    BY <1>5 DEF Submit
  <2>4. QED
    BY <1>1, <1>3, <2>2, <2>3
<1>6. ASSUME NEW p \in Panels, Panel(p)
      PROVE  \A c \in calls' : c.id <= Len(asked')
  <2>1. CASE (\E op \in Ops : Press(p, op)) \/ Agree(p)
    BY <1>5, <2>1 DEF Press, Agree
  <2>2. CASE \/ \E op \in Ops : \E c \in 0 .. born : Ask(p, op, c)
             \/ Decline(p) \/ Status(p) \/ Delayed(p) \/ LateStatus(p) \/ CheckConnection(p)
             \/ \E a \in answers : HandleResult(p, a)
             \/ Timeout(p) \/ ServeList(p) \/ ApplyList(p)
    <3>1. UNCHANGED calls
      BY <2>2 DEF Ask, Decline, Status, Delayed, LateStatus, CheckConnection, HandleResult,
                  Timeout, ServeList, ApplyList, outside
    <3>2. QED
      BY <1>4, <3>1
  <2>3. QED
    BY <1>6, <2>1, <2>2 DEF Panel
<1>7. CASE \/ \E c \in calls : Enter(c)
           \/ \E q \in service.inflight : Succeed(q) \/ Fail(q) \/ Throw(q) \/ Close(q)
  BY <1>4, <1>7 DEF Enter, Succeed, Fail, Throw, Close, outside
<1>8. CASE WriterFails \/ Crash \/ Restart
  BY <1>4, <1>8 DEF WriterFails, Crash, Restart, outside
<1>9. CASE (\E op \in OtherOps : OtherAsks(op)) \/ (\E i \in DOMAIN asked : Repeat(i))
  BY <1>4, <1>9 DEF OtherAsks, Repeat, outside
<1>10. CASE UNCHANGED vars
  BY <1>4, <1>10 DEF vars, outside
<1>11. QED
  BY <1>6, <1>7, <1>8, <1>9, <1>10 DEF Next, Service

\* A question that is put stays one of a panel that waits for nothing.
LEMMA DialogStep ==
  ASSUME TypeOK, Linked, [Next]_vars
  PROVE  \A p \in Panels :
           panel'[p].dialog # NoDialog
             => panel'[p].dialog.op # "none" /\ panel'[p].pending = None
<1>1. /\ Types /\ panel \in [Panels -> PanelType]
      /\ \A p \in Panels :
           panel[p].dialog # NoDialog => panel[p].dialog.op # "none" /\ panel[p].pending = None
  BY DEF TypeOK, Types, Linked, Links
<1>2. ASSUME NEW p \in Panels,
             \A r \in Panels \ {p} : panel'[r] = panel[r],
             \/ panel'[p].dialog = NoDialog
             \/ panel'[p].dialog.op # "none" /\ panel'[p].pending = None
             \/ panel'[p].dialog = panel[p].dialog /\ panel'[p].pending \in {None, panel[p].pending}
      PROVE  \A r \in Panels :
               panel'[r].dialog # NoDialog
                 => panel'[r].dialog.op # "none" /\ panel'[r].pending = None
  BY <1>1, <1>2
<1>3. CASE UNCHANGED panel
  BY <1>1, <1>3
<1>4. ASSUME NEW p \in Panels, Panel(p)
      PROVE  \A r \in Panels :
               panel'[r].dialog # NoDialog
                 => panel'[r].dialog.op # "none" /\ panel'[r].pending = None
  <2>1. panel[p] \in PanelType /\ \A r \in Panels : panel[r] \in PanelType
    BY <1>1
  <2>2. ASSUME NEW op, NEW target, NEW shown, Submit(p, op, target, shown)
        PROVE  (\A r \in Panels \ {p} : panel'[r] = panel[r]) /\ panel'[p].dialog = NoDialog
    <3>1. CASE panel' = [panel EXCEPT ![p].pending = Len(asked) + 1, ![p].dialog = NoDialog]
      BY <1>1, <2>1, <3>1 DEF PanelType
    <3>2. CASE panel' = [panel EXCEPT ![p].dialog = NoDialog]
      BY <1>1, <2>1, <3>2 DEF PanelType
    <3>3. QED
      BY <2>2, <3>1, <3>2 DEF Submit
  <2>3. CASE (\E op \in Ops : Press(p, op)) \/ Agree(p)
    BY <1>2, <2>2, <2>3 DEF Press, Agree
  <2>4. ASSUME NEW op \in Ops, NEW c \in 0 .. born, Ask(p, op, c)
        PROVE  /\ \A r \in Panels \ {p} : panel'[r] = panel[r]
               /\ panel'[p].dialog.op # "none" /\ panel'[p].pending = None
    <3>1. panel[p].pending = None /\ op # "none"
      BY <2>4 DEF Ask, Gate
    <3>2. panel' = [panel EXCEPT ![p].dialog = [op |-> op, row |-> Row(panel[p].rows, c),
                                                shown |-> c]]
      BY <2>4 DEF Ask
    <3>3. QED
      BY <1>1, <2>1, <3>1, <3>2 DEF PanelType
  <2>5. CASE Decline(p)
    <3>1. panel' = [panel EXCEPT ![p].dialog = NoDialog]
      BY <2>5 DEF Decline
    <3>2. (\A r \in Panels \ {p} : panel'[r] = panel[r]) /\ panel'[p].dialog = NoDialog
      BY <1>1, <2>1, <3>1 DEF PanelType
    <3>3. QED
      BY <1>2, <3>2
  <2>6. ASSUME NEW s, Apply(p, s)
        PROVE  /\ \A r \in Panels \ {p} : panel'[r] = panel[r]
               /\ panel'[p].dialog = panel[p].dialog
               /\ panel'[p].pending \in {None, panel[p].pending}
    <3>1. CASE ~IsNewer(p, s)
      BY <2>6, <3>1 DEF Apply
    <3>2. CASE IsNewer(p, s)
      <4>1. PICK i \in {None, panel[p].pending} :
              \E n : panel' = [panel EXCEPT ![p].view = s, ![p].connected = TRUE,
                                            ![p].pending = i, ![p].refreshed = n]
        BY <2>6, <3>2 DEF Apply
      <4>2. QED
        BY <1>1, <2>1, <4>1 DEF PanelType
    <3>3. QED
      BY <3>1, <3>2
  <2>7. CASE Status(p) \/ LateStatus(p)
    BY <1>2, <2>6, <2>7 DEF Status, LateStatus
  <2>8. CASE Delayed(p) \/ ServeList(p)
    BY <1>3, <2>8 DEF Delayed, ServeList
  <2>9. CASE panel' = [panel EXCEPT ![p].pending = None]
    <3>1. /\ \A r \in Panels \ {p} : panel'[r] = panel[r]
          /\ panel'[p].dialog = panel[p].dialog /\ panel'[p].pending = None
      BY <1>1, <2>1, <2>9 DEF PanelType
    <3>2. QED
      BY <1>2, <3>1
  <2>10. CASE (\E a \in answers : HandleResult(p, a)) \/ Timeout(p)
    BY <1>3, <2>9, <2>10 DEF HandleResult, Timeout
  <2>11. CASE panel' = [panel EXCEPT ![p].connected = FALSE]
    <3>1. /\ \A r \in Panels \ {p} : panel'[r] = panel[r]
          /\ panel'[p].dialog = panel[p].dialog /\ panel'[p].pending = panel[p].pending
      BY <1>1, <2>1, <2>11 DEF PanelType
    <3>2. QED
      BY <1>2, <3>1
  <2>12. CASE panel' = [panel EXCEPT ![p].rows = lists[p].rows]
    <3>1. /\ \A r \in Panels \ {p} : panel'[r] = panel[r]
          /\ panel'[p].dialog = panel[p].dialog /\ panel'[p].pending = panel[p].pending
      BY <1>1, <2>1, <2>12 DEF PanelType
    <3>2. QED
      BY <1>2, <3>1
  <2>13. CASE CheckConnection(p) \/ ApplyList(p)
    BY <2>11, <2>12, <2>13 DEF CheckConnection, ApplyList
  <2>14. QED
    BY <1>2, <1>4, <2>3, <2>4, <2>5, <2>7, <2>8, <2>10, <2>13 DEF Panel
<1>5. CASE \/ \E c \in calls : Enter(c)
           \/ \E q \in service.inflight : Succeed(q) \/ Fail(q) \/ Throw(q) \/ Close(q)
  BY <1>3, <1>5 DEF Enter, Succeed, Fail, Throw, Close
<1>6. CASE WriterFails \/ Crash \/ Restart
  BY <1>3, <1>6 DEF WriterFails, Crash, Restart
<1>7. CASE (\E op \in OtherOps : OtherAsks(op)) \/ (\E i \in DOMAIN asked : Repeat(i))
  BY <1>3, <1>7 DEF OtherAsks, Repeat
<1>8. CASE UNCHANGED vars
  BY <1>3, <1>8 DEF vars
<1>9. QED
  BY <1>4, <1>5, <1>6, <1>7, <1>8 DEF Next, Service

\* The service, seen from the requests: it takes one on, works on one, closes one, ends,
\* or does nothing about them.
TakesOn(id) ==
  /\ UNCHANGED <<service.results, service.last, succeeded, closed, forgotten>>
  /\ \E run \in RunType : /\ run.id = id
                          /\ run.stage = "work" => run.op # "delete"
                          /\ service'.inflight = service.inflight \cup {run}
  /\ executed' \in {executed, [executed EXCEPT ![id] = @ + 1]}
WorksOn(q) ==
  /\ UNCHANGED <<service.results, service.last.id, succeeded, closed, forgotten, executed,
                 answers>>
  /\ service'.last.ok => service.last.ok
  /\ \E r \in RunType : /\ r.id = q.id /\ r.stage = "close"
                        /\ service'.inflight = (service.inflight \ {q}) \cup {r}
Rests ==
  /\ UNCHANGED <<service.results, service.last.id, service.inflight, succeeded, closed,
                 forgotten, executed>>
  /\ service'.last.ok => service.last.ok
  /\ answers' \subseteq answers

\* Every step of the service takes a request on, works on one, or rests.
LEMMA ServiceIs ==
  ASSUME TypeOK, Linked, [Next]_vars
  PROVE  \/ \E c \in calls :
              /\ Enter(c)
              /\ UNCHANGED <<service, executed>> \/ (TakesOn(c.id) /\ IsNew(c.id))
         \/ \E q \in service.inflight : WorksOn(q)
         \/ \E q \in service.inflight : Close(q)
         \/ Crash
         \/ \E op \in OtherOps : OtherAsks(op) /\ TakesOn(Len(asked) + 1)
         \/ \E i \in DOMAIN asked : Repeat(i) /\ TakesOn(i)
         \/ Rests
<1>1. /\ Types /\ Links /\ asked \in Seq(AskedType) /\ service \in ServiceType
      /\ DOMAIN asked = 1 .. Len(asked) /\ Len(asked) \in Nat /\ records \subseteq Nat
  BY DEF TypeOK, Types, Linked, AskedType
<1>2. \A i \in 1 .. Len(asked) : /\ i \in Ids /\ asked[i].op \in Ops
                                 /\ asked[i].target \in Nat
  <2>1. \A i \in 1 .. Len(asked) : i \in Ids /\ asked[i] \in AskedType
    BY <1>1 DEF Links
  <2>2. QED
    BY <2>1 DEF AskedType
<1>3. ASSUME NEW c \in calls, Enter(c)
      PROVE  UNCHANGED <<service, executed>> \/ (TakesOn(c.id) /\ IsNew(c.id))
  <2>1. c.id \in 1 .. Len(asked) /\ c.from \in Panels
    BY <1>1 DEF Types, Links
  <2>2. CASE IsNew(c.id) /\ Carry(c.id, asked[c.id].op, asked[c.id].target, c.from)
    <3>1. UNCHANGED <<succeeded, closed, forgotten>>
      BY <1>3 DEF Enter
    <3>2. QED
      BY <1>1, <1>2, <2>1, <2>2, <3>1, CarryEffect DEF TakesOn
  <2>3. QED
    BY <1>3, <2>2 DEF Enter
<1>4. ASSUME NEW q \in service.inflight, Succeed(q) \/ Fail(q) \/ Throw(q)
      PROVE  WorksOn(q)
  <2>1. UNCHANGED <<succeeded, closed, forgotten, executed, answers>>
    BY <1>4 DEF Succeed, Fail, Throw, outside, history
  <2>2. q.stage = "work" => q.op # "delete"
    BY DEF Linked, Working
  <2>3. QED
    BY <1>1, <1>4, <2>1, <2>2, WorkEffect DEF WorksOn
<1>5. ASSUME NEW op \in OtherOps, OtherAsks(op)
      PROVE  TakesOn(Len(asked) + 1)
  <2>1. PICK t \in Nat : Carry(Len(asked) + 1, op, t, Other)
    <3>1. service.active \in Nat
      BY <1>1 DEF ServiceType
    <3>2. QED
      BY <1>1, <1>5, <3>1 DEF OtherAsks
  <2>2. Len(asked) + 1 \in Ids /\ op \in Ops /\ UNCHANGED <<succeeded, closed, forgotten>>
    BY <1>1, <1>5 DEF OtherAsks, Ops
  <2>3. QED
    BY <1>1, <2>1, <2>2, CarryEffect DEF TakesOn
<1>6. ASSUME NEW i \in DOMAIN asked, Repeat(i)
      PROVE  TakesOn(i)
  <2>1. UNCHANGED <<succeeded, closed, forgotten>>
    BY <1>6 DEF Repeat
  <2>2. Carry(i, asked[i].op, asked[i].target, Other)
    BY <1>6 DEF Repeat
  <2>3. QED
    BY <1>1, <1>2, <2>1, <2>2, CarryEffect DEF TakesOn
<1>7. CASE WriterFails
  <2>1. /\ service' = [service EXCEPT !.state = "error", !.version = service.version + 1,
                                      !.last.ok = FALSE]
        /\ service.version + 1 \in Nat /\ "error" \in States /\ service.last \in LastType
    BY <1>1, <1>7 DEF WriterFails, ServiceType, States
  <2>2. Holds(service', service.up, "error", service.active, service.version + 1,
              [service.last EXCEPT !.ok = FALSE], service.results, service.inflight)
    BY <1>1, <2>1, BrokenFields, Zenon
  <2>3. service'.last.id = service.last.id /\ service'.last.ok = FALSE
    BY <2>1, <2>2, NotedType DEF Holds
  <2>4. UNCHANGED <<answers, succeeded, closed, forgotten, executed>>
    BY <1>7 DEF WriterFails, outside, history
  <2>5. QED
    BY <2>2, <2>3, <2>4 DEF Holds, Rests
<1>8. CASE Restart
  <2>1. service' = [service EXCEPT !.up = TRUE]
    BY <1>8 DEF Restart
  <2>2. Holds(service', TRUE, service.state, service.active, service.version, service.last,
              service.results, service.inflight)
    BY <1>1, <2>1, RunningFields, Zenon
  <2>3. UNCHANGED <<answers, succeeded, closed, forgotten, executed>>
    BY <1>8 DEF Restart, outside, history
  <2>4. QED
    BY <2>2, <2>3 DEF Holds, Rests
<1>9. ASSUME NEW p \in Panels, Panel(p)
      PROVE  Rests
  <2>1. UNCHANGED <<service, succeeded, closed, forgotten, executed>> /\ answers' \subseteq answers
    <3>1. CASE \/ \E op \in Ops : Press(p, op)
               \/ Agree(p)
      BY <3>1 DEF Press, Agree, Submit
    <3>2. CASE (\E op \in Ops : \E c \in 0 .. born : Ask(p, op, c)) \/ Decline(p)
      BY <3>2 DEF Ask, Decline, outside, history
    <3>3. CASE Status(p) \/ LateStatus(p)
      BY <3>3 DEF Status, LateStatus
    <3>4. CASE Delayed(p) \/ CheckConnection(p) \/ Timeout(p)
      BY <3>4 DEF Delayed, CheckConnection, Timeout, outside, history
    <3>5. CASE \E a \in answers : HandleResult(p, a)
      BY <3>5 DEF HandleResult
    <3>6. CASE ServeList(p) \/ ApplyList(p)
      BY <3>6 DEF ServeList, ApplyList, history
    <3>7. QED
      BY <1>9, <3>1, <3>2, <3>3, <3>4, <3>5, <3>6 DEF Panel
  <2>2. QED
    BY <2>1 DEF Rests
<1>10. CASE UNCHANGED vars
  BY <1>10 DEF vars, outside, history, Rests
<1>11. CASE Service
  <2>1. CASE \E c \in calls : Enter(c)
    BY <1>3, <2>1
  <2>2. CASE \E q \in service.inflight : Succeed(q) \/ Fail(q) \/ Throw(q)
    BY <1>4, <2>2
  <2>3. QED
    BY <1>11, <2>1, <2>2 DEF Service
<1>12. CASE \E op \in OtherOps : OtherAsks(op)
  BY <1>5, <1>12
<1>13. CASE \E i \in DOMAIN asked : Repeat(i)
  BY <1>6, <1>13
<1>14. QED
  BY <1>7, <1>8, <1>9, <1>10, <1>11, <1>12, <1>13 DEF Next

\* No deletion waits for work.
LEMMA WorkingStep ==
  ASSUME TypeOK, Linked, [Next]_vars
  PROVE  Working'
<1>1. Types /\ Working /\ service \in ServiceType /\ Len(service.results) <= CacheSize
  BY DEF TypeOK, Types, Linked
<1>2. CASE UNCHANGED service \/ Rests
  BY <1>1, <1>2 DEF Working, Rests
<1>3. ASSUME NEW id, TakesOn(id)
      PROVE  Working'
  BY <1>1, <1>3 DEF Working, TakesOn
<1>4. ASSUME NEW q \in service.inflight, WorksOn(q)
      PROVE  Working'
  BY <1>1, <1>4 DEF Working, WorksOn
<1>5. ASSUME NEW q \in service.inflight, Close(q)
      PROVE  Working'
  BY <1>1, <1>5, CloseEffect DEF Working
<1>6. CASE Crash
  <2>1. service' = [Fresh EXCEPT !.up = FALSE]
    BY <1>6 DEF Crash
  <2>2. service'.inflight = {}
    BY <2>1 DEF Fresh
  <2>3. QED
    BY <2>2 DEF Working
<1>7. QED
  BY <1>2, <1>3, <1>4, <1>5, <1>6, ServiceIs

\* What vouches for a request keeps doing so.
LEMMA VouchedStep ==
  ASSUME TypeOK, Linked, Vouched, [Next]_vars
  PROVE  Vouched'
<1>1. Types /\ service \in ServiceType /\ Len(service.results) <= CacheSize
      /\ late \in [Panels -> StatusType]
  BY DEF TypeOK, Types
<1>2. closed \subseteq closed' /\ succeeded \subseteq succeeded'
  BY StepIs DEF Quiet, Asking, Ending
<1>3. \A r \in Range(service.results) :
        r.id \in closed' /\ (r.code = "OK" => r.id \in succeeded')
  BY <1>2 DEF Vouched
<1>4. \A a \in answers :
        a.code # "IN_PROGRESS" => a.id \in closed' /\ (a.code = "OK" => a.id \in succeeded')
  BY <1>2 DEF Vouched
<1>5. \A p \in Panels : late'[p] \in {late[p], Snapshot, NoStatus}
  <2>1. CASE UNCHANGED late
    BY <2>1
  <2>2. ASSUME NEW p \in Panels, Delayed(p) \/ LateStatus(p)
        PROVE  late' = [late EXCEPT ![p] = Snapshot] \/ late' = [late EXCEPT ![p] = NoStatus]
    BY <2>2 DEF Delayed, LateStatus
  <2>3. CASE \E p \in Panels : Delayed(p) \/ LateStatus(p)
    BY <1>1, <2>2, <2>3
  <2>4. CASE Crash
    BY <2>4 DEF Crash
  <2>5. ASSUME NEW p \in Panels, Panel(p), ~Delayed(p), ~LateStatus(p)
        PROVE  UNCHANGED late
    <3>1. CASE (\E op \in Ops : Press(p, op)) \/ Agree(p)
      BY <3>1 DEF Press, Agree, Submit
    <3>2. CASE (\E op \in Ops : \E c \in 0 .. born : Ask(p, op, c)) \/ Decline(p)
      BY <3>2 DEF Ask, Decline, outside
    <3>3. CASE Status(p) \/ CheckConnection(p) \/ Timeout(p)
      BY <3>3 DEF Status, CheckConnection, Timeout, outside
    <3>4. CASE \E a \in answers : HandleResult(p, a)
      BY <3>4 DEF HandleResult
    <3>5. CASE ServeList(p) \/ ApplyList(p)
      BY <3>5 DEF ServeList, ApplyList
    <3>6. QED
      BY <2>5, <3>1, <3>2, <3>3, <3>4, <3>5 DEF Panel
  <2>6. CASE \/ \E c \in calls : Enter(c)
             \/ \E q \in service.inflight : Succeed(q) \/ Fail(q) \/ Throw(q) \/ Close(q)
    BY <2>1, <2>6 DEF Enter, Succeed, Fail, Throw, Close, outside
  <2>7. CASE WriterFails \/ Restart
    BY <2>1, <2>7 DEF WriterFails, Restart, outside
  <2>8. CASE (\E op \in OtherOps : OtherAsks(op)) \/ (\E i \in DOMAIN asked : Repeat(i))
    BY <2>1, <2>8 DEF OtherAsks, Repeat, outside
  <2>9. CASE UNCHANGED vars
    BY <2>1, <2>9 DEF vars, outside
  <2>10. QED
    BY <2>1, <2>3, <2>4, <2>5, <2>6, <2>7, <2>8, <2>9 DEF Next, Service
<1>6. \A p \in Panels : /\ late'[p].last.ok => late'[p].last.id \in succeeded'
                        /\ late'[p].last.id # None => late'[p].last.id \in closed'
  <2>1. \A p \in Panels : /\ late[p].last.ok => late[p].last.id \in succeeded'
                          /\ late[p].last.id # None => late[p].last.id \in closed'
    BY <1>2 DEF Vouched, Vouches
  <2>2. /\ Snapshot.last.ok => Snapshot.last.id \in succeeded'
        /\ Snapshot.last.id # None => Snapshot.last.id \in closed'
    BY <1>2 DEF Vouched, Vouches, Snapshot
  <2>3. ~NoStatus.last.ok /\ NoStatus.last.id = None
    BY DEF NoStatus
  <2>4. QED
    BY <1>5, <2>1, <2>2, <2>3
<1>7. ASSUME /\ service'.last.id = service.last.id
             /\ service'.last.ok => service.last.ok
             /\ service'.results = service.results
             /\ \A a \in answers' :
                  a.code # "IN_PROGRESS"
                    => a.id \in closed' /\ (a.code = "OK" => a.id \in succeeded')
      PROVE  Vouched'
  BY <1>2, <1>3, <1>6, <1>7 DEF Vouched, Vouches
<1>8. CASE Rests
  BY <1>4, <1>7, <1>8 DEF Rests
<1>9. ASSUME NEW c \in calls, Enter(c),
             UNCHANGED <<service, executed>> \/ (TakesOn(c.id) /\ IsNew(c.id))
      PROVE  Vouched'
  <2>1. UNCHANGED <<service.last, service.results>>
    BY <1>9 DEF TakesOn
  <2>2. CASE IsNew(c.id)
    BY <1>4, <1>7, <1>9, <2>1, <2>2 DEF Enter
  <2>3. CASE \E r \in Cached(c.id) : Sent(c.from, c.id, r.code)
    <3>1. PICK r \in Cached(c.id) : Sent(c.from, c.id, r.code)
      BY <2>3
    <3>2. r \in Range(service.results) /\ r.id = c.id
      BY DEF Cached
    <3>3. answers' \subseteq answers \cup {[to |-> c.from, id |-> c.id, code |-> r.code]}
      BY <3>1 DEF Sent
    <3>4. QED
      BY <1>3, <1>4, <1>7, <2>1, <3>2, <3>3
  <2>4. CASE Sent(c.from, c.id, "IN_PROGRESS")
    <3>1. answers' \subseteq answers \cup {[to |-> c.from, id |-> c.id, code |-> "IN_PROGRESS"]}
      BY <2>4 DEF Sent
    <3>2. QED
      BY <1>4, <1>7, <2>1, <3>1
  <2>5. QED
    BY <1>9, <2>2, <2>3, <2>4 DEF Enter
<1>10. ASSUME NEW q \in service.inflight, WorksOn(q)
       PROVE  Vouched'
  BY <1>4, <1>7, <1>10 DEF WorksOn
<1>11. CASE \/ \E op \in OtherOps : OtherAsks(op) /\ TakesOn(Len(asked) + 1)
            \/ \E i \in DOMAIN asked : Repeat(i) /\ TakesOn(i)
  <2>1. UNCHANGED <<service.last, service.results, answers>>
    BY <1>11 DEF OtherAsks, Repeat, TakesOn, outside
  <2>2. QED
    BY <1>4, <1>7, <2>1
<1>12. ASSUME NEW q \in service.inflight, Close(q)
       PROVE  Vouched'
  <2>1. q.id \in closed' /\ (q.code = "OK" => q.id \in succeeded')
    BY <1>12 DEF Close
  <2>2. service'.last = [id |-> q.id, ok |-> q.code = "OK"] /\ service'.results = Kept(q)
    BY <1>1, <1>12, CloseEffect
  <2>3. \A r \in Range(service'.results) :
          r.id \in closed' /\ (r.code = "OK" => r.id \in succeeded')
    <3>1. \A r \in Range(Kept(q)) :
            r \in Range(service.results) \/ r = [id |-> q.id, code |-> q.code]
      BY <1>1, KeptIs
    <3>2. \A r \in Range(Kept(q)) : r.id \in closed' /\ (r.code = "OK" => r.id \in succeeded')
      BY <1>3, <2>1, <3>1
    <3>3. QED
      BY <2>2, <3>2
  <2>4. answers' \subseteq answers \cup {[to |-> q.from, id |-> q.id, code |-> q.code]}
    BY <1>12 DEF Close, Sent
  <2>5. \A a \in answers' :
          a.code # "IN_PROGRESS" => a.id \in closed' /\ (a.code = "OK" => a.id \in succeeded')
    BY <1>4, <2>1, <2>4
  <2>6. /\ service'.last.ok => service'.last.id \in succeeded'
        /\ service'.last.id # None => service'.last.id \in closed'
    <3>1. \A x, b : [id |-> x, ok |-> b].id = x /\ [id |-> x, ok |-> b].ok = b
      OBVIOUS
    <3>2. service'.last.id = q.id /\ service'.last.ok = (q.code = "OK")
      BY <2>2, <3>1
    <3>3. QED
      BY <2>1, <3>2
  <2>7. QED
    BY <1>6, <2>3, <2>5, <2>6 DEF Vouched, Vouches
<1>13. CASE Crash
  <2>1. service' = [Fresh EXCEPT !.up = FALSE] /\ answers' \subseteq answers
    BY <1>13 DEF Crash
  <2>2. service'.last = NoStatus.last /\ service'.results = <<>>
    BY <2>1 DEF Fresh
  <2>3. ~service'.last.ok /\ service'.last.id = None
    BY <2>2 DEF NoStatus
  <2>4. Range(service'.results) = {}
    BY <2>2 DEF Range
  <2>5. QED
    BY <1>4, <1>6, <2>1, <2>3, <2>4 DEF Vouched, Vouches
<1>14. QED
  BY <1>8, <1>9, <1>10, <1>11, <1>12, <1>13, ServiceIs

\* The operator is told the truth about the end of a request ...
LEMMA EndedStep ==
  ASSUME TypeOK, Linked, Vouched, Ended, [Next]_vars
  PROVE  \A i \in 1 .. Len(asked') :
           /\ asked'[i].end = "done" => i \in succeeded'
           /\ asked'[i].end \in {"done", "failed"} => i \in closed'
<1>1. /\ Types /\ Len(asked) \in Nat
      /\ \A i \in 1 .. Len(asked) : /\ asked[i].end = "done" => i \in succeeded
                                    /\ asked[i].end \in {"done", "failed"} => i \in closed
  <2>1. Types
    BY DEF TypeOK
  <2>2. Len(asked) \in Nat /\ DOMAIN asked = 1 .. Len(asked)
    BY <2>1 DEF Types
  <2>3. QED
    BY <2>1, <2>2, Zenon DEF Ended
<1>2. CASE Quiet
  BY <1>1, <1>2 DEF Quiet
<1>3. ASSUME NEW p \in Panels \cup {Other}, Asking(p), NEW i \in 1 .. Len(asked')
      PROVE  /\ asked'[i].end = "done" => i \in succeeded'
             /\ asked'[i].end \in {"done", "failed"} => i \in closed'
  <2>1. PICK m \in AskedType :
          /\ m.end \in {"waiting", "unsent"} /\ asked' = Append(asked, m)
          /\ UNCHANGED <<closed, succeeded>>
    BY <1>3 DEF Asking
  <2>2. /\ Len(asked') = Len(asked) + 1 /\ asked'[Len(asked) + 1] = m
        /\ \A j \in 1 .. Len(asked) : asked'[j] = asked[j]
    BY <1>1, <2>1, AppendIs
  <2>3. i \in 1 .. Len(asked) \/ asked'[i] = m
    BY <1>1, <1>3, <2>2
  <2>4. QED
    BY <1>1, <2>1, <2>2, <2>3
<1>4. ASSUME NEW p \in Panels, Ending(p), NEW i \in 1 .. Len(asked')
      PROVE  /\ asked'[i].end = "done" => i \in succeeded'
             /\ asked'[i].end \in {"done", "failed"} => i \in closed'
  <2>1. PICK how \in {"done", "failed", "timeout"} :
          /\ asked' = EndOf(p, how) /\ UNCHANGED <<closed, succeeded>>
          /\ how = "done" => panel[p].pending \in succeeded
          /\ how \in {"done", "failed"} => panel[p].pending \in closed
    BY <1>4 DEF Ending
  <2>2. /\ Len(asked') = Len(asked)
        /\ asked'[i].end = IF i = panel[p].pending THEN how ELSE asked[i].end
    BY <1>1, <1>4, <2>1, EndOfIs
  <2>3. QED
    BY <1>1, <1>4, <2>1, <2>2
<1>5. QED
  BY <1>2, <1>3, <1>4, StepIs

\* ... and a panel waits for one request at a time.
LEMMA OneAtATimeStep ==
  ASSUME TypeOK, Linked, Vouched, Ended, OneAtATime, [Next]_vars
  PROVE  \A i, j \in 1 .. Len(asked') :
           i < j /\ asked'[i].from = asked'[j].from /\ asked'[i].from \in Panels
             => i \in closed' \/ asked'[i].end \in {"timeout", "unsent"}
<1>1. /\ Types /\ Links /\ Len(asked) \in Nat /\ DOMAIN asked = 1 .. Len(asked)
      /\ asked \in Seq(AskedType)
  BY DEF TypeOK, Types, Linked, AskedType
<1>2. \A i \in 1 .. Len(asked) : asked[i].end \in {"waiting", "unsent", "done", "failed",
                                                   "timeout"}
  <2>1. \A i \in 1 .. Len(asked) : asked[i] \in AskedType
    BY <1>1
  <2>2. QED
    BY <2>1 DEF AskedType
<1>3. \A i, j \in 1 .. Len(asked) :
        i < j /\ asked[i].from = asked[j].from /\ asked[i].from \in Panels
          => i \in closed \/ asked[i].end \in {"timeout", "unsent"}
  BY <1>1 DEF OneAtATime
<1>4. \A i \in 1 .. Len(asked) :
        asked[i].from \in Panels /\ panel[asked[i].from].pending # i
          => i \in closed \/ asked[i].end \in {"timeout", "unsent"}
  BY <1>1, <1>2 DEF Links, Ended
<1>5. CASE Quiet
  BY <1>1, <1>3, <1>5 DEF Quiet
<1>6. ASSUME NEW p \in Panels \cup {Other}, Asking(p),
             NEW i \in 1 .. Len(asked'), NEW j \in 1 .. Len(asked'), i < j,
             asked'[i].from = asked'[j].from, asked'[i].from \in Panels
      PROVE  i \in closed' \/ asked'[i].end \in {"timeout", "unsent"}
  <2>1. PICK m \in AskedType :
          /\ m.from = p /\ asked' = Append(asked, m)
          /\ p \in Panels => panel[p].pending = None
          /\ UNCHANGED <<closed, succeeded>>
    BY <1>6 DEF Asking
  <2>2. /\ Len(asked') = Len(asked) + 1 /\ asked'[Len(asked) + 1] = m
        /\ \A k \in 1 .. Len(asked) : asked'[k] = asked[k]
    BY <1>1, <2>1, AppendIs
  <2>3. i \in 1 .. Len(asked) /\ asked'[i] = asked[i]
    BY <1>1, <1>6, <2>2
  <2>4. CASE j \in 1 .. Len(asked)
    BY <1>3, <1>6, <2>1, <2>2, <2>3, <2>4
  <2>5. CASE j = Len(asked) + 1
    <3>1. asked[i].from = p /\ panel[p].pending # i
      BY <1>6, <2>1, <2>2, <2>3, <2>5
    <3>2. QED
      BY <1>4, <1>6, <2>1, <2>3, <3>1
  <2>6. QED
    BY <1>1, <1>6, <2>2, <2>4, <2>5
<1>7. ASSUME NEW p \in Panels, Ending(p),
             NEW i \in 1 .. Len(asked'), NEW j \in 1 .. Len(asked'), i < j,
             asked'[i].from = asked'[j].from, asked'[i].from \in Panels
      PROVE  i \in closed' \/ asked'[i].end \in {"timeout", "unsent"}
  <2>1. PICK how \in {"done", "failed", "timeout"} :
          /\ asked' = EndOf(p, how) /\ UNCHANGED <<closed, succeeded>>
          /\ how \in {"done", "failed"} => panel[p].pending \in closed
    BY <1>7 DEF Ending
  <2>2. /\ Len(asked') = Len(asked)
        /\ \A k \in 1 .. Len(asked) :
             /\ asked'[k].from = asked[k].from
             /\ asked'[k].end = IF k = panel[p].pending THEN how ELSE asked[k].end
    BY <1>1, <2>1, EndOfIs
  <2>3. QED
    BY <1>3, <1>7, <2>1, <2>2
<1>8. QED
  BY <1>5, <1>6, <1>7, StepIs

\* What was carried out is remembered, or forgotten for good.
LEMMA CountedStep ==
  ASSUME TypeOK, Linked, Vouched, Counted, [Next]_vars
  PROVE  Counted'
<1>1. /\ Types /\ Links /\ service \in ServiceType /\ Len(service.results) <= CacheSize
      /\ Len(asked) \in Nat /\ DOMAIN asked = 1 .. Len(asked)
      /\ executed \in [Ids -> Nat] /\ asked \in Seq(AskedType)
  BY DEF TypeOK, Types, Linked, AskedType
<1>2. Len(asked) <= Len(asked') /\ Len(asked') \in Nat
  BY LinksStep, TypesStep DEF Types
<1> DEFINE Remembered(i) == Cached(i) # {} \/ Running(i) # {}
<1>3. ASSUME executed' = executed, forgotten \subseteq forgotten',
             \A i \in Ids : Remembered(i) => Remembered(i)' \/ i \in forgotten'
      PROVE  Counted'
  BY <1>1, <1>2, <1>3 DEF Counted
<1>4. CASE UNCHANGED <<service, executed>> /\ UNCHANGED forgotten
  BY <1>3, <1>4 DEF Cached, Running
<1>5. CASE Rests
  BY <1>3, <1>5 DEF Rests, Cached, Running
<1>6. ASSUME NEW q \in service.inflight, WorksOn(q)
      PROVE  Counted'
  <2>1. PICK r \in RunType : /\ r.id = q.id
                             /\ service'.inflight = (service.inflight \ {q}) \cup {r}
    BY <1>6 DEF WorksOn
  <2>2. \A i \in Ids : Running(i) # {} => Running(i)' # {}
    BY <2>1 DEF Running
  <2>3. QED
    BY <1>3, <1>6, <2>2 DEF WorksOn, Cached
<1>7. ASSUME NEW q \in service.inflight, Close(q)
      PROVE  Counted'
  <2>1. service'.results = Kept(q) /\ service'.inflight = service.inflight \ {q}
    BY <1>1, <1>7, CloseEffect
  <2>2. /\ [id |-> q.id, code |-> q.code] \in Range(Kept(q))
        /\ \A r \in Range(service.results) :
             \/ r \in Range(Kept(q))
             \/ Len(service.results) = CacheSize /\ r = Head(service.results)
    BY <1>1, KeptIs
  <2>3. forgotten' = IF Len(service.results) = CacheSize
                       THEN forgotten \cup {Head(service.results).id} ELSE forgotten
    BY <1>7 DEF Close
  <2>4. \A i \in Ids : Running(i) # {} => Running(i)' # {} \/ Cached(i)' # {}
    BY <2>1, <2>2 DEF Running, Cached
  <2>5. \A i \in Ids : Cached(i) # {} => Cached(i)' # {} \/ i \in forgotten'
    BY <2>1, <2>2, <2>3 DEF Cached
  <2>6. executed' = executed
    BY <1>7 DEF Close
  <2>7. QED
    BY <1>3, <2>3, <2>4, <2>5, <2>6
<1>8. CASE Crash
  <2>1. forgotten' = Ids /\ executed' = executed
    BY <1>8 DEF Crash
  <2>2. QED
    BY <1>3, <1>1, <2>1 DEF Types
<1>9. ASSUME NEW id \in Ids, TakesOn(id), id <= Len(asked'),
             executed[id] > 0 => id \in forgotten
      PROVE  Counted'
  <2>1. service'.results = service.results /\ forgotten' = forgotten
        /\ executed' \in {executed, [executed EXCEPT ![id] = @ + 1]}
    BY <1>9 DEF TakesOn
  <2>2. PICK run : run.id = id /\ service'.inflight = service.inflight \cup {run}
    BY <1>9 DEF TakesOn
  <2>3. \A i \in Ids : Remembered(i) => Remembered(i)'
    BY <2>1, <2>2 DEF Cached, Running
  <2>4. Remembered(id)'
    BY <2>2 DEF Running
  <2>5. \A i \in Ids : executed'[i] = executed[i] \/ (i = id /\ executed'[i] = executed[i] + 1)
    BY <1>1, <2>1
  <2>6. ASSUME NEW i \in Ids
        PROVE  /\ i > Len(asked') => executed'[i] = 0
               /\ executed'[i] > 0 => i \in forgotten' \/ Remembered(i)'
               /\ executed'[i] > 1 => i \in forgotten'
    <3>1. CASE i = id
      BY <1>1, <1>2, <1>9, <2>1, <2>4, <2>5, <3>1 DEF Counted
    <3>2. CASE i # id
      BY <1>1, <1>2, <2>1, <2>3, <2>5, <3>2 DEF Counted
    <3>3. QED
      BY <3>1, <3>2
  <2>7. QED
    BY <2>6 DEF Counted
<1>10. ASSUME NEW id \in 1 .. Len(asked), IsNew(id)
       PROVE  id \in Ids /\ (executed[id] > 0 => id \in forgotten)
  BY <1>1, <1>10 DEF Counted, IsNew, Links
<1>11. ASSUME NEW c \in calls, Enter(c),
              UNCHANGED <<service, executed>> \/ (TakesOn(c.id) /\ IsNew(c.id))
       PROVE  Counted'
  <2>1. c.id \in 1 .. Len(asked) /\ UNCHANGED forgotten
    BY <1>1, <1>11 DEF Types, Links, Enter
  <2>2. QED
    BY <1>1, <1>2, <1>4, <1>9, <1>10, <1>11, <2>1
<1>12. ASSUME NEW i \in DOMAIN asked, Repeat(i), TakesOn(i)
       PROVE  Counted'
  BY <1>1, <1>2, <1>9, <1>10, <1>12 DEF Repeat
<1>13. ASSUME NEW op \in OtherOps, OtherAsks(op), TakesOn(Len(asked) + 1)
       PROVE  Counted'
  <2>1. Len(asked) + 1 \in Ids /\ executed[Len(asked) + 1] = 0
    BY <1>1, <1>13 DEF OtherAsks, Counted
  <2>2. PICK m : asked' = Append(asked, m)
    BY <1>13 DEF OtherAsks
  <2>3. Len(asked') = Len(asked) + 1
    BY <1>1, <2>2
  <2>4. QED
    BY <1>1, <1>9, <1>13, <2>1, <2>3
<1>14. QED
  BY <1>5, <1>6, <1>7, <1>8, <1>11, <1>12, <1>13, ServiceIs

\* The inductive invariant holds at the start ...
LEMMA InitIInv == Init => IInv
<1> SUFFICES ASSUME Init PROVE IInv
  OBVIOUS
<1>1. /\ service = Fresh /\ calls = {} /\ answers = {} /\ asked = <<>>
      /\ late = [p \in Panels |-> NoStatus]
      /\ \A p \in Panels : panel[p].pending = None /\ panel[p].dialog = NoDialog
      /\ executed = [i \in Ids |-> 0]
  BY DEF Init
<1>2. Fresh.results = <<>> /\ Fresh.inflight = {} /\ ~Fresh.last.ok /\ Fresh.last.id = None
  BY DEF Fresh, NoStatus
<1>3. TypeOK
  BY <1>1, <1>2, InitTypes DEF TypeOK
<1>4. Linked
  BY <1>1, <1>2 DEF Linked, Links, Working
<1>5. Vouched
  <2>1. Range(service.results) = {}
    BY <1>1, <1>2 DEF Range
  <2>2. ~NoStatus.last.ok /\ NoStatus.last.id = None
    BY DEF NoStatus
  <2>3. QED
    BY <1>1, <1>2, <2>1, <2>2 DEF Vouched, Vouches
<1>6. Ended /\ OneAtATime /\ Counted
  BY <1>1 DEF Ended, OneAtATime, Counted
<1>7. QED
  BY <1>3, <1>4, <1>5, <1>6 DEF IInv

\* ... every step keeps it ...
LEMMA NextIInv == IInv /\ [Next]_vars => IInv'
<1> SUFFICES ASSUME IInv, [Next]_vars PROVE IInv'
  OBVIOUS
<1> USE DEF IInv
<1>1. Types' /\ DOMAIN asked' = 1 .. Len(asked')
  BY TypesStep DEF Types
<1>2. Len(service.results)' <= CacheSize
  <2>1. Types /\ service \in ServiceType /\ Len(service.results) <= CacheSize
    BY DEF TypeOK, Types
  <2>2. CASE \E q \in service.inflight : Close(q)
    BY <2>1, <2>2, CloseEffect, KeptIs
  <2>3. CASE Crash
    <3>1. service' = [Fresh EXCEPT !.up = FALSE]
      BY <2>3 DEF Crash
    <3>2. service'.results = <<>>
      BY <3>1 DEF Fresh
    <3>3. QED
      BY <3>2
  <2>4. CASE service'.results = service.results
    BY <2>1, <2>4
  <2>5. QED
    BY <2>2, <2>3, <2>4, ServiceIs DEF TakesOn, WorksOn, Rests
<1>3. Linked'
  BY <1>1, LinksStep, CallsStep, DialogStep, WorkingStep DEF Linked, Links
<1>4. Vouched'
  BY VouchedStep
<1>5. Ended'
  BY <1>1, EndedStep DEF Ended
<1>6. OneAtATime'
  BY <1>1, OneAtATimeStep DEF OneAtATime
<1>7. Counted'
  BY CountedStep
<1>8. QED
  BY <1>1, <1>2, <1>3, <1>4, <1>5, <1>6, <1>7 DEF TypeOK

\* ... so it holds in every behaviour.
LEMMA IInvCorrect == Spec => []IInv
BY InitIInv, NextIInv, PTL DEF Spec

-----------------------------------------------------------------------------
(* The results *)

\* Every variable keeps its type, and the cache of results its size.
THEOREM TypesCorrect == Spec => []TypeOK
BY IInvCorrect, PTL DEF IInv

\* For any number of panels, requests, repetitions, late answers and ends of the service:
\* what a panel reports as done was carried out.
THEOREM DoneIsTrueCorrect == Spec => []DoneIsTrue
<1>1. IInv => DoneIsTrue
  BY DEF IInv, Ended, DoneIsTrue
<1>2. QED
  BY <1>1, IInvCorrect, PTL

\* A panel sends its next request only when the service has finished the one before, or
\* after it reported a time-out.
THEOREM OneAtATimeCorrect == Spec => []OneAtATime
BY IInvCorrect, PTL DEF IInv

\* A request that comes again is carried out once, as long as its result is kept.
THEOREM AtMostOnceCorrect == Spec => []AtMostOnce
<1>1. IInv => AtMostOnce
  BY DEF IInv, Counted, AtMostOnce
<1>2. QED
  BY <1>1, IInvCorrect, PTL
=============================================================================
