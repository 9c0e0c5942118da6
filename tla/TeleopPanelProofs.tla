------------------------- MODULE TeleopPanelProofs -------------------------
(***************************************************************************)
(* The teleoperation panel, for any number of presses and losses: what a   *)
(* roll-back and a stop may rely on when their answers come.               *)
(***************************************************************************)
EXTENDS TeleopPanel, TLAPS

-----------------------------------------------------------------------------
(* The inductive invariant *)

Nodes  == [generation : Nat, operation : {"enable", "disable"}, success : BOOLEAN,
           enabled : BOOLEAN]
States == Terminal \cup {"none", "recording", "saving"}
Panels == [operation : Operations, pending : BOOLEAN, manualEnable : BOOLEAN,
           manualGeneration : Nat, startGeneration : Nat,
           request : Ids \cup {NoId}, pauseControl : BOOLEAN, controlDone : BOOLEAN,
           recordDone : BOOLEAN,
           control : Answers, record : Answers, fallback : Answers \cup {"started"},
           recordPending : BOOLEAN, manualStart : BOOLEAN, manualRequest : Ids \cup {NoId},
           ids : Ids \cup {0},
           state : {"idle", "recording", "saving"}, recording : Ids \cup {NoId}]
Stops  == {"Stopping", "Discarding"}

\* An enable by hand is asked for between two combined operations, or beside the roll-back
\* of a recording.
PanelInv(p) ==
  /\ p \in Panels
  /\ p.manualEnable => p.pending /\ p.operation \in {"Idle", "RollingBack"}
  /\ p.operation = "RollingBack" /\ p.pauseControl => ~p.manualEnable

\* Who waits for a call, and which call it can be.
Fits(q, p) ==
  /\ q.who = "nobody" => q.call \in Effects \cup {"cancel_request"}
  /\ q.who = "start" => p.operation = "Starting"
  /\ q.who = "stop" => p.operation \in Stops
  /\ q.who = "recovery" => p.operation = "RollingBack"
  /\ q.call = "query" => q.who = "recovery" /\ q.id = p.request
  /\ q.call \in {"start", "query", "cancel_request"} => q.id \in Ids
  /\ q.call \in {"stop", "cancel"} => q.id \in Ids \cup {NoId}
  /\ q.call \in {"ask", "read"} /\ q.enable =>
       q.floor = 0 /\ (q.who = "start" \/ (q.who = "manual" /\ p.manualEnable))
  /\ q.call = "set" /\ q.who = "stop" => ~q.enable
  /\ q.call \in {"home", "homed"} /\ q.who = "manual" => ~p.manualEnable

\* What was read of the node is old, and an enable is not ahead of it by more than one.
Dated(q, n) ==
  /\ q.call = "read" => /\ q.generation <= n.generation
                        /\ n.enabled /\ ~q.enabled => q.generation < n.generation
  /\ q.call = "set" /\ q.enable => q.generation <= n.generation + 1

\* The calls of a stop: a pause is beyond every enable, and an answer tells the truth.
StopFits(q, Q, n) ==
  q.who = "stop" => /\ q.call = "read" => Past(Q, q.generation + 1)
                    /\ q.call = "set" => Past(Q, q.generation)
                    /\ q.call \in {"homed", "control"} /\ q.ok => Fenced(Q, n)
Stopped(Q, p, n) ==
  p.operation \in Stops => /\ "ok" \in {p.control, p.fallback} => Fenced(Q, n)
                           /\ \A q \in Q : StopFits(q, Q, n)

OneManual(Q) == \A q, r \in Q : q.who = "manual" /\ r.who = "manual" => q = r

CallsInv(Q, p, n) ==
  /\ Q \subseteq Calls
  /\ \A q \in Q : Fits(q, p) /\ Dated(q, n)
  /\ OneManual(Q) /\ Stopped(Q, p, n)

\* What a roll-back has confirmed stays true.
PausedFrom(n, g) == n.generation >= g /\ (n.enabled => n.generation > g)
Confirmed(p, n, r) ==
  p.operation = "RollingBack" =>
    /\ IF p.recordDone THEN p.request # NoId => r[p.request] \in Terminal ELSE p.request # NoId
    /\ p.controlDone /\ p.pauseControl => PausedFrom(n, p.startGeneration)

Inv(p, Q, n, r) ==
  PanelInv(p) /\ CallsInv(Q, p, n) /\ Confirmed(p, n, r) /\ n \in Nodes /\ r \in [Ids -> States]

\* The presses that are left bound the identifiers.
Counted ==
  /\ presses \in [Buttons -> Nat] /\ losses \in 0 .. MaxLosses
  /\ panel.ids + presses["combined"] + presses["record"] <= Presses["combined"] + Presses["record"]

IInv == Inv(panel, calls, node, recorder) /\ Counted

-----------------------------------------------------------------------------
(* Calls *)

Asks  == [call : {"ask"}, who : Waits, enable : BOOLEAN, floor : Nat]
Reads == [call : {"read"}, who : Waits, enable : BOOLEAN, floor : Nat, generation : Nat,
          enabled : BOOLEAN]
Sets  == [call : {"set"}, who : Waits, enable : BOOLEAN, generation : Nat]
Remote  == {"start", "stop", "cancel", "home", "cancel_request", "query", "status"}
Remotes == [call : Remote, who : Waits, id : Nat]
Replied == {"control", "homed", "started", "ended"}
Replies == [call : Replied, who : Waits, ok : BOOLEAN]

\* The call tells the kind of a record.
LEMMA KindIs ==
  ASSUME NEW q \in Calls
  PROVE  /\ q.who \in Waits
         /\ q.call = "ask" => q \in Asks
         /\ q.call = "read" => q \in Reads
         /\ q.call = "set" => q \in Sets
         /\ q.call \in Remote => q \in Remotes
         /\ q.call \in Replied => q \in Replies
         /\ q.call \in {"ask", "read", "set"} \cup Remote \cup Replied
<1>1. q \in Asks \/ q \in Reads \/ q \in Sets \/ q \in Remotes \/ q \in Replies
  BY DEF Calls, Asks, Reads, Sets, Remotes, Remote, Replies, Replied
<1>2. CASE q \in Asks
  BY <1>2 DEF Asks, Remote, Replied
<1>3. CASE q \in Reads
  BY <1>3 DEF Reads, Remote, Replied
<1>4. CASE q \in Sets
  BY <1>4 DEF Sets, Remote, Replied
<1>5. CASE q \in Remotes
  BY <1>5 DEF Remotes, Remote, Replied
<1>6. CASE q \in Replies
  BY <1>6 DEF Replies, Remote, Replied
<1>7. QED
  BY <1>1, <1>2, <1>3, <1>4, <1>5, <1>6

\* The record of each kind is a call.
LEMMA CallsAre == Calls = Asks \cup Reads \cup Sets \cup Remotes \cup Replies
BY DEF Calls, Asks, Reads, Sets, Remotes, Remote, Replies, Replied

\* What the constructors make.
LEMMA RequestIs ==
  ASSUME NEW w \in Waits, NEW e \in BOOLEAN, NEW f \in Nat
  PROVE  LET q == RequestControl(w, e, f)
         IN  q \in Calls /\ q.call = "ask" /\ q.who = w /\ q.enable = e /\ q.floor = f
BY CallsAre DEF RequestControl, Asks

\* The same of a request to pause.
LEMMA PauseIs ==
  ASSUME NEW w \in Waits
  PROVE  LET q == RequestControl(w, FALSE, 0)
         IN  q \in Calls /\ q.call = "ask" /\ q.who = w /\ ~q.enable
BY CallsAre DEF RequestControl, Asks

\* What goes to the recorder, or to the action server.
LEMMA RecordingIs ==
  ASSUME NEW c \in Remote, NEW w \in Waits, NEW i \in Nat
  PROVE  LET q == Recording(c, w, i)
         IN  q \in Calls /\ q.call = c /\ q.who = w /\ q.id = i
BY CallsAre DEF Recording, Remotes

\* An answer on its way back.
LEMMA AnsweredIs ==
  ASSUME NEW c \in Replied, NEW w \in Waits, NEW o \in BOOLEAN
  PROVE  LET q == Answered(c, w, o)
         IN  q \in Calls /\ q.call = c /\ q.who = w /\ q.ok = o
BY CallsAre DEF Answered, Replies

\* The same call, with nobody waiting for it.
Unwaited(q, y) ==
  /\ y \in Calls /\ y.call = q.call /\ y.who = "nobody" /\ q.call \in Effects
  /\ q.call = "set" => y.enable = q.enable /\ y.generation = q.generation
  /\ q.call # "set" => y.id = q.id

\* An abandoned call takes the effect it would have had.
LEMMA UnwaitedIs ==
  ASSUME NEW q \in Calls, q.call \in Effects
  PROVE  Unwaited(q, [q EXCEPT !.who = "nobody"])
<1>1. CASE q.call = "set"
  <2>1. q \in Sets
    BY <1>1, KindIs
  <2>2. [q EXCEPT !.who = "nobody"] \in Sets
    BY <2>1 DEF Sets, Waits
  <2>3. QED
    BY <1>1, <2>1, <2>2, CallsAre DEF Sets, Unwaited, Effects
<1>2. CASE q.call # "set"
  <2>1. q \in Remotes /\ q.call \in Remote
    BY <1>2, KindIs DEF Effects, Remote
  <2>2. [q EXCEPT !.who = "nobody"] \in Remotes
    BY <2>1 DEF Remotes, Waits
  <2>3. QED
    BY <1>2, <2>1, <2>2, CallsAre DEF Remotes, Unwaited
<1>3. QED
  BY <1>1, <1>2

\* What becomes of the calls somebody waited for.
LEMMA SupersededIs ==
  ASSUME NEW Q, Q \subseteq Calls, NEW W, "nobody" \notin W
  PROVE  /\ Superseded(Q, W) \subseteq Calls
         /\ \A y \in Superseded(Q, W) : y.who \notin W
         /\ \A y \in Superseded(Q, W) : y \in Q \/ \E q \in Q : q.who \in W /\ Unwaited(q, y)
         /\ \A q \in Q : q.who \notin W => q \in Superseded(Q, W)
<1>1. ASSUME NEW y \in Superseded(Q, W)
      PROVE  \/ y \in Q /\ y.who \notin W
             \/ \E q \in Q : q.who \in W /\ Unwaited(q, y)
  <2>1. CASE y \in {q \in Q : q.who \notin W}
    BY <2>1
  <2>2. CASE y \in {[q EXCEPT !.who = "nobody"] :
                       q \in {r \in Q : r.who \in W /\ r.call \in Effects}}
    <3>1. PICK q \in Q : q.who \in W /\ q.call \in Effects /\ y = [q EXCEPT !.who = "nobody"]
      BY <2>2
    <3>2. Unwaited(q, y)
      BY <3>1, UnwaitedIs
    <3>3. QED
      BY <3>1, <3>2
  <2>3. QED
    BY <1>1, <2>1, <2>2 DEF Superseded
<1>2. \A y \in Superseded(Q, W) : y.who \notin W /\ y \in Calls
  BY <1>1 DEF Unwaited
<1>3. \A q \in Q : q.who \notin W => q \in Superseded(Q, W)
  BY DEF Superseded
<1>4. QED
  BY <1>1, <1>2, <1>3

-----------------------------------------------------------------------------
(* What keeps the invariant of the calls *)

\* The enables of one set are among those of another.
NoNewEnables(R, Q) ==
  \A y \in R : y.call = "set" /\ y.enable =>
    \E q \in Q : q.call = "set" /\ q.enable /\ q.generation = y.generation

\* What is beyond every enable under way stays so while none is added.
LEMMA PastStays ==
  ASSUME NEW Q, NEW R, NoNewEnables(R, Q), NEW n
  PROVE  /\ \A g : Past(Q, g) => Past(R, g)
         /\ Fenced(Q, n) => Fenced(R, n)
         /\ \A q : StopFits(q, Q, n) => StopFits(q, R, n)
<1>1. \A g : Past(Q, g) => Past(R, g)
  BY DEF Past, Enables, NoNewEnables
<1>2. QED
  BY <1>1 DEF Fenced, StopFits

\* Fewer calls.
LEMMA FewerKeep ==
  ASSUME NEW Q, NEW R \in SUBSET Q, NEW p, NEW n, CallsInv(Q, p, n)
  PROVE  CallsInv(R, p, n)
<1>1. NoNewEnables(R, Q)
  BY DEF NoNewEnables
<1>2. Stopped(R, p, n)
  BY <1>1, PastStays DEF CallsInv, Stopped
<1>3. QED
  BY <1>2 DEF CallsInv, OneManual

\* Nobody waits any more.
LEMMA SupersededKeep ==
  ASSUME NEW Q, NEW W, "nobody" \notin W, NEW p, NEW n, CallsInv(Q, p, n)
  PROVE  CallsInv(Superseded(Q, W), p, n)
<1> DEFINE R == Superseded(Q, W)
<1>1. /\ Q \subseteq Calls /\ R \subseteq Calls
      /\ \A y \in R : y \in Q \/ \E q \in Q : q.who \in W /\ Unwaited(q, y)
  BY SupersededIs DEF CallsInv
<1> HIDE DEF R
<1>2. NoNewEnables(R, Q)
  BY <1>1 DEF NoNewEnables, Unwaited
<1>3. ASSUME NEW y \in R  PROVE  (Fits(y, p) /\ Dated(y, n) /\ StopFits(y, R, n)) \/ y \in Q
  <2>1. CASE y \in Q
    BY <2>1
  <2>2. ASSUME NEW q \in Q, q.who \in W, Unwaited(q, y)
        PROVE  Fits(y, p) /\ Dated(y, n) /\ StopFits(y, R, n)
    <3>1. Fits(q, p) /\ Dated(q, n)
      BY DEF CallsInv
    <3>2. y.who = "nobody" /\ y.call = q.call /\ q.call \in Effects
      BY <2>2 DEF Unwaited
    <3>3. Fits(y, p)
      BY <2>2, <3>1, <3>2 DEF Fits, Unwaited, Effects
    <3>4. Dated(y, n)
      BY <2>2, <3>1, <3>2 DEF Dated, Unwaited, Effects
    <3>5. QED
      BY <3>2, <3>3, <3>4 DEF StopFits
  <2>3. QED
    BY <1>1, <2>1, <2>2
<1>4. \A y \in R : Fits(y, p) /\ Dated(y, n)
  BY <1>3 DEF CallsInv
<1>5. OneManual(R)
  BY <1>1 DEF CallsInv, OneManual, Unwaited
<1>6. Stopped(R, p, n)
  BY <1>2, <1>3, PastStays DEF CallsInv, Stopped
<1>7. CallsInv(R, p, n)
  BY <1>1, <1>4, <1>5, <1>6 DEF CallsInv
<1>8. QED
  BY <1>7 DEF R

\* One call more, no enable beside a stop.
LEMMA AddedKeep ==
  ASSUME NEW Q, NEW q \in Calls, NEW p, NEW n, CallsInv(Q, p, n),
         Fits(q, p), Dated(q, n),
         q.who = "manual" => \A r \in Q : r.who # "manual",
         p.operation \in Stops => StopFits(q, Q, n) /\ ~(q.call = "set" /\ q.enable)
  PROVE  CallsInv(Q \cup {q}, p, n)
<1> DEFINE R == Q \cup {q}
<1>1. R \subseteq Calls /\ \A y \in R : Fits(y, p) /\ Dated(y, n)
  BY DEF CallsInv
<1>2. OneManual(R)
  BY DEF CallsInv, OneManual
<1>3. Stopped(R, p, n)
  <2>1. SUFFICES ASSUME p.operation \in Stops
                 PROVE  /\ "ok" \in {p.control, p.fallback} => Fenced(R, n)
                        /\ \A y \in R : StopFits(y, R, n)
    BY DEF Stopped
  <2>2. NoNewEnables(R, Q)
    BY <2>1 DEF NoNewEnables
  <2>3. \A y \in R : StopFits(y, Q, n)
    BY <2>1 DEF CallsInv, Stopped
  <2> HIDE DEF R
  <2>4. QED
    BY <2>1, <2>2, <2>3, PastStays DEF CallsInv, Stopped
<1>4. QED
  BY <1>1, <1>2, <1>3 DEF CallsInv

\* The panel goes on: a new operation finds no call of the one before.
LEMMA PanelKeeps ==
  ASSUME NEW Q, NEW p, NEW s, NEW n, CallsInv(Q, p, n),
         s.operation # p.operation \/ s.request # p.request => \A q \in Q : q.who \notin Waiters,
         p.manualEnable # s.manualEnable => \A q \in Q : q.who # "manual",
         s.operation \in Stops => ("ok" \in {s.control, s.fallback} => Fenced(Q, n))
  PROVE  CallsInv(Q, s, n)
<1>1. ASSUME NEW q \in Q  PROVE Fits(q, s)
  <2>1. Fits(q, p)
    BY DEF CallsInv
  <2>2. CASE s.operation # p.operation \/ s.request # p.request
    BY <2>1, <2>2 DEF Fits, Waiters
  <2>3. CASE s.operation = p.operation /\ s.request = p.request
    BY <2>1, <2>3 DEF Fits
  <2>4. QED
    BY <2>2, <2>3
<1>2. Stopped(Q, s, n)
  BY DEF CallsInv, Stopped, StopFits, Waiters
<1>3. QED
  BY <1>1, <1>2 DEF CallsInv

-----------------------------------------------------------------------------
(* What the parts of a step keep *)

\* Nothing is started by a call of R that is not by one of Q.
Quiet(R, Q) ==
  /\ NoNewEnables(R, Q)
  /\ \A y \in R : y.call = "start" => \E q \in Q : q.call = "start" /\ q.id = y.id

\* Nothing starts by losing or answering a call.
LEMMA QuietFewer ==
  ASSUME NEW Q, NEW R \in SUBSET Q
  PROVE  Quiet(R, Q)
BY DEF Quiet, NoNewEnables

\* Two quiet changes one after the other are quiet.
LEMMA QuietThen ==
  ASSUME NEW P, NEW R, NEW Q, Quiet(P, R), Quiet(R, Q)
  PROVE  Quiet(P, Q)
<1>1. NoNewEnables(P, Q)
  BY DEF Quiet, NoNewEnables
<1>2. QED
  BY <1>1 DEF Quiet

\* Questions, cancellations and answers may be added.
LEMMA QuietAdded ==
  ASSUME NEW R, NEW Q, Quiet(R, Q), NEW q, q.call \notin {"set", "start"} \/ q \in Q
  PROVE  Quiet(R \cup {q}, Q)
BY DEF Quiet, NoNewEnables

\* To abandon calls starts nothing.
LEMMA QuietSuperseded ==
  ASSUME NEW Q, Q \subseteq Calls, NEW W, "nobody" \notin W
  PROVE  Quiet(Superseded(Q, W), Q)
<1> DEFINE R == Superseded(Q, W)
<1>1. \A y \in R : y \in Q \/ \E q \in Q : q.who \in W /\ Unwaited(q, y)
  BY SupersededIs
<1> HIDE DEF R
<1>2. NoNewEnables(R, Q)
  BY <1>1 DEF NoNewEnables, Unwaited
<1>3. \A y \in R : y.call = "start" => \E q \in Q : q.call = "start" /\ q.id = y.id
  BY <1>1 DEF Unwaited
<1>4. Quiet(R, Q)
  BY <1>2, <1>3 DEF Quiet
<1>5. QED
  BY <1>4 DEF R

\* A round of a roll-back.
LEMMA AdvanceKeep ==
  ASSUME NEW p \in Panels, NEW Q, NEW n, CallsInv(Q, p, n),
         p.operation = "RollingBack", ~p.recordDone => p.request # NoId,
         NEW R, R = AdvanceCombinedRecovery(p, Q)
  PROVE  CallsInv(R, p, n) /\ Quiet(R, Q)
<1> DEFINE A == {q \in Q : p.controlDone \/ q.call \notin {"ask", "read"}}
           c == Recording("cancel_request", "nobody", p.request)
           y == Recording("query", "recovery", p.request)
           a == RequestControl("recovery", FALSE, 0)
           B == IF p.recordDone THEN A ELSE (A \cup {c}) \cup {y}
<1>1. R = IF p.controlDone THEN B ELSE B \cup {a}
  BY DEF AdvanceCombinedRecovery
<1>2. CallsInv(A, p, n) /\ Quiet(A, Q)
  BY FewerKeep, QuietFewer
<1>3. "recovery" \in Waits /\ "nobody" \in Waits /\ {"cancel_request", "query"} \subseteq Remote
  BY DEF Waits, Remote
<1>4. CallsInv(B, p, n) /\ Quiet(B, Q)
  <2>1. CASE p.recordDone
    BY <1>2, <2>1
  <2>2. CASE ~p.recordDone
    <3>1. p.request \in Ids /\ p.request \in Nat
      BY <2>2, PanelAssumption DEF Panels, Ids, NoId, Buttons
    <3>2. c \in Calls /\ c.call = "cancel_request" /\ c.who = "nobody" /\ c.id = p.request
      BY <1>3, <3>1, RecordingIs
    <3>3. y \in Calls /\ y.call = "query" /\ y.who = "recovery" /\ y.id = p.request
      BY <1>3, <3>1, RecordingIs
    <3> HIDE DEF A, c, y
    <3>4. Fits(c, p) /\ Dated(c, n) /\ Fits(y, p) /\ Dated(y, n)
      BY <3>1, <3>2, <3>3 DEF Fits, Dated
    <3>5. CallsInv(A \cup {c}, p, n) /\ Quiet(A \cup {c}, Q)
      BY <1>2, <3>2, <3>4, AddedKeep, QuietAdded DEF Stops
    <3>6. CallsInv((A \cup {c}) \cup {y}, p, n) /\ Quiet((A \cup {c}) \cup {y}, Q)
      BY <3>5, <3>3, <3>4, AddedKeep, QuietAdded DEF Stops
    <3>7. QED
      BY <2>2, <3>6
  <2>3. QED
    BY <2>1, <2>2
<1>5. a \in Calls /\ a.call = "ask" /\ a.who = "recovery" /\ ~a.enable
  BY <1>3, PauseIs
<1> HIDE DEF B, a
<1>6. Fits(a, p) /\ Dated(a, n)
  BY <1>5 DEF Fits, Dated
<1>7. CallsInv(B \cup {a}, p, n) /\ Quiet(B \cup {a}, Q)
  BY <1>4, <1>5, <1>6, AddedKeep, QuietAdded DEF Stops
<1>8. QED
  BY <1>1, <1>4, <1>7

\* No call of R is waited for by somebody of W.
NoneOf(R, W) == \A q \in R : q.who \notin W

\* A roll-back begins with the calls of a panel that was o, whatever it was at.
LEMMA RollbackKeep ==
  ASSUME NEW o, NEW p \in Panels, NEW Q, NEW n, NEW r, CallsInv(Q, o, n),
         p.manualEnable => p.pending /\ ~p.pauseControl,
         o.manualEnable # p.manualEnable => NoneOf(Q, {"manual"}),
         BeginCombinedRollback(p, Q)
  PROVE  /\ PanelInv(panel') /\ CallsInv(calls', panel', n) /\ Confirmed(panel', n, r)
         /\ Quiet(calls', Q) /\ panel'.operation = "RollingBack" /\ panel'.ids = p.ids
<1> DEFINE d == p.request = NoId
           c == ~p.pauseControl
           s == [p EXCEPT !.operation = "RollingBack", !.recordPending = FALSE,
                          !.recordDone = d, !.controlDone = c]
           S == Superseded(Q, Waiters)
<1>1. panel' = s /\ calls' = AdvanceCombinedRecovery(s, S)
  BY DEF BeginCombinedRollback
<1>2. /\ s \in Panels /\ s.operation = "RollingBack" /\ s.recordDone = (p.request = NoId)
      /\ s.controlDone = ~p.pauseControl /\ s.request = p.request /\ s.pauseControl = p.pauseControl
      /\ s.manualEnable = p.manualEnable /\ s.pending = p.pending /\ s.ids = p.ids
  <2>1. d \in BOOLEAN /\ c \in BOOLEAN
    BY DEF Panels
  <2> HIDE DEF d, c
  <2>2. s \in Panels
    BY <2>1 DEF Panels, Operations
  <2>3. s.recordDone = d
    BY <2>1 DEF Panels
  <2>4. s.controlDone = c
    BY <2>1 DEF Panels
  <2>5. /\ s.operation = "RollingBack" /\ s.request = p.request /\ s.pauseControl = p.pauseControl
        /\ s.manualEnable = p.manualEnable /\ s.pending = p.pending /\ s.ids = p.ids
    BY <2>1 DEF Panels
  <2>6. QED
    BY <2>2, <2>3, <2>4, <2>5 DEF d, c
<1>3. "nobody" \notin Waiters /\ Q \subseteq Calls
  BY DEF Waiters, CallsInv
<1>4. CallsInv(S, o, n) /\ Quiet(S, Q) /\ NoneOf(S, Waiters)
  <2>1. CallsInv(S, o, n)
    BY <1>3, SupersededKeep
  <2>2. Quiet(S, Q)
    BY <1>3, QuietSuperseded
  <2>3. QED
    BY <1>3, <2>1, <2>2, SupersededIs DEF NoneOf
<1>5. o.manualEnable # s.manualEnable => NoneOf(S, {"manual"})
  <2>1. \A y \in S : y \in Q \/ y.who = "nobody"
    BY <1>3, SupersededIs DEF Unwaited
  <2>2. QED
    BY <1>2, <2>1 DEF NoneOf
<1> HIDE DEF s, S
<1>6. CallsInv(S, s, n)
  BY <1>2, <1>4, <1>5, PanelKeeps DEF NoneOf, Stops
<1>7. CallsInv(calls', s, n) /\ Quiet(calls', S)
  BY <1>1, <1>2, <1>6, AdvanceKeep
<1>8. PanelInv(s) /\ Confirmed(s, n, r)
  BY <1>2 DEF PanelInv, Confirmed
<1>9. Quiet(calls', Q)
  BY <1>4, <1>7, QuietThen
<1>10. QED
  BY <1>1, <1>2, <1>7, <1>8, <1>9

\* A combined operation ends.
LEMMA FinishKeep ==
  ASSUME NEW p, NEW Q, NEW n, NEW r, PanelInv(p), CallsInv(Q, p, n), FinishCombined(p, Q)
  PROVE  /\ PanelInv(panel') /\ CallsInv(calls', panel', n) /\ Confirmed(panel', n, r)
         /\ Quiet(calls', Q) /\ panel'.operation = "Idle" /\ panel'.ids = p.ids
         /\ panel'.fallback = p.fallback
<1> DEFINE s == [p EXCEPT !.operation = "Idle"]
           S == Superseded(Q, Waiters)
<1>1. panel' = s /\ calls' = S
  BY DEF FinishCombined
<1>2. /\ s \in Panels /\ s.operation = "Idle" /\ s.manualEnable = p.manualEnable
      /\ s.pending = p.pending /\ s.ids = p.ids /\ s.fallback = p.fallback
  BY DEF PanelInv, Panels, Operations
<1>3. "nobody" \notin Waiters /\ Q \subseteq Calls
  BY DEF Waiters, CallsInv
<1>4. CallsInv(S, p, n)
  BY <1>3, SupersededKeep
<1>5. Quiet(S, Q)
  BY <1>3, QuietSuperseded
<1>6. NoneOf(S, Waiters)
  BY <1>3, SupersededIs DEF NoneOf
<1> HIDE DEF s, S
<1>7. CallsInv(S, s, n)
  BY <1>2, <1>4, <1>6, PanelKeeps DEF NoneOf, Stops
<1>8. PanelInv(s) /\ Confirmed(s, n, r)
  BY <1>2 DEF PanelInv, Confirmed
<1>9. QED
  BY <1>1, <1>2, <1>5, <1>7, <1>8

\* What a step that is not of the roll-back leaves alone.
SameRecovery(p, s) ==
  /\ s.operation = p.operation /\ s.request = p.request /\ s.recordDone = p.recordDone
  /\ s.controlDone = p.controlDone /\ s.pauseControl = p.pauseControl
  /\ p.operation = "RollingBack" => s.startGeneration = p.startGeneration

\* What was confirmed is kept by a step that leaves the operation and its results alone.
LEMMA SameConfirmed ==
  ASSUME NEW p, NEW s, SameRecovery(p, s), NEW n, NEW r, Confirmed(p, n, r)
  PROVE  Confirmed(s, n, r)
BY DEF SameRecovery, Confirmed

\* A request to record by hand.
LEMMA RecordingActionKeep ==
  ASSUME NEW p, NEW Q, NEW n, NEW d \in BOOLEAN, PanelInv(p), CallsInv(Q, p, n),
         ~d /\ p.state # "recording" => p.ids + 1 \in Ids,
         RecordingAction(p, Q, d)
  PROVE  /\ PanelInv(panel') /\ CallsInv(calls', panel', n) /\ SameRecovery(p, panel')
         /\ d \/ p.state = "recording" => Quiet(calls', Q) /\ panel'.ids = p.ids
         /\ panel'.ids \in {p.ids, p.ids + 1} /\ panel'.fallback = p.fallback
         /\ \A q \in Q : q.who # "record" => q \in calls'
<1> DEFINE starts == ~d /\ p.state # "recording"
           i == IF starts THEN p.ids + 1 ELSE p.ids
           m == IF starts THEN p.ids + 1 ELSE p.manualRequest
           s == [p EXCEPT !.recordPending = TRUE, !.manualStart = starts,
                          !.ids = i, !.manualRequest = m]
           S == Superseded(Q, {"record"})
           q == IF starts THEN Recording("start", "record", p.ids + 1)
                ELSE Recording(IF d THEN "cancel" ELSE "stop", "record", p.recording)
<1>1. panel' = s /\ calls' = S \cup {q}
  BY DEF RecordingAction
<1>2. p \in Panels
  BY DEF PanelInv
<1>3. /\ s \in Panels /\ SameRecovery(p, s) /\ s.manualEnable = p.manualEnable
      /\ s.pending = p.pending /\ s.fallback = p.fallback /\ s.control = p.control
      /\ s.ids = IF starts THEN p.ids + 1 ELSE p.ids
  <2>1. starts \in BOOLEAN /\ i \in Ids \cup {0} /\ m \in Ids \cup {NoId}
    BY <1>2 DEF Panels
  <2> HIDE DEF starts, i, m
  <2>2. /\ s \in Panels /\ SameRecovery(p, s) /\ s.manualEnable = p.manualEnable
        /\ s.pending = p.pending /\ s.fallback = p.fallback /\ s.control = p.control
        /\ s.ids = i
    BY <1>2, <2>1 DEF Panels, SameRecovery
  <2>3. QED
    BY <2>2 DEF i
<1>4. Q \subseteq Calls
  BY DEF CallsInv
<1>5. CallsInv(S, p, n)
  BY SupersededKeep
<1>6. Quiet(S, Q) /\ \A y \in Q : y.who # "record" => y \in S
  BY <1>4, QuietSuperseded, SupersededIs
<1>7. /\ q \in Calls /\ q.who = "record"
      /\ IF starts THEN q.call = "start" /\ q.id \in Ids
         ELSE q.call \in {"stop", "cancel"} /\ q.id \in Ids \cup {NoId}
  <2>1. /\ "record" \in Waits /\ {"start", "cancel", "stop"} \subseteq Remote
        /\ Ids \cup {NoId} \subseteq Nat
    BY PanelAssumption DEF Waits, Remote, Ids, NoId, Buttons
  <2>2. CASE starts
    BY <2>1, <2>2, RecordingIs
  <2>3. CASE ~starts
    <3>1. p.recording \in Ids \cup {NoId}
      BY <1>2 DEF Panels
    <3>2. QED
      BY <2>1, <2>3, <3>1, RecordingIs
  <2>4. QED
    BY <2>2, <2>3
<1> HIDE DEF s, S, q
<1>8. Fits(q, p) /\ Dated(q, n)
  BY <1>7 DEF Fits, Dated
<1>9. CallsInv(S \cup {q}, p, n)
  BY <1>5, <1>7, <1>8, AddedKeep DEF StopFits
<1>10. CallsInv(S \cup {q}, s, n)
  <2>1. p.operation \in Stops => ("ok" \in {p.control, p.fallback} => Fenced(S \cup {q}, n))
    BY <1>9 DEF CallsInv, Stopped
  <2>2. QED
    BY <1>3, <1>9, <2>1, PanelKeeps DEF SameRecovery
<1>11. PanelInv(s)
  BY <1>3 DEF PanelInv, SameRecovery
<1>12. ~starts => Quiet(S \cup {q}, Q)
  BY <1>6, <1>7, QuietAdded
<1>13. QED
  BY <1>1, <1>3, <1>6, <1>10, <1>11, <1>12

\* A request to follow or to pause, by hand.
LEMMA ManualKeep ==
  ASSUME NEW e \in BOOLEAN, NEW n, PanelInv(panel), CallsInv(calls, panel, n),
         e => panel.operation = "Idle", ManualControl(e)
  PROVE  /\ PanelInv(panel') /\ CallsInv(calls', panel', n) /\ SameRecovery(panel, panel')
         /\ Quiet(calls', calls) /\ panel'.ids = panel.ids
<1> DEFINE s == [panel EXCEPT !.pending = TRUE, !.manualEnable = e, !.manualGeneration = 0]
           S == Superseded(calls, {"manual"})
           q == RequestControl("manual", e, Floor(e))
<1>1. panel' = s /\ calls' = S \cup {q}
  BY DEF ManualControl
<1>2. panel \in Panels
  BY DEF PanelInv
<1>3. /\ s \in Panels /\ SameRecovery(panel, s) /\ s.manualEnable = e /\ s.pending
      /\ s.fallback = panel.fallback /\ s.control = panel.control /\ s.ids = panel.ids
  BY <1>2 DEF Panels, SameRecovery
<1>4. calls \subseteq Calls
  BY DEF CallsInv
<1>5. CallsInv(S, panel, n)
  BY SupersededKeep
<1>6. Quiet(S, calls) /\ NoneOf(S, {"manual"})
  BY <1>4, QuietSuperseded, SupersededIs DEF NoneOf
<1>7. q \in Calls /\ q.who = "manual" /\ q.call = "ask" /\ q.enable = e /\ (e => q.floor = 0)
  <2>1. "manual" \in Waits /\ Floor(e) \in Nat /\ (e => Floor(e) = 0)
    BY <1>2 DEF Waits, Floor, Panels
  <2>2. QED
    BY <2>1, RequestIs
<1> HIDE DEF s, S, q
<1>8. CallsInv(S, s, n)
  <2>1. panel.operation \in Stops => ("ok" \in {panel.control, panel.fallback} => Fenced(S, n))
    BY <1>5 DEF CallsInv, Stopped
  <2>2. QED
    BY <1>3, <1>5, <1>6, <2>1, PanelKeeps DEF SameRecovery, NoneOf
<1>9. Fits(q, s) /\ Dated(q, n) /\ StopFits(q, S, n)
  BY <1>3, <1>7 DEF Fits, Dated, StopFits
<1>10. CallsInv(S \cup {q}, s, n)
  BY <1>6, <1>7, <1>8, <1>9, AddedKeep DEF NoneOf
<1>11. PanelInv(s)
  BY <1>3 DEF PanelInv, SameRecovery
<1>12. Quiet(S \cup {q}, calls)
  BY <1>6, <1>7, QuietAdded
<1>13. QED
  BY <1>1, <1>3, <1>10, <1>11, <1>12

\* The answers to a combined start are complete, or not.
LEMMA StartKeep ==
  ASSUME NEW p, NEW Q, NEW n, NEW r, PanelInv(p), CallsInv(Q, p, n), p.operation = "Starting",
         EvaluateCombinedStart(p, Q)
  PROVE  /\ PanelInv(panel') /\ CallsInv(calls', panel', n) /\ Confirmed(panel', n, r)
         /\ panel'.ids = p.ids
<1>1. CASE panel' = p /\ calls' = Q
  BY <1>1 DEF Confirmed
<1>2. CASE FinishCombined(p, Q)
  BY <1>2, FinishKeep
<1>3. CASE BeginCombinedRollback(p, Q)
  <2>1. p \in Panels /\ ~p.manualEnable
    BY DEF PanelInv
  <2>2. QED
    BY <1>3, <2>1, RollbackKeep
<1>4. QED
  BY <1>1, <1>2, <1>3 DEF EvaluateCombinedStart

\* The answers to a combined stop are complete, or a pause is tried instead.
LEMMA StopKeep ==
  ASSUME NEW p, NEW Q, NEW n, NEW r, PanelInv(p), CallsInv(Q, p, n), p.operation \in Stops,
         EvaluateCombinedStop(p, Q)
  PROVE  /\ PanelInv(panel') /\ CallsInv(calls', panel', n) /\ Confirmed(panel', n, r)
         /\ panel'.ids = p.ids
         /\ panel'.operation = "Idle" => panel'.fallback = "failed" \/ Fenced(calls', n)
<1>0. p \in Panels /\ p.operation # "RollingBack" /\ p.operation # "Idle"
  BY DEF PanelInv, Stops
<1>1. CASE p.control = "failed" /\ p.fallback = "none"
  <2> DEFINE s == [p EXCEPT !.fallback = "started"]
             a == RequestControl("stop", FALSE, 0)
  <2>1. panel' = s /\ calls' = Q \cup {a}
    BY <1>1 DEF EvaluateCombinedStop
  <2>2. /\ s \in Panels /\ s.fallback = "started" /\ s.control = p.control
        /\ s.operation = p.operation /\ s.request = p.request /\ s.ids = p.ids
        /\ s.manualEnable = p.manualEnable /\ s.pending = p.pending
        /\ s.pauseControl = p.pauseControl
    BY <1>0 DEF Panels
  <2>3. a \in Calls /\ a.call = "ask" /\ a.who = "stop" /\ ~a.enable
    BY PauseIs DEF Waits
  <2> HIDE DEF s, a
  <2>4. CallsInv(Q, s, n)
    BY <1>1, <2>2, PanelKeeps
  <2>5. Fits(a, s) /\ Dated(a, n) /\ StopFits(a, Q, n)
    BY <2>2, <2>3 DEF Fits, Dated, StopFits
  <2>6. CallsInv(Q \cup {a}, s, n)
    BY <2>3, <2>4, <2>5, AddedKeep
  <2>7. PanelInv(s) /\ Confirmed(s, n, r)
    BY <1>0, <2>2 DEF PanelInv, Confirmed
  <2>8. QED
    BY <1>0, <2>1, <2>2, <2>6, <2>7
<1>2. CASE ~(p.control = "failed" /\ p.fallback = "none") /\ Unanswered(p)
  <2>1. panel' = p /\ calls' = Q
    BY <1>2 DEF EvaluateCombinedStop
  <2>2. QED
    BY <1>0, <2>1 DEF Confirmed
<1>3. CASE ~(p.control = "failed" /\ p.fallback = "none") /\ ~Unanswered(p)
  <2>1. FinishCombined(p, Q)
    BY <1>3 DEF EvaluateCombinedStop
  <2>2. "ok" \in {p.control, p.fallback} => Fenced(Q, n)
    BY DEF CallsInv, Stopped
  <2>3. "ok" \in {p.control, p.fallback} \/ p.fallback = "failed"
    BY <1>0, <1>3 DEF Unanswered, Panels, Answers
  <2>4. /\ PanelInv(panel') /\ CallsInv(calls', panel', n) /\ Confirmed(panel', n, r)
        /\ Quiet(calls', Q) /\ panel'.ids = p.ids /\ panel'.fallback = p.fallback
    BY <2>1, FinishKeep
  <2>5. Fenced(Q, n) => Fenced(calls', n)
    BY <2>4, PastStays DEF Quiet
  <2>6. QED
    BY <2>2, <2>3, <2>4, <2>5
<1>4. QED
  BY <1>1, <1>2, <1>3

\* One part of a roll-back is confirmed, or both are.
LEMMA EvaluateKeep ==
  ASSUME NEW p, NEW Q, NEW n, NEW r, PanelInv(p), CallsInv(Q, p, n), Confirmed(p, n, r),
         EvaluateCombinedRollback(p, Q)
  PROVE  /\ PanelInv(panel') /\ CallsInv(calls', panel', n) /\ Confirmed(panel', n, r)
         /\ Quiet(calls', Q) /\ panel'.ids = p.ids
         /\ p.operation # "Idle" /\ panel'.operation = "Idle" => p.controlDone /\ p.recordDone
<1>1. CASE p.controlDone /\ p.recordDone
  <2>1. FinishCombined(p, Q)
    BY <1>1 DEF EvaluateCombinedRollback
  <2>2. QED
    BY <1>1, <2>1, FinishKeep
<1>2. CASE ~(p.controlDone /\ p.recordDone)
  <2>1. panel' = p /\ calls' = Q
    BY <1>2 DEF EvaluateCombinedRollback
  <2>2. QED
    BY <1>2, <2>1, QuietFewer
<1>3. QED
  BY <1>1, <1>2

\* The node goes on.
LEMMA NodeKeeps ==
  ASSUME NEW Q, NEW p, NEW n \in Nodes, NEW k \in Nodes, NEW r, CallsInv(Q, p, n),
         PanelInv(p), Confirmed(p, n, r),
         k = n \/ k.generation > n.generation, Fenced(Q, n) => ~k.enabled
  PROVE  CallsInv(Q, p, k) /\ Confirmed(p, k, r)
<1>1. n.generation \in Nat /\ k.generation \in Nat /\ k.generation >= n.generation
  BY DEF Nodes
<1>2. ASSUME NEW q \in Q  PROVE Dated(q, k)
  <2>1. Dated(q, n) /\ q \in Calls
    BY DEF CallsInv
  <2>2. q.call = "read" => q.generation \in Nat
    BY <2>1, KindIs DEF Reads
  <2>3. q.call = "set" => q.generation \in Nat
    BY <2>1, KindIs DEF Sets
  <2>4. QED
    BY <1>1, <2>1, <2>2, <2>3 DEF Dated
<1>3. Fenced(Q, n) => Fenced(Q, k)
  <2>1. \A q \in Enables(Q) : q.generation \in Nat
    BY KindIs DEF Enables, Sets, CallsInv
  <2>2. QED
    BY <1>1, <2>1 DEF Fenced, Past
<1>4. Stopped(Q, p, k)
  BY <1>3 DEF CallsInv, Stopped, StopFits
<1>5. Confirmed(p, k, r)
  <2>1. p.startGeneration \in Nat
    BY DEF PanelInv, Panels
  <2>2. PausedFrom(n, p.startGeneration) => PausedFrom(k, p.startGeneration)
    BY <1>1, <2>1 DEF PausedFrom
  <2>3. QED
    BY <2>2 DEF Confirmed
<1>6. QED
  BY <1>2, <1>4, <1>5 DEF CallsInv

\* The recorder goes on.
LEMMA RecorderKeeps ==
  ASSUME NEW p, NEW n, NEW r, NEW k, PanelInv(p), Confirmed(p, n, r),
         \A i \in Ids : r[i] \in Terminal => k[i] = r[i]
  PROVE  Confirmed(p, n, k)
BY DEF Confirmed, PanelInv, Panels

\* An answer takes the place of its call.
LEMMA ReplyKeep ==
  ASSUME NEW p, NEW n, NEW q \in calls, NEW c \in Replied, NEW o \in BOOLEAN,
         CallsInv(calls, p, n), c = "homed" => q.call = "home",
         q.who = "stop" /\ c \in {"homed", "control"} /\ o => Fenced(calls, n)
  PROVE  /\ CallsInv(Reply(q, Answered(c, q.who, o)), p, n)
         /\ Quiet(Reply(q, Answered(c, q.who, o)), calls)
<1> DEFINE a == Answered(c, q.who, o)
           S == calls \ {q}
<1>1. q \in Calls /\ Fits(q, p) /\ OneManual(calls)
  BY DEF CallsInv
<1>2. a \in Calls /\ a.call = c /\ a.who = q.who /\ a.ok = o
  BY <1>1, KindIs, AnsweredIs
<1>3. CallsInv(S, p, n) /\ Quiet(S, calls)
  BY FewerKeep, QuietFewer
<1>4. Fenced(calls, n) => Fenced(S, n)
  BY DEF Fenced, Past, Enables
<1>5. CASE q.who \in {"nobody", "unguarded"}
  <2>1. Reply(q, a) = S
    BY <1>5 DEF Reply
  <2>2. QED
    BY <1>3, <2>1
<1>6. CASE q.who \notin {"nobody", "unguarded"}
  <2>1. Reply(q, a) = S \cup {a}
    BY <1>6 DEF Reply
  <2>2. a.who = "manual" => \A y \in S : y.who # "manual"
    BY <1>1, <1>2 DEF OneManual
  <2> HIDE DEF a, S
  <2>3. Fits(a, p) /\ Dated(a, n)
    BY <1>1, <1>2, <1>6 DEF Fits, Dated, Replied
  <2>4. StopFits(a, S, n) /\ ~(a.call = "set" /\ a.enable)
    BY <1>2, <1>4 DEF StopFits, Replied
  <2>5. CallsInv(S \cup {a}, p, n)
    BY <1>2, <1>3, <2>2, <2>3, <2>4, AddedKeep
  <2>6. Quiet(S \cup {a}, calls)
    BY <1>2, <1>3, QuietAdded DEF Replied
  <2>7. QED
    BY <2>1, <2>5, <2>6 DEF a
<1>7. QED
  BY <1>5, <1>6

-----------------------------------------------------------------------------
(* What the action properties say of a step *)

Settled ==
  /\ panel.request # NoId => recorder[panel.request] \in Terminal
  /\ panel.pauseControl => PausedFrom(node, panel.startGeneration)
Step ==
  /\ Recovering /\ panel.pauseControl => Quiet(calls', calls) \/ panel'.operation # "RollingBack"
  /\ Recovering /\ panel'.operation = "Idle" => Settled
  /\ panel.operation \in Stops /\ panel'.operation = "Idle"
       => \/ panel'.fallback = "failed"
          \/ \E q \in calls' : q.call = "ask" /\ q.who = "unguarded"
          \/ Fenced(calls', node)

\* A step that leaves the roll-back alone, or one that is before all of it.
LEMMA StepSame ==
  ASSUME panel'.operation = panel.operation, Quiet(calls', calls)
  PROVE  Step
BY DEF Step, Recovering, Stops

\* A step says nothing of an operation that is not yet a roll-back or a stop.
LEMMA StepBefore ==
  ASSUME panel.operation \in {"Idle", "Starting"}
  PROVE  Step
BY DEF Step, Recovering, Stops

\* The presses stay counted.
LEMMA CountedSame ==
  ASSUME IInv, panel'.ids = panel.ids, presses' = presses, losses' = losses
  PROVE  Counted'
BY DEF IInv, Counted

\* A button is pressed.
LEMMA PressIs ==
  ASSUME IInv, NEW b \in Buttons \ {"any"}, Press(b), losses' = losses
  PROVE  /\ panel'.ids = panel.ids => Counted'
         /\ b \in {"combined", "record"} => /\ panel.ids + 1 \in Ids
                                            /\ panel'.ids \in {panel.ids, panel.ids + 1} => Counted'
<1> DEFINE g == presses["combined"] h == presses["record"]
           y == Presses["combined"] z == Presses["record"]
<1>1. presses \in [Buttons -> Nat] /\ losses \in 0 .. MaxLosses /\ panel.ids + g + h <= y + z
  BY DEF IInv, Counted
<1>2. /\ panel.ids \in Nat /\ y \in Nat /\ z \in Nat /\ Ids = 1 .. y + z
      /\ g \in Nat /\ h \in Nat /\ {"combined", "record", "any"} \subseteq Buttons
  BY <1>1, PanelAssumption DEF IInv, Inv, PanelInv, Panels, Ids, Buttons
<1>3. /\ presses' \in [Buttons -> Nat]
      /\ presses'["combined"] = IF b = "combined" THEN g - 1 ELSE g
      /\ presses'["record"] = IF b = "record" THEN h - 1 ELSE h
      /\ presses[b] > 0
  <2> DEFINE k == [presses EXCEPT ![b] = @ - 1]
  <2>1. presses[b] > 0 /\ presses["any"] > 0 /\ presses' = [k EXCEPT !["any"] = @ - 1]
    BY DEF Press
  <2>2. presses[b] - 1 \in Nat /\ presses["any"] - 1 \in Nat
    BY <1>1, <1>2, <2>1
  <2>3. /\ k \in [Buttons -> Nat] /\ k["any"] = presses["any"]
        /\ \A c \in Buttons : k[c] = IF c = b THEN presses[b] - 1 ELSE presses[c]
    BY <1>1, <1>2, <2>2
  <2> HIDE DEF k
  <2>4. /\ presses' \in [Buttons -> Nat]
        /\ \A c \in Buttons \ {"any"} : presses'[c] = k[c]
    BY <1>2, <2>1, <2>2, <2>3
  <2>5. QED
    BY <1>2, <2>1, <2>3, <2>4
<1>4. (b = "combined" => g > 0) /\ (b = "record" => h > 0)
  BY <1>3
<1> HIDE DEF g, h, y, z
<1>5. b \in {"combined", "record"} => panel.ids + 1 \in Ids
  BY <1>1, <1>2, <1>4
<1>6. ASSUME \/ panel'.ids = panel.ids
             \/ b \in {"combined", "record"} /\ panel'.ids \in {panel.ids, panel.ids + 1}
      PROVE  panel'.ids + presses'["combined"] + presses'["record"] <= y + z
  <2>1. CASE b = "combined"
    BY <1>1, <1>2, <1>3, <1>4, <1>6, <2>1
  <2>2. CASE b = "record"
    BY <1>1, <1>2, <1>3, <1>4, <1>6, <2>2
  <2>3. CASE b \notin {"combined", "record"}
    BY <1>1, <1>2, <1>3, <1>6, <2>3
  <2>4. QED
    BY <2>1, <2>2, <2>3
<1>7. QED
  BY <1>1, <1>3, <1>5, <1>6 DEF Counted, y, z

-----------------------------------------------------------------------------
(* The operator *)

\* A step of the panel alone.
LEMMA PanelOnly ==
  ASSUME IInv, node' = node, recorder' = recorder, Counted',
         PanelInv(panel'), CallsInv(calls', panel', node), Confirmed(panel', node, recorder)
  PROVE  IInv'
BY DEF IInv, Inv

\* The parts of the invariant.
LEMMA Parts ==
  ASSUME IInv
  PROVE  /\ PanelInv(panel) /\ panel \in Panels /\ CallsInv(calls, panel, node)
         /\ Confirmed(panel, node, recorder) /\ node \in Nodes /\ recorder \in [Ids -> States]
         /\ calls \subseteq Calls
         /\ \A q \in calls : q \in Calls /\ Fits(q, panel) /\ Dated(q, node)
BY DEF IInv, Inv, PanelInv, CallsInv

\* A combined operation starts when there are no calls of another, and no enable by hand.
LEMMA BeginKeep ==
  ASSUME IInv, Available, NEW s \in Panels, s.operation \in {"Starting"} \cup Stops,
         s.pending = panel.pending, s.manualEnable = panel.manualEnable,
         s.control = "none", s.fallback = "none"
  PROVE  PanelInv(s) /\ CallsInv(calls, s, node) /\ Confirmed(s, node, recorder)
<1>1. ~panel.manualEnable /\ panel.operation = "Idle"
  BY Parts DEF PanelInv, Available
<1>2. \A q \in calls : q.who \notin Waiters
  BY <1>1, Parts DEF Fits, Waiters, Stops
<1>3. CallsInv(calls, s, node)
  BY <1>2, Parts, PanelKeeps
<1>4. QED
  BY <1>1, <1>3 DEF PanelInv, Confirmed, Stops

\* What a combined operation starts with.
LEMMA CombinedIs ==
  ASSUME NEW p \in Panels, NEW op \in Operations, NEW s, s = Combined(p, op)
  PROVE  /\ s \in Panels /\ s.operation = op /\ s.pending = p.pending /\ s.ids = p.ids
         /\ s.manualEnable = p.manualEnable /\ s.control = "none" /\ s.fallback = "none"
<1>1. s = [p EXCEPT !.operation = op, !.recordPending = TRUE, !.control = "none",
                    !.record = "none", !.fallback = "none"]
  BY DEF Combined
<1>2. s \in Panels
  BY <1>1 DEF Panels, Answers
<1>3. s.operation = op /\ s.ids = p.ids /\ s.control = "none" /\ s.fallback = "none"
  BY <1>1 DEF Panels
<1>4. s.pending = p.pending
  BY <1>1 DEF Panels
<1>5. s.manualEnable = p.manualEnable
  BY <1>1 DEF Panels
<1>6. QED
  BY <1>2, <1>3, <1>4, <1>5

\* The two calls that a combined operation makes.
LEMMA TwoCallsKeep ==
  ASSUME NEW Q, NEW p, NEW n, CallsInv(Q, p, n),
         NEW a \in Calls, NEW b \in Calls, {a.who, b.who} \subseteq {"start", "stop"},
         {a.call, b.call} \cap {"read", "set", "homed", "control"} = {},
         Fits(a, p), Fits(b, p)
  PROVE  CallsInv(Q \cup {a, b}, p, n)
<1>1. Dated(a, n) /\ Dated(b, n) /\ \A R : StopFits(a, R, n) /\ StopFits(b, R, n)
  BY DEF Dated, StopFits
<1>2. CallsInv(Q \cup {a}, p, n)
  BY <1>1, AddedKeep
<1>3. CallsInv((Q \cup {a}) \cup {b}, p, n)
  BY <1>1, <1>2, AddedKeep
<1>4. (Q \cup {a}) \cup {b} = Q \cup {a, b}
  OBVIOUS
<1>5. QED
  BY <1>3, <1>4

\* Enter: an enable and a recording, in parallel.
LEMMA StartCombinedStep ==
  ASSUME IInv, StartCombinedAction
  PROVE  IInv' /\ Step
<1> DEFINE i == panel.ids + 1
           s == [Combined(panel, "Starting") EXCEPT !.ids = i, !.request = i,
                               !.startGeneration = 0, !.pauseControl = TRUE]
           a == RequestControl("start", TRUE, 0)
           b == Recording("start", "start", i)
<1>1. /\ Press("combined") /\ Available /\ panel' = s /\ calls' = calls \cup {a, b}
      /\ node' = node /\ recorder' = recorder /\ losses' = losses
  BY DEF StartCombinedAction, Records
<1>2. i \in Ids /\ i \in Nat /\ (panel'.ids \in {panel.ids, i} => Counted')
  <2>1. /\ i \in Ids
        /\ (panel'.ids \in {panel.ids, i} => Counted')
    BY <1>1, PressIs DEF Buttons
  <2>2. QED
    BY <2>1, Parts, PanelAssumption DEF Ids, Buttons
<1> HIDE DEF i
<1>3. /\ s \in Panels /\ s.operation = "Starting" /\ s.pending = panel.pending
      /\ s.manualEnable = panel.manualEnable /\ s.control = "none" /\ s.fallback = "none"
      /\ s.ids = i
  <2> DEFINE c == Combined(panel, "Starting")
  <2>1. /\ c \in Panels /\ c.operation = "Starting" /\ c.pending = panel.pending
        /\ c.manualEnable = panel.manualEnable /\ c.control = "none" /\ c.fallback = "none"
    BY Parts, CombinedIs DEF Operations
  <2> HIDE DEF c
  <2>2. /\ s \in Panels /\ s.operation = c.operation /\ s.pending = c.pending
        /\ s.manualEnable = c.manualEnable /\ s.control = c.control /\ s.fallback = c.fallback
        /\ s.ids = i
    <3>1. s = [c EXCEPT !.ids = i, !.request = i, !.startGeneration = 0, !.pauseControl = TRUE]
      BY DEF c
    <3>2. QED
      BY <1>2, <2>1, <3>1 DEF Panels
  <2>3. QED
    BY <2>1, <2>2
<1>4. a \in Calls /\ a.call = "ask" /\ a.who = "start" /\ a.floor = 0
  BY CallsAre DEF RequestControl, Asks, Waits
<1>5. b \in Calls /\ b.call = "start" /\ b.who = "start" /\ b.id = i
  BY <1>2, RecordingIs DEF Waits, Remote
<1> HIDE DEF s, a, b
<1>6. PanelInv(s) /\ CallsInv(calls, s, node) /\ Confirmed(s, node, recorder)
  BY <1>1, <1>3, BeginKeep
<1>7. Fits(a, s) /\ Fits(b, s)
  BY <1>2, <1>3, <1>4, <1>5 DEF Fits
<1>8. CallsInv(calls \cup {a, b}, s, node)
  BY <1>4, <1>5, <1>6, <1>7, TwoCallsKeep
<1>9. IInv'
  BY <1>1, <1>2, <1>3, <1>6, <1>8, PanelOnly
<1>10. QED
  BY <1>1, <1>9, StepBefore DEF Available

\* A combined stop or discard: its request to the recorder and its homing.
LEMMA StopBegins ==
  ASSUME IInv, Available, NEW op \in Stops, NEW c \in {"stop", "cancel"},
         NEW b \in Buttons \ {"any", "combined"}, Press(b) \/ Press("combined"),
         panel' = Combined(panel, op),
         calls' = calls \cup {Recording(c, "stop", panel.recording),
                                Recording("home", "stop", NoId)},
         UNCHANGED <<node, recorder, losses>>
  PROVE  IInv' /\ Step
<1> DEFINE s == Combined(panel, op)
           a == Recording(c, "stop", panel.recording)
           h == Recording("home", "stop", NoId)
<1>1. /\ s \in Panels /\ s.operation = op /\ s.pending = panel.pending /\ s.ids = panel.ids
      /\ s.manualEnable = panel.manualEnable /\ s.control = "none" /\ s.fallback = "none"
  BY Parts, CombinedIs DEF Operations, Stops
<1>2. panel.recording \in Ids \cup {NoId} /\ panel.recording \in Nat /\ NoId \in Nat
  BY Parts, PanelAssumption DEF Panels, Ids, NoId, Buttons
<1>3. a \in Calls /\ a.call = c /\ a.who = "stop" /\ a.id = panel.recording
  BY <1>2, RecordingIs DEF Waits, Remote
<1>4. h \in Calls /\ h.call = "home" /\ h.who = "stop"
  BY <1>2, RecordingIs DEF Waits, Remote
<1>5. Counted'
  <2>1. panel'.ids = panel.ids
    BY <1>1
  <2>2. CASE Press(b)
    BY <2>1, <2>2, PressIs
  <2>3. CASE Press("combined")
    BY <2>1, <2>3, PressIs DEF Buttons
  <2>4. QED
    BY <2>2, <2>3
<1> HIDE DEF s, a, h
<1>6. PanelInv(s) /\ CallsInv(calls, s, node) /\ Confirmed(s, node, recorder)
  BY <1>1, BeginKeep
<1>7. Fits(a, s) /\ Fits(h, s)
  BY <1>1, <1>2, <1>3, <1>4 DEF Fits
<1>8. CallsInv(calls \cup {a, h}, s, node)
  BY <1>3, <1>4, <1>6, <1>7, TwoCallsKeep
<1>9. panel' = s /\ calls' = calls \cup {a, h}
  BY DEF s, a, h
<1>10. IInv'
  BY <1>5, <1>6, <1>8, <1>9, PanelOnly
<1>11. QED
  BY <1>10, StepBefore DEF Available

\* Enter during a recording: it ends, and the node is paused.
LEMMA StopCombinedStep ==
  ASSUME IInv, StopCombinedAction
  PROVE  IInv' /\ Step
<1>1. Available /\ Press("combined") /\ "record" \in Buttons \ {"any", "combined"}
  BY DEF StopCombinedAction, Records, Buttons
<1>2. QED
  BY <1>1, StopBegins DEF StopCombinedAction, Stops

\* Backspace: the recording is cancelled, and the node is paused.
LEMMA DiscardCombinedStep ==
  ASSUME IInv, DiscardCombinedAction
  PROVE  IInv' /\ Step
<1>1. Available /\ Press("discard") /\ "discard" \in Buttons \ {"any", "combined"}
  BY DEF DiscardCombinedAction, Records, Buttons
<1>2. QED
  BY <1>1, StopBegins DEF DiscardCombinedAction, Stops

\* Space: enable, or pause beyond the enable under way.
LEMMA ToggleStep ==
  ASSUME IInv, Toggle
  PROVE  IInv' /\ Step
<1>1. PICK e \in {FALSE, node.enabled} : ManualControl(~e)
  BY DEF Toggle
<1>2. /\ Press("toggle") /\ panel.operation = "Idle"
      /\ node' = node /\ recorder' = recorder /\ losses' = losses
  BY DEF Toggle, Available
<1>3. /\ PanelInv(panel') /\ CallsInv(calls', panel', node) /\ SameRecovery(panel, panel')
      /\ panel'.ids = panel.ids
  <2> DEFINE d == ~e
  <2>1. d \in BOOLEAN /\ ManualControl(d)
    BY <1>1
  <2> HIDE DEF d
  <2>2. QED
    BY <1>2, <2>1, Parts, ManualKeep
<1>4. Counted'
  BY <1>2, <1>3, PressIs DEF Buttons
<1>5. Confirmed(panel', node, recorder)
  BY <1>3, Parts, SameConfirmed
<1>6. QED
  BY <1>2, <1>3, <1>4, <1>5, PanelOnly, StepBefore

\* S: pause beyond the enable under way.
LEMMA PauseStep ==
  ASSUME IInv, Pause
  PROVE  IInv' /\ Step
<1>1. /\ Press("pause") /\ "pause" \in Buttons \ {"any"}
      /\ node' = node /\ recorder' = recorder /\ losses' = losses
  BY DEF Pause, Buttons
<1>2. CASE panel.operation = "Starting"
  <2>1. BeginCombinedRollback(panel, calls) /\ ~panel.manualEnable
    BY <1>2, Parts DEF Pause, PanelInv
  <2>2. /\ PanelInv(panel') /\ CallsInv(calls', panel', node) /\ Confirmed(panel', node, recorder)
        /\ panel'.ids = panel.ids
    BY <2>1, Parts, RollbackKeep
  <2>3. QED
    BY <1>1, <1>2, <2>2, PressIs, PanelOnly, StepBefore
<1>3. CASE panel.operation # "Starting"
  <2>1. ManualControl(FALSE)
    BY <1>3 DEF Pause
  <2>2. /\ PanelInv(panel') /\ CallsInv(calls', panel', node) /\ SameRecovery(panel, panel')
        /\ panel'.ids = panel.ids /\ Quiet(calls', calls)
    BY <2>1, Parts, ManualKeep
  <2>3. Confirmed(panel', node, recorder)
    BY <2>2, Parts, SameConfirmed
  <2>4. Counted'
    BY <1>1, <2>2, PressIs
  <2>5. panel'.operation = panel.operation
    BY <2>2 DEF SameRecovery
  <2>6. QED
    BY <1>1, <2>2, <2>3, <2>4, <2>5, PanelOnly, StepSame
<1>4. QED
  BY <1>2, <1>3

\* H: the return home.
LEMMA HomeStep ==
  ASSUME IInv, Home
  PROVE  IInv' /\ Step
<1> DEFINE s == [panel EXCEPT !.pending = TRUE]
           S == Superseded(calls, {"manual"})
           h == Recording("home", "manual", NoId)
<1>1. /\ Press("home") /\ panel.operation = "Idle" /\ panel' = s /\ calls' = S \cup {h}
      /\ node' = node /\ recorder' = recorder /\ losses' = losses
  BY DEF Home, Available
<1>2. /\ s \in Panels /\ SameRecovery(panel, s) /\ s.manualEnable = panel.manualEnable
      /\ s.pending /\ s.ids = panel.ids /\ ~panel.manualEnable
  BY Parts DEF Home, Available, PanelInv, Panels, SameRecovery
<1>3. h \in Calls /\ h.call = "home" /\ h.who = "manual"
  BY RecordingIs DEF Waits, Remote, NoId
<1>4. CallsInv(S, panel, node) /\ NoneOf(S, {"manual"})
  BY Parts, SupersededKeep, SupersededIs DEF NoneOf
<1> HIDE DEF s, S, h
<1>5. CallsInv(S, s, node)
  BY <1>1, <1>2, <1>4, PanelKeeps DEF SameRecovery, Stops
<1>6. Fits(h, s) /\ Dated(h, node) /\ StopFits(h, S, node)
  BY <1>2, <1>3 DEF Fits, Dated, StopFits
<1>7. CallsInv(S \cup {h}, s, node)
  BY <1>3, <1>4, <1>5, <1>6, AddedKeep DEF NoneOf
<1>8. PanelInv(s) /\ Confirmed(s, node, recorder)
  BY <1>1, <1>2, Parts, SameConfirmed DEF PanelInv, SameRecovery
<1>9. Counted'
  BY <1>1, <1>2, PressIs DEF Buttons
<1>10. QED
  BY <1>1, <1>7, <1>8, <1>9, PanelOnly, StepBefore

\* A: start or stop a recording.
LEMMA RecordStep ==
  ASSUME IInv, Record
  PROVE  IInv' /\ Step
<1>1. /\ Press("record") /\ panel.operation = "Idle" /\ RecordingAction(panel, calls, FALSE)
      /\ node' = node /\ recorder' = recorder /\ losses' = losses
  BY DEF Record, Records, Available
<1>2. /\ panel.ids + 1 \in Ids
      /\ panel'.ids \in {panel.ids, panel.ids + 1} => Counted'
  BY <1>1, PressIs DEF Buttons
<1>3. /\ PanelInv(panel') /\ CallsInv(calls', panel', node) /\ SameRecovery(panel, panel')
      /\ panel'.ids \in {panel.ids, panel.ids + 1}
  BY <1>1, <1>2, Parts, RecordingActionKeep
<1>4. Confirmed(panel', node, recorder)
  BY <1>3, Parts, SameConfirmed
<1>5. QED
  BY <1>1, <1>2, <1>3, <1>4, PanelOnly, StepBefore

-----------------------------------------------------------------------------
(* The timer *)

\* Another round of the roll-back.
LEMMA RecoveryRoundStep ==
  ASSUME IInv, RecoveryRound
  PROVE  IInv' /\ Step
<1>1. /\ panel.operation = "RollingBack" /\ calls' = AdvanceCombinedRecovery(panel, calls)
      /\ node' = node /\ recorder' = recorder /\ panel' = panel
      /\ presses' = presses /\ losses' = losses
  BY DEF RecoveryRound
<1>2. ~panel.recordDone => panel.request # NoId
  BY <1>1, Parts DEF Confirmed
<1>3. CallsInv(calls', panel, node) /\ Quiet(calls', calls)
  BY <1>1, <1>2, Parts, AdvanceKeep
<1>4. IInv'
  BY <1>1, <1>3, Parts, CountedSame, PanelOnly
<1>5. QED
  BY <1>1, <1>3, <1>4, StepSame

\* An enable by hand is late: its roll-back begins, whatever other one there was.
LEMMA ManualTimeoutStep ==
  ASSUME IInv, ManualTimeout
  PROVE  IInv' /\ Step
<1> DEFINE p == [panel EXCEPT !.pending = FALSE, !.manualEnable = FALSE]
           Q == Superseded(calls, {"manual"})
           s == [p EXCEPT !.request = NoId, !.pauseControl = TRUE,
                          !.startGeneration = p.manualGeneration]
<1>1. /\ IF panel.manualEnable THEN BeginCombinedRollback(s, Q) ELSE panel' = p /\ calls' = Q
      /\ node' = node /\ recorder' = recorder /\ presses' = presses /\ losses' = losses
  BY DEF ManualTimeout
<1>2. /\ p \in Panels /\ ~p.manualEnable /\ SameRecovery(panel, p) /\ p.ids = panel.ids
      /\ p.control = panel.control /\ p.fallback = panel.fallback
  BY Parts DEF Panels, SameRecovery
<1>3. s \in Panels /\ ~s.manualEnable /\ s.ids = panel.ids
  <2> HIDE DEF p
  <2>1. s \in Panels /\ s.manualEnable = p.manualEnable /\ s.ids = p.ids
    BY <1>2 DEF Panels
  <2>2. QED
    BY <1>2, <2>1
<1>4. CallsInv(Q, panel, node) /\ NoneOf(Q, {"manual"}) /\ Quiet(Q, calls)
  <2>1. CallsInv(Q, panel, node) /\ NoneOf(Q, {"manual"})
    BY Parts, SupersededKeep, SupersededIs DEF NoneOf
  <2>2. Quiet(Q, calls)
    BY Parts, QuietSuperseded
  <2>3. QED
    BY <2>1, <2>2
<1> HIDE DEF p, Q, s
<1>5. CASE panel.manualEnable
  <2>1. /\ PanelInv(panel') /\ CallsInv(calls', panel', node) /\ Confirmed(panel', node, recorder)
        /\ Quiet(calls', Q) /\ panel'.operation = "RollingBack" /\ panel'.ids = panel.ids
    BY <1>1, <1>3, <1>4, <1>5, RollbackKeep
  <2>2. Quiet(calls', calls)
    BY <1>4, <2>1, QuietThen
  <2>3. Step
    BY <2>1, <2>2 DEF Step
  <2>4. QED
    BY <1>1, <2>1, <2>3, CountedSame, PanelOnly
<1>6. CASE ~panel.manualEnable
  <2>1. panel' = p /\ calls' = Q
    BY <1>1, <1>6
  <2>2. panel.operation \in Stops => ("ok" \in {panel.control, panel.fallback} => Fenced(Q, node))
    BY <1>4 DEF CallsInv, Stopped
  <2>3. CallsInv(Q, p, node)
    BY <1>2, <1>4, <2>2, PanelKeeps DEF SameRecovery, NoneOf
  <2>4. PanelInv(p) /\ Confirmed(p, node, recorder)
    BY <1>2, Parts, SameConfirmed DEF PanelInv
  <2>5. panel'.operation = panel.operation /\ panel'.ids = panel.ids
    BY <1>2, <2>1 DEF SameRecovery
  <2>6. IInv'
    BY <1>1, <2>1, <2>3, <2>4, <2>5, CountedSame, PanelOnly
  <2>7. QED
    BY <1>4, <2>1, <2>5, <2>6, StepSame
<1>7. QED
  BY <1>5, <1>6

\* A request to record by hand is late; a start is rolled back.
LEMMA RecordTimeoutStep ==
  ASSUME IInv, RecordTimeout
  PROVE  IInv' /\ Step
<1> DEFINE p == [panel EXCEPT !.recordPending = FALSE, !.manualStart = FALSE]
           Q == Superseded(calls, {"record"})
           s == [p EXCEPT !.request = p.manualRequest, !.pauseControl = FALSE,
                          !.startGeneration = 0]
<1>1. /\ panel.operation = "Idle"
      /\ IF panel.manualStart THEN BeginCombinedRollback(s, Q) ELSE panel' = p /\ calls' = Q
      /\ node' = node /\ recorder' = recorder /\ presses' = presses /\ losses' = losses
  BY DEF RecordTimeout
<1>2. /\ p \in Panels /\ SameRecovery(panel, p) /\ p.ids = panel.ids
      /\ p.manualEnable = panel.manualEnable /\ p.pending = panel.pending
  BY Parts DEF Panels, SameRecovery
<1>3. /\ s \in Panels /\ s.ids = panel.ids /\ s.manualEnable = panel.manualEnable
      /\ s.pending = panel.pending /\ ~s.pauseControl
  <2> HIDE DEF p
  <2>1. /\ s \in Panels /\ s.manualEnable = p.manualEnable /\ s.ids = p.ids
        /\ s.pending = p.pending /\ ~s.pauseControl
    BY <1>2 DEF Panels
  <2>2. QED
    BY <1>2, <2>1
<1>4. CallsInv(Q, panel, node)
  BY Parts, SupersededKeep
<1> HIDE DEF p, Q, s
<1>5. CASE panel.manualStart
  <2>1. s.manualEnable => s.pending /\ ~s.pauseControl
    BY <1>3, Parts DEF PanelInv
  <2>2. /\ PanelInv(panel') /\ CallsInv(calls', panel', node) /\ Confirmed(panel', node, recorder)
        /\ panel'.ids = panel.ids
    BY <1>1, <1>3, <1>4, <1>5, <2>1, RollbackKeep
  <2>3. QED
    BY <1>1, <2>2, CountedSame, PanelOnly, StepBefore
<1>6. CASE ~panel.manualStart
  <2>1. panel' = p /\ calls' = Q
    BY <1>1, <1>6
  <2>2. CallsInv(Q, p, node)
    BY <1>1, <1>2, <1>4, PanelKeeps DEF SameRecovery, Stops
  <2>3. PanelInv(p) /\ Confirmed(p, node, recorder)
    BY <1>1, <1>2, Parts, SameConfirmed DEF PanelInv, SameRecovery
  <2>4. QED
    BY <1>1, <1>2, <2>1, <2>2, <2>3, CountedSame, PanelOnly, StepBefore
<1>7. QED
  BY <1>5, <1>6

\* A combined start is late: it is rolled back.
LEMMA StartTimeoutStep ==
  ASSUME IInv, StartTimeout
  PROVE  IInv' /\ Step
<1>1. /\ panel.operation = "Starting" /\ BeginCombinedRollback(panel, calls)
      /\ node' = node /\ recorder' = recorder /\ presses' = presses /\ losses' = losses
  BY DEF StartTimeout
<1>2. ~panel.manualEnable
  BY <1>1, Parts DEF PanelInv
<1>3. /\ PanelInv(panel') /\ CallsInv(calls', panel', node) /\ Confirmed(panel', node, recorder)
      /\ panel'.ids = panel.ids
  BY <1>1, <1>2, Parts, RollbackKeep
<1>4. QED
  BY <1>1, <1>3, CountedSame, PanelOnly, StepBefore

\* A combined stop is late: what was not answered failed.
LEMMA StopTimeoutStep ==
  ASSUME IInv, StopTimeout
  PROVE  IInv' /\ Step
<1> DEFINE p == [panel EXCEPT !.operation = "Idle"]
           S == Superseded(calls, Waiters)
           a == RequestControl("unguarded", FALSE, 0)
           Q == S \cup {a}
           T == Superseded(Q, {"record"})
           c == Recording("status", "record", NoId)
<1>1. /\ panel.operation \in Stops
      /\ IF panel.operation = "Stopping" /\ panel.state = "recording"
         THEN RecordingAction(p, Q, FALSE)
         ELSE panel' = p /\ calls' = IF panel.operation = "Stopping" THEN Q ELSE T \cup {c}
      /\ node' = node /\ recorder' = recorder /\ presses' = presses /\ losses' = losses
  BY DEF StopTimeout, Stops
<1>2. /\ p \in Panels /\ p.operation = "Idle" /\ p.ids = panel.ids /\ p.request = panel.request
      /\ p.manualEnable = panel.manualEnable /\ p.state = panel.state
  BY Parts DEF Panels, Operations
<1>3. a \in Calls /\ a.call = "ask" /\ a.who = "unguarded" /\ ~a.enable
  BY PauseIs DEF Waits
<1>4. c \in Calls /\ c.call = "status" /\ c.who = "record"
  BY RecordingIs DEF Waits, Remote, NoId
<1>5. ~panel.manualEnable /\ panel.operation # "RollingBack"
  BY <1>1, Parts DEF PanelInv, Stops
<1>6. CallsInv(S, panel, node) /\ NoneOf(S, Waiters)
  BY Parts, SupersededKeep, SupersededIs DEF Waiters, NoneOf
<1>7. T = Superseded(Q, {"record"}) /\ Q = S \cup {a}
  OBVIOUS
<1> HIDE DEF p, S, a, Q, T, c
<1>8. CallsInv(S, p, node)
  BY <1>2, <1>6, PanelKeeps DEF NoneOf, Stops
<1>9. Fits(a, p) /\ Dated(a, node) /\ Fits(c, p) /\ Dated(c, node)
  BY <1>3, <1>4 DEF Fits, Dated
<1>10. CallsInv(Q, p, node) /\ Q \subseteq Calls
  <2>1. CallsInv(Q, p, node)
    BY <1>2, <1>3, <1>7, <1>8, <1>9, AddedKeep DEF Stops
  <2>2. QED
    BY <2>1 DEF CallsInv
<1>11. PanelInv(p) /\ Confirmed(p, node, recorder)
  BY <1>2, <1>5 DEF PanelInv, Confirmed
<1>12. a \in Q /\ a.who # "record"
  BY <1>3, <1>7
<1>13. CASE panel.operation = "Stopping" /\ panel.state = "recording"
  <2>1. RecordingAction(p, Q, FALSE) /\ p.state = "recording"
    BY <1>1, <1>2, <1>13
  <2>2. /\ PanelInv(panel') /\ CallsInv(calls', panel', node) /\ SameRecovery(p, panel')
        /\ panel'.ids = p.ids /\ \A q \in Q : q.who # "record" => q \in calls'
    BY <1>10, <1>11, <2>1, RecordingActionKeep
  <2>3. Confirmed(panel', node, recorder)
    BY <1>11, <2>2, SameConfirmed
  <2>4. a \in calls'
    BY <1>12, <2>2
  <2>5. Step
    BY <1>3, <1>5, <2>4 DEF Step, Recovering
  <2>6. QED
    BY <1>1, <1>2, <2>2, <2>3, <2>5, CountedSame, PanelOnly
<1>14. CASE ~(panel.operation = "Stopping" /\ panel.state = "recording")
  <2>1. panel' = p /\ calls' \in {Q, T \cup {c}}
    BY <1>1, <1>14
  <2>2. CallsInv(T, p, node) /\ a \in T
    BY <1>7, <1>10, <1>12, SupersededKeep, SupersededIs
  <2>3. CallsInv(T \cup {c}, p, node)
    BY <1>2, <1>4, <1>9, <2>2, AddedKeep DEF Stops
  <2>4. CallsInv(calls', p, node) /\ a \in calls'
    BY <1>10, <1>12, <2>1, <2>2, <2>3
  <2>5. Step
    BY <1>3, <1>5, <2>4 DEF Step, Recovering
  <2>6. QED
    BY <1>1, <1>2, <1>11, <2>1, <2>4, <2>5, CountedSame, PanelOnly
<1>15. QED
  BY <1>13, <1>14

-----------------------------------------------------------------------------
(* The answers *)

\* The roll-back reads the state of the node.
LEMMA RecoveryReadStep ==
  ASSUME IInv, NEW q \in calls, RecoveryRead(q)
  PROVE  IInv' /\ Step
<1> DEFINE S == calls \ {q}
           p == [panel EXCEPT !.controlDone = TRUE]
           g == After(q.generation, panel.startGeneration)
           y == [call |-> "set", who |-> "nobody", enable |-> FALSE, generation |-> g]
<1>1. /\ q.call = "read" /\ q.who = "recovery"
      /\ IF Safe(q) THEN EvaluateCombinedRollback(p, S) ELSE calls' = S \cup {y} /\ panel' = panel
      /\ node' = node /\ recorder' = recorder /\ presses' = presses /\ losses' = losses
  BY DEF RecoveryRead
<1>2. /\ panel.operation = "RollingBack" /\ q \in Reads /\ Dated(q, node)
      /\ panel.startGeneration \in Nat /\ node.generation \in Nat
  BY <1>1, Parts, KindIs DEF Fits, Panels, Nodes
<1>3. CallsInv(S, panel, node) /\ Quiet(S, calls)
  BY Parts, FewerKeep, QuietFewer
<1>4. CASE Safe(q)
  <2>1. /\ p \in Panels /\ p.operation = panel.operation /\ p.request = panel.request
        /\ p.ids = panel.ids /\ p.controlDone /\ p.recordDone = panel.recordDone
        /\ p.manualEnable = panel.manualEnable /\ p.pending = panel.pending
        /\ p.pauseControl = panel.pauseControl /\ p.startGeneration = panel.startGeneration
    BY Parts DEF Panels
  <2> HIDE DEF p, S
  <2>2. PausedFrom(node, panel.startGeneration)
    <3>1. q.generation \in Nat
      BY <1>2 DEF Reads
    <3>2. QED
      BY <1>1, <1>2, <1>4, <3>1 DEF Safe, Dated, PausedFrom
  <2>3. PanelInv(p) /\ Confirmed(p, node, recorder)
    BY <2>1, <2>2, Parts DEF PanelInv, Confirmed
  <2>4. CallsInv(S, p, node)
    BY <1>2, <1>3, <2>1, PanelKeeps DEF Stops
  <2>5. EvaluateCombinedRollback(p, S)
    BY <1>1, <1>4
  <2>6. /\ PanelInv(panel') /\ CallsInv(calls', panel', node) /\ Confirmed(panel', node, recorder)
        /\ Quiet(calls', S) /\ panel'.ids = p.ids
        /\ p.operation # "Idle" /\ panel'.operation = "Idle" => p.controlDone /\ p.recordDone
    BY <2>3, <2>4, <2>5, EvaluateKeep
  <2>7. Quiet(calls', calls)
    BY <1>3, <2>6, QuietThen
  <2>8. panel'.operation = "Idle" => Settled
    BY <1>2, <2>1, <2>2, <2>6, Parts DEF Settled, Confirmed
  <2>9. Step
    BY <1>2, <2>7, <2>8 DEF Step, Stops
  <2>10. QED
    BY <1>1, <2>1, <2>6, <2>9, CountedSame, PanelOnly
<1>5. CASE ~Safe(q)
  <2>1. panel' = panel /\ calls' = S \cup {y}
    BY <1>1, <1>5
  <2>2. g \in Nat
    BY <1>2 DEF After, Reads
  <2> HIDE DEF g
  <2>3. y \in Calls /\ y.call = "set" /\ y.who = "nobody" /\ ~y.enable
    BY <2>2, CallsAre DEF Sets, Waits
  <2> HIDE DEF y, S
  <2>4. Fits(y, panel) /\ Dated(y, node) /\ StopFits(y, S, node)
    BY <2>3 DEF Fits, Dated, StopFits, Effects
  <2>5. CallsInv(S \cup {y}, panel, node)
    BY <1>3, <2>3, <2>4, AddedKeep
  <2>6. Quiet(S \cup {y}, calls)
    BY <1>3, <2>3 DEF Quiet, NoNewEnables
  <2>7. IInv'
    BY <1>1, <2>1, <2>5, Parts, CountedSame, PanelOnly
  <2>8. QED
    BY <2>1, <2>6, <2>7, StepSame
<1>6. QED
  BY <1>4, <1>5

\* The roll-back reads the state of the request.
LEMMA RecoveryFoundStep ==
  ASSUME IInv, NEW q \in calls, RecoveryFound(q)
  PROVE  IInv' /\ Step
<1> DEFINE S == calls \ {q}
           d == panel.recordDone \/ Settles(recorder[q.id])
           p == [panel EXCEPT !.recordDone = d]
<1>1. /\ q.call = "query" /\ EvaluateCombinedRollback(p, S)
      /\ node' = node /\ recorder' = recorder /\ presses' = presses /\ losses' = losses
  BY DEF RecoveryFound
<1>2. panel.operation = "RollingBack" /\ q.id = panel.request /\ q.id \in Ids
  BY <1>1, Parts DEF Fits
<1>3. CallsInv(S, panel, node) /\ Quiet(S, calls)
  BY Parts, FewerKeep, QuietFewer
<1>4. /\ p \in Panels /\ p.operation = panel.operation /\ p.request = panel.request
      /\ p.ids = panel.ids /\ p.controlDone = panel.controlDone /\ p.recordDone = d
      /\ p.manualEnable = panel.manualEnable /\ p.pending = panel.pending
      /\ p.pauseControl = panel.pauseControl /\ p.startGeneration = panel.startGeneration
  <2>1. d \in BOOLEAN
    BY Parts DEF Panels, Settles
  <2> HIDE DEF d
  <2>2. p.recordDone = d
    BY <2>1, Parts DEF Panels
  <2>3. QED
    BY <2>1, <2>2, Parts DEF Panels
<1>5. d => (panel.request # NoId => recorder[panel.request] \in Terminal)
  BY <1>2, Parts DEF Confirmed, Settles
<1>6. ~d => panel.request # NoId
  BY <1>2, Parts DEF Confirmed
<1> HIDE DEF p, S, d
<1>7. PanelInv(p) /\ Confirmed(p, node, recorder)
  BY <1>2, <1>4, <1>5, <1>6, Parts DEF PanelInv, Confirmed
<1>8. CallsInv(S, p, node)
  BY <1>2, <1>3, <1>4, PanelKeeps DEF Stops
<1>9. /\ PanelInv(panel') /\ CallsInv(calls', panel', node) /\ Confirmed(panel', node, recorder)
      /\ Quiet(calls', S) /\ panel'.ids = p.ids
      /\ p.operation # "Idle" /\ panel'.operation = "Idle" => p.controlDone /\ p.recordDone
  BY <1>1, <1>7, <1>8, EvaluateKeep
<1>10. Quiet(calls', calls)
  BY <1>3, <1>9, QuietThen
<1>11. panel'.operation = "Idle" => Settled
  BY <1>2, <1>4, <1>5, <1>7, <1>9 DEF Settled, Confirmed
<1>12. Step
  BY <1>2, <1>10, <1>11 DEF Step, Stops
<1>13. QED
  BY <1>1, <1>4, <1>9, <1>12, CountedSame, PanelOnly

\* The generation that was asked for arrives: the call goes out with one beyond it.
LEMMA ControlReadStep ==
  ASSUME IInv, NEW q \in calls, ControlRead(q)
  PROVE  IInv' /\ Step
<1> DEFINE S == calls \ {q}
           g == After(q.generation, q.floor)
           w == IF q.who = "unguarded" THEN "nobody" ELSE q.who
           y == [call |-> "set", enable |-> q.enable, generation |-> g, who |-> w]
           a == IF q.enable /\ q.who = "manual" THEN g ELSE panel.manualGeneration
           b == IF q.enable /\ q.who = "start" THEN g ELSE panel.startGeneration
           s == [panel EXCEPT !.manualGeneration = a, !.startGeneration = b]
<1>1. /\ q.call = "read" /\ q.who # "recovery" /\ calls' = S \cup {y} /\ panel' = s
      /\ node' = node /\ recorder' = recorder /\ presses' = presses /\ losses' = losses
  BY DEF ControlRead
<1>2. q \in Reads /\ Fits(q, panel) /\ Dated(q, node) /\ node.generation \in Nat
  BY <1>1, Parts, KindIs DEF Nodes
<1>3. /\ g \in Nat /\ q.generation \in Nat /\ q.generation <= node.generation
      /\ g >= q.generation + 1
      /\ q.enable => g <= node.generation + 1
  BY <1>1, <1>2 DEF After, Reads, Dated, Fits
<1>4. w \in Waits /\ (w = "manual" <=> q.who = "manual") /\ (w = "stop" <=> q.who = "stop")
      /\ (w = "start" <=> q.who = "start") /\ w # "recovery"
  BY <1>1, <1>2 DEF Reads, Waits
<1>5. a \in Nat /\ b \in Nat /\ (panel.operation = "RollingBack" => b = panel.startGeneration)
  BY <1>2, <1>3, Parts DEF Panels, Fits
<1> HIDE DEF a, b, g, w
<1>6. /\ s \in Panels /\ s.manualEnable = panel.manualEnable /\ s.pending = panel.pending
      /\ s.control = panel.control /\ s.fallback = panel.fallback /\ s.ids = panel.ids
      /\ SameRecovery(panel, s)
  BY <1>5, Parts DEF Panels, SameRecovery
<1>7. y \in Calls /\ y.call = "set" /\ y.who = w /\ y.generation = g
  BY <1>2, <1>3, <1>4, CallsAre DEF Sets, Reads
<1>8. y.enable = q.enable
  OBVIOUS
<1>9. CallsInv(S, panel, node) /\ Quiet(S, calls)
  BY Parts, FewerKeep, QuietFewer
<1>10. panel.operation \in Stops => StopFits(y, S, node) /\ ~q.enable
  <2>1. SUFFICES ASSUME panel.operation \in Stops
                 PROVE  StopFits(y, S, node) /\ ~q.enable
    OBVIOUS
  <2>2. ~q.enable
    BY <1>1, <1>2, <2>1, Parts DEF Fits, Stops, PanelInv
  <2>3. q.who = "stop" => Past(calls, q.generation + 1)
    BY <1>1, <2>1, Parts DEF CallsInv, Stopped, StopFits
  <2>4. ASSUME q.who = "stop"  PROVE Past(S, g)
    <3>1. \A r \in Enables(S) : r.generation \in Nat /\ r.generation <= q.generation + 1
      <4>1. ASSUME NEW r \in Enables(S)  PROVE r \in Enables(calls) /\ r \in Calls /\ r.call = "set"
        BY Parts DEF Enables
      <4>2. \A r \in Enables(S) : r \in Sets
        BY <4>1, KindIs
      <4>3. QED
        BY <2>3, <2>4, <4>1, <4>2 DEF Past, Sets
    <3>2. QED
      BY <1>3, <3>1 DEF Past
  <2>5. QED
    BY <1>4, <1>7, <2>2, <2>4 DEF StopFits
<1>11. q.who = "manual" => \A r \in S : r.who # "manual"
  BY Parts DEF CallsInv, OneManual
<1> HIDE DEF y, s, S
<1>12. Fits(y, panel) /\ Dated(y, node)
  <2>1. q.who = "stop" => ~q.enable
    BY <1>1, <1>2 DEF Fits
  <2>2. Fits(y, panel)
    <3>1. y.call = "set" /\ (y.who = "stop" => ~y.enable)
      BY <1>4, <1>7, <1>8, <2>1
    <3>2. /\ y.who = "start" => panel.operation = "Starting"
          /\ y.who = "stop" => panel.operation \in Stops
          /\ y.who # "recovery"
      BY <1>2, <1>4, <1>7 DEF Fits
    <3>3. QED
      BY <3>1, <3>2 DEF Fits, Effects
  <2>3. QED
    BY <1>3, <1>7, <1>8, <2>2 DEF Dated
<1>13. CallsInv(S \cup {y}, panel, node)
  BY <1>4, <1>7, <1>8, <1>9, <1>10, <1>11, <1>12, AddedKeep
<1>14. CallsInv(S \cup {y}, s, node)
  <2>1. panel.operation \in Stops =>
          ("ok" \in {panel.control, panel.fallback} => Fenced(S \cup {y}, node))
    BY <1>13 DEF CallsInv, Stopped
  <2>2. QED
    BY <1>6, <1>13, <2>1, PanelKeeps DEF SameRecovery
<1>15. PanelInv(s) /\ Confirmed(s, node, recorder)
  BY <1>6, Parts, SameConfirmed DEF PanelInv, SameRecovery
<1>16. IInv'
  BY <1>1, <1>6, <1>14, <1>15, CountedSame, PanelOnly
<1>17. Step
  <2>1. Recovering /\ panel.pauseControl => ~q.enable
    BY <1>1, <1>2, Parts DEF Recovering, Fits, PanelInv
  <2>2. ~q.enable => Quiet(S \cup {y}, calls)
    BY <1>7, <1>8, <1>9 DEF Quiet, NoNewEnables
  <2>3. panel'.operation = panel.operation
    BY <1>1, <1>6 DEF SameRecovery
  <2>4. QED
    BY <1>1, <2>1, <2>2, <2>3 DEF Step, Recovering, Stops
<1>18. QED
  BY <1>16, <1>17

\* The answer to a key by hand.
LEMMA ManualAnsweredStep ==
  ASSUME IInv, NEW q \in calls, ManualAnswered(q)
  PROVE  IInv' /\ Step
<1> DEFINE S == calls \ {q}
           e == IF q.call = "control" THEN FALSE ELSE panel.manualEnable
           s == [panel EXCEPT !.pending = FALSE, !.manualEnable = e]
<1>1. /\ q.call \in {"control", "homed"} /\ q.who = "manual" /\ calls' = S /\ panel' = s
      /\ node' = node /\ recorder' = recorder /\ presses' = presses /\ losses' = losses
  BY DEF ManualAnswered
<1>2. q \in Replies /\ Fits(q, panel) /\ e \in BOOLEAN
  BY <1>1, Parts, KindIs DEF Replied, Panels
<1>3. ~e
  BY <1>1, <1>2 DEF Fits
<1> HIDE DEF e
<1>4. /\ s \in Panels /\ s.manualEnable = e /\ s.control = panel.control
      /\ s.fallback = panel.fallback /\ s.ids = panel.ids /\ SameRecovery(panel, s)
  BY <1>2, Parts DEF Panels, SameRecovery
<1>5. CallsInv(S, panel, node) /\ Quiet(S, calls)
  BY Parts, FewerKeep, QuietFewer
<1>6. \A r \in S : r.who # "manual"
  BY <1>1, Parts DEF CallsInv, OneManual
<1> HIDE DEF s, S
<1>7. CallsInv(S, s, node)
  <2>1. panel.operation \in Stops => ("ok" \in {panel.control, panel.fallback} => Fenced(S, node))
    BY <1>5 DEF CallsInv, Stopped
  <2>2. QED
    BY <1>4, <1>5, <1>6, <2>1, PanelKeeps DEF SameRecovery
<1>8. PanelInv(s) /\ Confirmed(s, node, recorder)
  BY <1>3, <1>4, Parts, SameConfirmed DEF PanelInv
<1>9. IInv'
  BY <1>1, <1>4, <1>7, <1>8, CountedSame, PanelOnly
<1>10. panel'.operation = panel.operation
  BY <1>1, <1>4 DEF SameRecovery
<1>11. QED
  BY <1>1, <1>5, <1>9, <1>10, StepSame

\* One answer of a combined operation, before what it decides.
LEMMA AnswerKeeps ==
  ASSUME IInv, NEW q \in calls, NEW s \in Panels,
         s.operation = panel.operation, s.request = panel.request, s.ids = panel.ids,
         s.manualEnable = panel.manualEnable, s.pending = panel.pending,
         s.pauseControl = panel.pauseControl,
         "ok" \in {s.control, s.fallback} =>
           \/ "ok" \in {panel.control, panel.fallback}
           \/ q.who = "stop" /\ q.call \in {"homed", "control"} /\ q.ok
  PROVE  PanelInv(s) /\ CallsInv(calls \ {q}, s, node)
<1>1. PanelInv(s)
  BY Parts DEF PanelInv
<1>2. panel.operation \in Stops => ("ok" \in {s.control, s.fallback} => Fenced(calls, node))
  BY Parts DEF CallsInv, Stopped, StopFits
<1>3. CallsInv(calls, s, node)
  BY <1>2, Parts, PanelKeeps
<1>4. QED
  BY <1>1, <1>3, FewerKeep

\* An answer is one of those that are waited for.
LEMMA OutcomeIs ==
  ASSUME NEW ok \in BOOLEAN
  PROVE  Outcome(ok) \in Answers /\ (Outcome(ok) = "ok" => ok)
BY DEF Outcome, Answers

\* An answer to a part of a combined operation.
LEMMA CombinedAnsweredStep ==
  ASSUME IInv, NEW q \in calls, CombinedAnswered(q)
  PROVE  IInv' /\ Step
<1> DEFINE S == calls \ {q}
           o == Outcome(q.ok)
           b == panel.recordPending /\ q.ok
           c == [panel EXCEPT !.control = o]
           r == [panel EXCEPT !.record = o]
           f == [panel EXCEPT !.fallback = o]
           d == [panel EXCEPT !.record = o, !.recordPending = b]
<1>1. /\ \/ q.who = "start" /\ q.call = "control" /\ EvaluateCombinedStart(c, S)
         \/ q.who = "start" /\ q.call = "started" /\ EvaluateCombinedStart(r, S)
         \/ q.who = "stop" /\ q.call = "homed" /\ EvaluateCombinedStop(c, S)
         \/ q.who = "stop" /\ q.call = "control" /\ EvaluateCombinedStop(f, S)
         \/ q.who = "stop" /\ q.call = "ended" /\ EvaluateCombinedStop(d, S)
      /\ node' = node /\ recorder' = recorder /\ presses' = presses /\ losses' = losses
  BY DEF CombinedAnswered
<1>2. /\ q.ok \in BOOLEAN /\ o \in Answers /\ (o = "ok" => q.ok) /\ b \in BOOLEAN
      /\ q.who = "start" => panel.operation = "Starting"
      /\ q.who = "stop" => panel.operation \in Stops
  <2>1. q \in Replies /\ Fits(q, panel)
    BY <1>1, Parts, KindIs DEF Replied
  <2>2. q.ok \in BOOLEAN
    BY <2>1 DEF Replies
  <2>3. b \in BOOLEAN
    BY <2>2, Parts DEF Panels
  <2>4. QED
    BY <2>1, <2>2, <2>3, OutcomeIs DEF Fits
<1> HIDE DEF o, b
<1>3. /\ c \in Panels /\ c.operation = panel.operation /\ c.request = panel.request
      /\ c.ids = panel.ids
      /\ c.manualEnable = panel.manualEnable /\ c.pending = panel.pending
      /\ c.pauseControl = panel.pauseControl /\ c.control = o /\ c.fallback = panel.fallback
  BY <1>2, Parts DEF Panels
<1>4. /\ r \in Panels /\ r.operation = panel.operation /\ r.request = panel.request
      /\ r.ids = panel.ids
      /\ r.manualEnable = panel.manualEnable /\ r.pending = panel.pending
      /\ r.pauseControl = panel.pauseControl /\ r.control = panel.control
      /\ r.fallback = panel.fallback
  BY <1>2, Parts DEF Panels
<1>5. /\ f \in Panels /\ f.operation = panel.operation /\ f.request = panel.request
      /\ f.ids = panel.ids
      /\ f.manualEnable = panel.manualEnable /\ f.pending = panel.pending
      /\ f.pauseControl = panel.pauseControl /\ f.control = panel.control /\ f.fallback = o
  BY <1>2, Parts DEF Panels
<1>6. /\ d \in Panels /\ d.operation = panel.operation /\ d.request = panel.request
      /\ d.ids = panel.ids
      /\ d.manualEnable = panel.manualEnable /\ d.pending = panel.pending
      /\ d.pauseControl = panel.pauseControl /\ d.control = panel.control
      /\ d.fallback = panel.fallback
  BY <1>2, Parts DEF Panels
<1> HIDE DEF S, c, r, f, d
<1>7. ASSUME q.who = "start"  PROVE IInv' /\ Step
  <2>1. panel.operation = "Starting"
    BY <1>2, <1>7
  <2>2. PICK p \in {c, r} : EvaluateCombinedStart(p, S)
    BY <1>1, <1>7
  <2>3. p \in Panels /\ p.operation = panel.operation /\ p.ids = panel.ids
    BY <1>3, <1>4, <2>2
  <2>4. PanelInv(p) /\ CallsInv(S, p, node)
    <3>1. PanelInv(c) /\ PanelInv(r)
      BY <1>3, <1>4, Parts DEF PanelInv
    <3>2. CallsInv(calls, c, node) /\ CallsInv(calls, r, node)
      BY <1>3, <1>4, <2>1, Parts, PanelKeeps DEF Stops
    <3>3. QED
      BY <2>2, <3>1, <3>2, FewerKeep DEF S
  <2>5. /\ PanelInv(panel') /\ CallsInv(calls', panel', node) /\ Confirmed(panel', node, recorder)
        /\ panel'.ids = p.ids
    BY <2>1, <2>2, <2>3, <2>4, StartKeep
  <2>6. QED
    BY <1>1, <2>1, <2>3, <2>5, CountedSame, PanelOnly, StepBefore
<1>8. ASSUME q.who = "stop"  PROVE IInv' /\ Step
  <2>1. panel.operation \in Stops
    BY <1>2, <1>8
  <2>2. \/ q.call = "homed" /\ EvaluateCombinedStop(c, S)
        \/ q.call = "control" /\ EvaluateCombinedStop(f, S)
        \/ q.call = "ended" /\ EvaluateCombinedStop(d, S)
    BY <1>1, <1>8
  <2>3. PICK p \in Panels : /\ EvaluateCombinedStop(p, S) /\ PanelInv(p) /\ CallsInv(S, p, node)
                            /\ p.operation = panel.operation /\ p.ids = panel.ids
    <3>1. CASE q.call = "homed" /\ EvaluateCombinedStop(c, S)
      <4>1. PanelInv(c) /\ CallsInv(S, c, node)
        BY <1>2, <1>3, <1>8, <3>1, AnswerKeeps DEF S
      <4>2. QED
        BY <1>3, <3>1, <4>1
    <3>2. CASE q.call = "control" /\ EvaluateCombinedStop(f, S)
      <4>1. PanelInv(f) /\ CallsInv(S, f, node)
        BY <1>2, <1>5, <1>8, <3>2, AnswerKeeps DEF S
      <4>2. QED
        BY <1>5, <3>2, <4>1
    <3>3. CASE q.call = "ended" /\ EvaluateCombinedStop(d, S)
      <4>1. PanelInv(d) /\ CallsInv(S, d, node)
        BY <1>6, AnswerKeeps DEF S
      <4>2. QED
        BY <1>6, <3>3, <4>1
    <3>4. QED
      BY <2>2, <3>1, <3>2, <3>3
  <2>4. /\ PanelInv(panel') /\ CallsInv(calls', panel', node) /\ Confirmed(panel', node, recorder)
        /\ panel'.ids = p.ids
        /\ panel'.operation = "Idle" => panel'.fallback = "failed" \/ Fenced(calls', node)
    BY <2>1, <2>3, StopKeep
  <2>5. Step
    BY <2>1, <2>4 DEF Step, Recovering, Stops
  <2>6. QED
    BY <1>1, <2>3, <2>4, <2>5, CountedSame, PanelOnly
<1>9. QED
  BY <1>1, <1>7, <1>8

\* A step of the panel that touches neither its operation nor what an enable or a stop rests on.
LEMMA BesideStep ==
  ASSUME IInv, NEW s \in Panels, SameRecovery(panel, s), s.manualEnable = panel.manualEnable,
         s.pending = panel.pending, s.ids = panel.ids,
         s.control = panel.control, s.fallback = panel.fallback,
         NEW Q, CallsInv(Q, panel, node)
  PROVE  PanelInv(s) /\ CallsInv(Q, s, node) /\ Confirmed(s, node, recorder)
<1>1. panel.operation \in Stops => ("ok" \in {panel.control, panel.fallback} => Fenced(Q, node))
  BY DEF CallsInv, Stopped
<1>2. CallsInv(Q, s, node)
  BY <1>1, PanelKeeps DEF SameRecovery
<1>3. QED
  BY <1>2, Parts, SameConfirmed DEF PanelInv, SameRecovery

\* The answer to a request to record by hand.
LEMMA RecordAnsweredStep ==
  ASSUME IInv, NEW q \in calls, RecordAnswered(q)
  PROVE  IInv' /\ Step
<1> DEFINE S == calls \ {q}
           i == IF q.ok THEN panel.manualRequest ELSE panel.recording
           b == panel.recordPending /\ q.ok /\ panel.state # "recording"
           d == panel.recordPending /\ q.ok
           s == [panel EXCEPT !.manualStart = FALSE, !.recording = i, !.recordPending = b]
           t == [panel EXCEPT !.recordPending = d]
<1>1. /\ q.call \in {"started", "ended"} /\ calls' = S
      /\ panel' = IF q.call = "started" THEN s ELSE t
      /\ node' = node /\ recorder' = recorder /\ presses' = presses /\ losses' = losses
  BY DEF RecordAnswered
<1>2. q.ok \in BOOLEAN
  BY <1>1, Parts, KindIs DEF Replied, Replies
<1>3. i \in Ids \cup {NoId} /\ b \in BOOLEAN /\ d \in BOOLEAN
  BY <1>2, Parts DEF Panels
<1> HIDE DEF i, b, d
<1>4. /\ s \in Panels /\ SameRecovery(panel, s) /\ s.manualEnable = panel.manualEnable
      /\ s.pending = panel.pending /\ s.ids = panel.ids
      /\ s.control = panel.control /\ s.fallback = panel.fallback
  BY <1>3, Parts DEF Panels, SameRecovery
<1>5. /\ t \in Panels /\ SameRecovery(panel, t) /\ t.manualEnable = panel.manualEnable
      /\ t.pending = panel.pending /\ t.ids = panel.ids
      /\ t.control = panel.control /\ t.fallback = panel.fallback
  BY <1>3, Parts DEF Panels, SameRecovery
<1>6. CallsInv(S, panel, node) /\ Quiet(S, calls)
  BY Parts, FewerKeep, QuietFewer
<1> HIDE DEF s, t, S
<1>7. /\ PanelInv(s) /\ CallsInv(S, s, node) /\ Confirmed(s, node, recorder)
      /\ PanelInv(t) /\ CallsInv(S, t, node) /\ Confirmed(t, node, recorder)
  BY <1>4, <1>5, <1>6, BesideStep
<1>8. panel'.operation = panel.operation /\ panel'.ids = panel.ids
  BY <1>1, <1>4, <1>5 DEF SameRecovery
<1>9. IInv'
  BY <1>1, <1>7, <1>8, CountedSame, PanelOnly
<1>10. QED
  BY <1>1, <1>6, <1>8, <1>9, StepSame

-----------------------------------------------------------------------------
(* The topic of the recorder *)

\* The topic speaks of a request that was made, or of none.
LEMMA StatusIs ==
  ASSUME IInv
  PROVE  Status.state \in {"idle", "recording", "saving"} /\ Status.id \in Ids \cup {NoId}
<1>1. CASE Active = {}
  BY <1>1 DEF Status
<1>2. CASE Active # {}
  <2> DEFINE i == CHOOSE i \in Active : TRUE
  <2>1. i \in Active
    BY <1>2
  <2>2. Status = [state |-> recorder[i], id |-> i]
    BY <1>2 DEF Status
  <2> HIDE DEF i
  <2>3. QED
    BY <2>1, <2>2 DEF Active
<1>3. QED
  BY <1>1, <1>2

\* A status of the recorder may end the request by hand, and nothing else.
LEMMA UpdatedIs ==
  ASSUME IInv, NEW Q, CallsInv(Q, panel, node), Quiet(Q, calls),
         NEW s, s = Updated(panel, Status), NEW R, R = Unawaited(panel, Status, Q)
  PROVE  /\ PanelInv(s) /\ CallsInv(R, s, node) /\ Confirmed(s, node, recorder)
         /\ Quiet(R, calls) /\ SameRecovery(panel, s) /\ s.ids = panel.ids
         /\ s.state = Status.state
<1> DEFINE b == panel.recordPending /\ (Status.state = panel.state \/ panel.manualStart)
           S == Superseded(Q, {"record"})
<1>1. s = [panel EXCEPT !.state = Status.state, !.recording = Status.id, !.recordPending = b]
  BY DEF Updated
<1>2. b \in BOOLEAN
  BY Parts DEF Panels
<1> HIDE DEF b
<1>3. /\ s \in Panels /\ SameRecovery(panel, s) /\ s.manualEnable = panel.manualEnable
      /\ s.pending = panel.pending /\ s.ids = panel.ids /\ s.state = Status.state
      /\ s.control = panel.control /\ s.fallback = panel.fallback
  BY <1>1, <1>2, Parts, StatusIs DEF Panels, SameRecovery
<1>4. CallsInv(S, panel, node) /\ Quiet(S, Q)
  <2>1. Q \subseteq Calls
    BY DEF CallsInv
  <2>2. QED
    BY <2>1, SupersededKeep, QuietSuperseded
<1>5. R \in {Q, S}
  BY DEF Unawaited
<1> HIDE DEF S
<1>6. CallsInv(R, panel, node) /\ Quiet(R, calls)
  BY <1>4, <1>5, QuietThen
<1>7. QED
  BY <1>3, <1>6, BesideStep

\* A message of the recorder.
LEMMA RecordingStatusStep ==
  ASSUME IInv, RecordingStatus
  PROVE  IInv' /\ Step
<1>1. /\ panel' = Updated(panel, Status) /\ calls' = Unawaited(panel, Status, calls)
      /\ node' = node /\ recorder' = recorder /\ presses' = presses /\ losses' = losses
  BY DEF RecordingStatus
<1>2. Quiet(calls, calls)
  BY QuietFewer
<1>3. /\ PanelInv(panel') /\ CallsInv(calls', panel', node) /\ Confirmed(panel', node, recorder)
      /\ Quiet(calls', calls) /\ SameRecovery(panel, panel') /\ panel'.ids = panel.ids
  BY <1>1, <1>2, Parts, UpdatedIs
<1>4. IInv'
  BY <1>1, <1>3, CountedSame, PanelOnly
<1>5. QED
  BY <1>3, <1>4, StepSame DEF SameRecovery

\* The status asked for after a late discard.
LEMMA StatusReportedStep ==
  ASSUME IInv, NEW q \in calls, StatusReported(q)
  PROVE  IInv' /\ Step
<1> DEFINE S == calls \ {q}
           p == Updated(panel, Status)
           Q == Unawaited(panel, Status, S)
<1>1. /\ IF Status.state = "recording" THEN RecordingAction(p, Q, TRUE)
                                       ELSE panel' = p /\ calls' = Q
      /\ node' = node /\ recorder' = recorder /\ presses' = presses /\ losses' = losses
  BY DEF StatusReported
<1>2. CallsInv(S, panel, node) /\ Quiet(S, calls)
  BY Parts, FewerKeep, QuietFewer
<1>3. /\ PanelInv(p) /\ CallsInv(Q, p, node) /\ Confirmed(p, node, recorder)
      /\ Quiet(Q, calls) /\ SameRecovery(panel, p) /\ p.ids = panel.ids
  BY <1>2, UpdatedIs
<1> HIDE DEF p, Q
<1>4. /\ PanelInv(panel') /\ CallsInv(calls', panel', node) /\ Confirmed(panel', node, recorder)
      /\ Quiet(calls', calls) /\ panel'.operation = panel.operation /\ panel'.ids = panel.ids
  <2>1. CASE Status.state = "recording"
    <3>1. RecordingAction(p, Q, TRUE)
      BY <1>1, <2>1
    <3>2. /\ PanelInv(panel') /\ CallsInv(calls', panel', node) /\ SameRecovery(p, panel')
          /\ Quiet(calls', Q) /\ panel'.ids = p.ids
      BY <1>3, <3>1, RecordingActionKeep
    <3>3. Confirmed(panel', node, recorder)
      BY <1>3, <3>2, SameConfirmed
    <3>4. Quiet(calls', calls)
      BY <1>3, <3>2, QuietThen
    <3>5. QED
      BY <1>3, <3>2, <3>3, <3>4 DEF SameRecovery
  <2>2. CASE Status.state # "recording"
    BY <1>1, <1>3, <2>2 DEF SameRecovery
  <2>3. QED
    BY <2>1, <2>2
<1>5. IInv'
  BY <1>1, <1>4, CountedSame, PanelOnly
<1>6. QED
  BY <1>4, <1>5, StepSame

-----------------------------------------------------------------------------
(* The node *)

\* A step of the node, to n.
LEMMA NodeStep ==
  ASSUME IInv, panel' = panel, recorder' = recorder, presses' = presses, losses' = losses,
         NEW n \in Nodes, node' = n, CallsInv(calls', panel, n), Confirmed(panel, n, recorder),
         Quiet(calls', calls)
  PROVE  IInv' /\ Step
<1>1. Counted'
  BY CountedSame
<1>2. IInv'
  BY <1>1, Parts DEF IInv, Inv
<1>3. QED
  BY <1>2, StepSame

\* The node tells its generation.
LEMMA ControlAskedStep ==
  ASSUME IInv, NEW q \in calls, ControlAsked(q)
  PROVE  IInv' /\ Step
<1> DEFINE S == calls \ {q}
           y == [call |-> "read", who |-> q.who, enable |-> q.enable, floor |-> q.floor,
                 generation |-> node.generation, enabled |-> node.enabled]
<1>1. /\ q.call = "ask" /\ calls' = S \cup {y} /\ node' = node /\ recorder' = recorder
      /\ panel' = panel /\ presses' = presses /\ losses' = losses
  BY DEF ControlAsked
<1>2. q \in Asks /\ Fits(q, panel) /\ node.generation \in Nat /\ node.enabled \in BOOLEAN
  BY <1>1, Parts, KindIs DEF Nodes
<1>3. /\ y \in Calls /\ y.call = "read" /\ y.who = q.who /\ y.generation = node.generation
      /\ y.floor = q.floor
  BY <1>2, CallsAre DEF Asks, Reads
<1>4. y.enable = q.enable /\ y.enabled = node.enabled
  OBVIOUS
<1>5. CallsInv(S, panel, node) /\ Quiet(S, calls)
  BY Parts, FewerKeep, QuietFewer
<1>6. y.who = "manual" => \A r \in S : r.who # "manual"
  BY <1>3, Parts DEF CallsInv, OneManual
<1> HIDE DEF y, S
<1>7. Fits(y, panel)
  BY <1>1, <1>2, <1>3, <1>4 DEF Fits, Effects
<1>8. Dated(y, node)
  BY <1>2, <1>3, <1>4 DEF Dated
<1>9. StopFits(y, S, node)
  <2>1. Past(S, node.generation + 1)
    BY <1>5 DEF Past, Enables, CallsInv, Dated
  <2>2. QED
    BY <1>3, <2>1 DEF StopFits
<1>10. CallsInv(S \cup {y}, panel, node) /\ Quiet(S \cup {y}, calls)
  BY <1>3, <1>5, <1>6, <1>7, <1>8, <1>9, AddedKeep, QuietAdded
<1>11. QED
  BY <1>1, <1>10, Parts, NodeStep

\* The node enables or pauses, or refuses an old generation.
LEMMA ControlSetStep ==
  ASSUME IInv, NEW q \in calls, ControlSet(q)
  PROVE  IInv' /\ Step
<1> DEFINE op == IF q.enable THEN "enable" ELSE "disable"
           new == q.generation > node.generation
           again == q.generation = node.generation /\ op = node.operation
           o == (new \/ again) /\ node'.success /\ node'.enabled = q.enable
<1>1. /\ q.call = "set" /\ calls' = Reply(q, Answered("control", q.who, o))
      /\ recorder' = recorder /\ panel' = panel /\ presses' = presses /\ losses' = losses
      /\ \E ok \in IF q.enable /\ ~node.enabled THEN BOOLEAN ELSE {TRUE} :
           node' = IF new THEN [generation |-> q.generation, operation |-> op, success |-> ok,
                                enabled |-> q.enable /\ ok]
                   ELSE node
  BY DEF ControlSet
<1>2. q \in Sets /\ q \in Calls /\ Fits(q, panel) /\ node \in Nodes
  BY <1>1, Parts, KindIs
<1>3. q.generation \in Nat /\ q.enable \in BOOLEAN /\ node.generation \in Nat
  BY <1>2 DEF Sets, Nodes
<1>4. /\ node' \in Nodes
      /\ ~new => node' = node
      /\ new => node'.generation = q.generation /\ (~q.enable => ~node'.enabled)
  <2>1. CASE ~new
    BY <1>1, <1>2, <2>1
  <2>2. CASE new
    <3>1. PICK ok \in BOOLEAN : node' = [generation |-> q.generation, operation |-> op,
                                         success |-> ok, enabled |-> q.enable /\ ok]
      BY <1>1, <2>2
    <3> DEFINE e == q.enable /\ ok
    <3>2. e \in BOOLEAN /\ op \in {"enable", "disable"} /\ (~q.enable => ~e)
      OBVIOUS
    <3> HIDE DEF e, op
    <3>3. node' = [generation |-> q.generation, operation |-> op, success |-> ok, enabled |-> e]
      BY <3>1 DEF e
    <3>4. node' \in Nodes /\ node'.generation = q.generation /\ node'.enabled = e
      BY <1>3, <3>2, <3>3 DEF Nodes
    <3>5. QED
      BY <2>2, <3>2, <3>4
  <2>3. QED
    BY <2>1, <2>2
<1>5. o \in BOOLEAN /\ (o => (new \/ again) /\ node'.enabled = q.enable)
  BY <1>4 DEF Nodes
<1> HIDE DEF o
<1>6. new /\ q.enable => ~Fenced(calls, node)
  BY <1>1, <1>3 DEF Fenced, Past, Enables
<1>7. node' = node \/ node'.generation > node.generation
  BY <1>4
<1>8. Fenced(calls, node) => ~node'.enabled
  BY <1>4, <1>6 DEF Fenced
<1>9. CallsInv(calls, panel, node') /\ Confirmed(panel, node', recorder)
  <2> DEFINE k == node'
  <2>1. /\ k \in Nodes /\ (k = node \/ k.generation > node.generation)
        /\ (Fenced(calls, node) => ~k.enabled)
    BY <1>4, <1>7, <1>8
  <2> HIDE DEF k
  <2>2. CallsInv(calls, panel, k) /\ Confirmed(panel, k, recorder)
    BY <1>2, <2>1, Parts, NodeKeeps
  <2>3. QED
    BY <2>2 DEF k
<1>10. q.who = "stop" /\ o => Fenced(calls, node')
  <2>1. SUFFICES ASSUME q.who = "stop", o  PROVE Fenced(calls, node')
    OBVIOUS
  <2>2. ~q.enable /\ panel.operation \in Stops
    BY <1>1, <1>2, <2>1 DEF Fits
  <2>3. Past(calls, q.generation)
    BY <1>1, <2>1, <2>2, Parts DEF CallsInv, Stopped, StopFits
  <2>4. node'.generation = q.generation
    BY <1>3, <1>4, <1>5, <2>1
  <2>5. ~node'.enabled
    BY <1>5, <2>1, <2>2
  <2>6. QED
    BY <2>3, <2>4, <2>5 DEF Fenced
<1>11. CallsInv(calls', panel, node') /\ Quiet(calls', calls)
  <2> DEFINE k == node'
  <2>1. "control" \in Replied
    BY DEF Replied
  <2>2. CallsInv(calls, panel, k) /\ (q.who = "stop" /\ o => Fenced(calls, k))
    BY <1>9, <1>10
  <2> HIDE DEF k
  <2>3. /\ CallsInv(Reply(q, Answered("control", q.who, o)), panel, k)
        /\ Quiet(Reply(q, Answered("control", q.who, o)), calls)
    BY <1>5, <2>1, <2>2, ReplyKeep
  <2>4. QED
    BY <1>1, <2>3 DEF k
<1>12. QED
  BY <1>1, <1>4, <1>9, <1>11, NodeStep

\* Everything that pauses is beyond the enables under way.
LEMMA FenceIs ==
  ASSUME IInv
  PROVE  /\ Fence(node) \in Nodes /\ Fence(node).generation > node.generation
         /\ Fenced(calls, Fence(node))
<1>1. node.generation \in Nat
  BY Parts DEF Nodes
<1>2. /\ Fence(node) \in Nodes /\ Fence(node).generation = node.generation + 1
      /\ ~Fence(node).enabled
  BY <1>1 DEF Fence, Nodes
<1>3. Past(calls, node.generation + 1)
  BY Parts DEF Past, Enables, Dated
<1>4. QED
  BY <1>1, <1>2, <1>3 DEF Fenced

\* The node returns home.
LEMMA HomeCalledStep ==
  ASSUME IInv, NEW q \in calls, HomeCalled(q)
  PROVE  IInv' /\ Step
<1>1. PICK o \in BOOLEAN : /\ node' = IF o THEN Fence(node) ELSE node
                           /\ calls' = Reply(q, Answered("homed", q.who, o))
  BY DEF HomeCalled
<1>2. /\ q.call = "home" /\ recorder' = recorder /\ panel' = panel
      /\ presses' = presses /\ losses' = losses
  BY DEF HomeCalled
<1> DEFINE k == IF o THEN Fence(node) ELSE node
<1>3. /\ k \in Nodes /\ (k = node \/ k.generation > node.generation)
      /\ Fenced(calls, node) => ~k.enabled
  BY Parts, FenceIs DEF Fenced
<1>4. o => Fenced(calls, k)
  BY FenceIs
<1>5. node' = k
  BY <1>1
<1> HIDE DEF k
<1>6. CallsInv(calls, panel, k) /\ Confirmed(panel, k, recorder)
  BY <1>3, Parts, NodeKeeps
<1>7. CallsInv(calls', panel, k) /\ Quiet(calls', calls)
  BY <1>1, <1>2, <1>4, <1>6, ReplyKeep DEF Replied
<1>8. QED
  BY <1>2, <1>3, <1>5, <1>6, <1>7, NodeStep

\* The node pauses by itself.
LEMMA SafetyPauseStep ==
  ASSUME IInv, SafetyPause
  PROVE  IInv' /\ Step
<1> DEFINE k == Fence(node)
<1>1. /\ node' = k /\ calls' = calls /\ recorder' = recorder /\ panel' = panel
      /\ presses' = presses /\ losses' = losses
  BY DEF SafetyPause
<1>2. k \in Nodes /\ k.generation > node.generation /\ ~k.enabled
  BY FenceIs DEF Fenced
<1> HIDE DEF k
<1>3. CallsInv(calls, panel, k) /\ Confirmed(panel, k, recorder)
  BY <1>2, Parts, NodeKeeps
<1>4. Quiet(calls, calls)
  BY QuietFewer
<1>5. QED
  BY <1>1, <1>2, <1>3, <1>4, NodeStep

-----------------------------------------------------------------------------
(* The recorder, and what is lost *)

\* A step of the recorder, to r: what has ended stays so.
LEMMA RecorderStep ==
  ASSUME IInv, panel' = panel, node' = node, presses' = presses, losses' = losses,
         NEW r \in [Ids -> States], recorder' = r,
         \A i \in Ids : recorder[i] \in Terminal => r[i] = recorder[i],
         CallsInv(calls', panel, node), Quiet(calls', calls)
  PROVE  IInv' /\ Step
<1>1. Confirmed(panel, node, r)
  BY Parts, RecorderKeeps
<1>2. Counted'
  BY CountedSame
<1>3. IInv'
  BY <1>1, <1>2, Parts DEF IInv, Inv
<1>4. QED
  BY <1>3, StepSame

\* The recorder takes a start, unless its request is over.
LEMMA RecorderStartsStep ==
  ASSUME IInv, NEW q \in calls, RecorderStarts(q)
  PROVE  IInv' /\ Step
<1>1. PICK s \in IF recorder[q.id] # "none" THEN {recorder[q.id]}
                 ELSE IF Active = {} THEN {"recording", "failed"} ELSE {"failed"} :
        /\ recorder' = [recorder EXCEPT ![q.id] = s]
        /\ calls' = Reply(q, Answered("started", q.who, recorder[q.id] = "none" /\ s = "recording"))
  BY DEF RecorderStarts
<1>2. /\ q.call = "start" /\ node' = node /\ panel' = panel
      /\ presses' = presses /\ losses' = losses
  BY DEF RecorderStarts
<1>3. q.id \in Ids
  BY <1>2, Parts DEF Fits
<1> DEFINE r == [recorder EXCEPT ![q.id] = s]
           o == recorder[q.id] = "none" /\ s = "recording"
<1>4. s \in States /\ (recorder[q.id] \in Terminal => s = recorder[q.id])
  BY <1>1, <1>3, Parts DEF States, Terminal
<1>5. r \in [Ids -> States] /\ \A i \in Ids : recorder[i] \in Terminal => r[i] = recorder[i]
  BY <1>3, <1>4, Parts
<1>6. o \in BOOLEAN /\ recorder' = r /\ calls' = Reply(q, Answered("started", q.who, o))
  BY <1>1
<1> HIDE DEF r, o
<1>7. CallsInv(calls', panel, node) /\ Quiet(calls', calls)
  BY <1>6, Parts, ReplyKeep DEF Replied
<1>8. QED
  BY <1>2, <1>5, <1>6, <1>7, RecorderStep

\* The recorder stops or drops a recording.
LEMMA RecorderEndsStep ==
  ASSUME IInv, NEW q \in calls, RecorderEnds(q)
  PROVE  IInv' /\ Step
<1> DEFINE old == IF q.id = NoId THEN "none" ELSE recorder[q.id]
           s == IF q.call = "stop" THEN "saving" ELSE "cancelled"
           r == IF old # "recording" THEN recorder ELSE [recorder EXCEPT ![q.id] = s]
           o == old = "recording" \/ (q.call = "stop" /\ old \in {"saving", "completed"})
<1>1. /\ recorder' = r /\ calls' = Reply(q, Answered("ended", q.who, o))
      /\ q.call \in {"stop", "cancel"} /\ node' = node /\ panel' = panel
      /\ presses' = presses /\ losses' = losses
  BY DEF RecorderEnds
<1>2. q.id \in Ids \cup {NoId}
  BY <1>1, Parts DEF Fits
<1>3. r \in [Ids -> States] /\ \A i \in Ids : recorder[i] \in Terminal => r[i] = recorder[i]
  <2>1. s \in States /\ "recording" \notin Terminal
    BY DEF States, Terminal
  <2>2. old = "recording" => q.id \in Ids /\ recorder[q.id] = "recording"
    BY <1>2
  <2> HIDE DEF s, old
  <2>3. QED
    BY <2>1, <2>2, Parts
<1>4. o \in BOOLEAN
  OBVIOUS
<1> HIDE DEF r, o
<1>5. CallsInv(calls', panel, node) /\ Quiet(calls', calls)
  BY <1>1, <1>4, Parts, ReplyKeep DEF Replied
<1>6. QED
  BY <1>1, <1>3, <1>5, RecorderStep

\* A save ends.
LEMMA RecorderSavesStep ==
  ASSUME IInv, RecorderSaves
  PROVE  IInv' /\ Step
<1>1. PICK i \in Ids, s \in Terminal :
             recorder[i] = "saving" /\ recorder' = [recorder EXCEPT ![i] = s]
  BY DEF RecorderSaves
<1>2. /\ calls' = calls /\ node' = node /\ panel' = panel /\ presses' = presses /\ losses' = losses
  BY DEF RecorderSaves
<1> DEFINE r == [recorder EXCEPT ![i] = s]
<1>3. r \in [Ids -> States] /\ \A j \in Ids : recorder[j] \in Terminal => r[j] = recorder[j]
  <2>1. s \in States /\ "saving" \notin Terminal
    BY DEF States, Terminal
  <2>2. QED
    BY <1>1, <2>1, Parts
<1>4. recorder' = r
  BY <1>1
<1> HIDE DEF r
<1>5. Quiet(calls, calls)
  BY QuietFewer
<1>6. QED
  BY <1>2, <1>3, <1>4, <1>5, Parts, RecorderStep

\* The recorder cancels by identifier, also a start it has not seen.
LEMMA RecorderCancelsStep ==
  ASSUME IInv, NEW q \in calls, RecorderCancels(q)
  PROVE  IInv' /\ Step
<1> DEFINE r == IF recorder[q.id] \in {"none", "recording"}
                THEN [recorder EXCEPT ![q.id] = "cancelled"] ELSE recorder
           S == calls \ {q}
<1>1. /\ recorder' = r /\ calls' = S /\ q.call = "cancel_request" /\ node' = node
      /\ panel' = panel /\ presses' = presses /\ losses' = losses
  BY DEF RecorderCancels
<1>2. q.id \in Ids
  BY <1>1, Parts DEF Fits
<1>3. r \in [Ids -> States] /\ \A i \in Ids : recorder[i] \in Terminal => r[i] = recorder[i]
  <2>1. "cancelled" \in States /\ {"none", "recording"} \cap Terminal = {}
    BY DEF States, Terminal
  <2>2. QED
    BY <1>2, <2>1, Parts
<1>4. CallsInv(S, panel, node) /\ Quiet(S, calls)
  BY Parts, FewerKeep, QuietFewer
<1> HIDE DEF r, S
<1>5. QED
  BY <1>1, <1>3, <1>4, RecorderStep

\* A call is lost.
LEMMA LoseStep ==
  ASSUME IInv, NEW q \in calls, Lose(q)
  PROVE  IInv' /\ Step
<1> DEFINE S == calls \ {q}
<1>1. /\ losses > 0 /\ losses' = losses - 1 /\ calls' = S /\ node' = node
      /\ recorder' = recorder /\ panel' = panel /\ presses' = presses
  BY DEF Lose
<1>2. CallsInv(S, panel, node) /\ Quiet(S, calls)
  BY Parts, FewerKeep, QuietFewer
<1>3. Counted'
  BY <1>1, PanelAssumption DEF IInv, Counted
<1> HIDE DEF S
<1>4. QED
  BY <1>1, <1>2, <1>3, Parts, PanelOnly, StepSame

-----------------------------------------------------------------------------
(* The theorems *)

\* Nothing was pressed yet.
LEMMA InitInvariant == Init => IInv
<1>1. SUFFICES ASSUME Init  PROVE IInv
  OBVIOUS
<1>2. panel \in Panels /\ panel.operation = "Idle" /\ ~panel.manualEnable /\ panel.ids = 0
  BY <1>1 DEF Init, Panels, Operations, Answers, NoId
<1>3. PanelInv(panel) /\ Confirmed(panel, node, recorder)
  BY <1>2 DEF PanelInv, Confirmed
<1>4. CallsInv(calls, panel, node)
  BY <1>1, <1>2 DEF Init, CallsInv, OneManual, Stopped, Stops
<1>5. node \in Nodes /\ recorder \in [Ids -> States]
  BY <1>1 DEF Init, Nodes, States
<1>6. Counted
  BY <1>1, <1>2, PanelAssumption DEF Init, Counted, Buttons
<1>7. QED
  BY <1>3, <1>4, <1>5, <1>6 DEF IInv, Inv

\* Every step keeps the invariant and is as the action properties say.
LEMMA StepIs ==
  ASSUME IInv, Next
  PROVE  IInv' /\ Step
<1>1. CASE Operator
  BY <1>1, StartCombinedStep, StopCombinedStep, DiscardCombinedStep, ToggleStep, PauseStep,
     HomeStep, RecordStep DEF Operator
<1>2. CASE Refresh
  BY <1>2, RecoveryRoundStep, ManualTimeoutStep, RecordTimeoutStep, StartTimeoutStep,
     StopTimeoutStep DEF Refresh
<1>3. CASE Spin
  BY <1>3, RecordingStatusStep, RecoveryReadStep, RecoveryFoundStep, ControlReadStep,
     ManualAnsweredStep, CombinedAnsweredStep, RecordAnsweredStep, StatusReportedStep DEF Spin
<1>4. CASE Node
  BY <1>4, SafetyPauseStep, ControlAskedStep, ControlSetStep, HomeCalledStep DEF Node
<1>5. CASE Recorder
  BY <1>5, RecorderSavesStep, RecorderStartsStep, RecorderEndsStep, RecorderCancelsStep DEF Recorder
<1>6. CASE \E q \in calls : Lose(q)
  BY <1>6, LoseStep
<1>7. QED
  BY <1>1, <1>2, <1>3, <1>4, <1>5, <1>6 DEF Next

\* A step that changes no variable.
LEMMA StutterIs ==
  ASSUME IInv, UNCHANGED vars
  PROVE  IInv' /\ Step
<1>1. /\ node' = node /\ recorder' = recorder /\ calls' = calls /\ panel' = panel
      /\ presses' = presses /\ losses' = losses
  BY DEF vars
<1>2. Quiet(calls, calls)
  BY QuietFewer
<1>3. QED
  BY <1>1, <1>2, Parts, NodeStep

\* The invariant holds, and each step keeps what was confirmed and asks for no enable meanwhile.
THEOREM PanelInvariant == Spec => []IInv /\ [][Step]_vars
<1>1. IInv /\ [Next]_vars => IInv' /\ [Step]_vars
  BY StepIs, StutterIs
<1>2. QED
  BY <1>1, InitInvariant, PTL DEF Spec

\* Every variable keeps its type, and nobody waits for an answer that nobody asked for.
THEOREM TypesCorrect == Spec => []TypeOK
<1>1. IInv => TypeOK
  BY DEF IInv, Inv, PanelInv, CallsInv, Fits, Counted, Nodes, States, Panels, TypeOK
<1>2. QED
  BY <1>1, PanelInvariant, PTL

\* A roll-back ends only when the request to record it is about has ended for good and the
\* node is paused beyond the enable of the start, if there was one.
THEOREM RecoveryConfirmsCorrect == Spec => RecoveryConfirms
<1>1. [Step]_vars =>
        [Recovering /\ panel'.operation = "Idle" =>
           /\ panel.request # NoId => recorder[panel.request] \in Terminal
           /\ panel.pauseControl =>
                /\ node.generation >= panel.startGeneration
                /\ node.enabled => node.generation > panel.startGeneration]_vars
  BY DEF Step, Settled, PausedFrom
<1>2. QED
  BY <1>1, PanelInvariant, PTL DEF RecoveryConfirms

\* While a start that has the arm to pause is rolled back, no late answer enables the arm or
\* starts a recording.
THEOREM NothingStartsMeanwhileCorrect == Spec => NothingStartsMeanwhile
<1> DEFINE A == Recovering /\ panel.pauseControl /\ panel'.operation = "RollingBack" =>
                  /\ {q.generation : q \in Enables(calls')}
                       \subseteq {q.generation : q \in Enables(calls)}
                  /\ {q.id : q \in {r \in calls' : r.call = "start"}}
                       \subseteq {q.id : q \in {r \in calls : r.call = "start"}}
<1>1. Step => A
  <2>1. SUFFICES ASSUME Quiet(calls', calls)  PROVE A
    BY DEF Step
  <2>2. {q.generation : q \in Enables(calls')} \subseteq {q.generation : q \in Enables(calls)}
    BY <2>1 DEF Quiet, NoNewEnables, Enables
  <2>3. {q.id : q \in {r \in calls' : r.call = "start"}}
          \subseteq {q.id : q \in {r \in calls : r.call = "start"}}
    BY <2>1 DEF Quiet
  <2>4. QED
    BY <2>2, <2>3
<1>2. [Step]_vars => [A]_vars
  BY <1>1
<1>3. QED
  BY <1>2, PanelInvariant, PTL DEF NothingStartsMeanwhile

\* A combined stop leaves the arm paused for good, with no enable under way that could undo it,
\* or a pause under way, or its refusal known.
THEOREM StoppedIsPausedCorrect == Spec => StoppedIsPaused
<1>1. [Step]_vars =>
        [panel.operation \in {"Stopping", "Discarding"} /\ panel'.operation = "Idle"
           => \/ panel'.fallback = "failed"
              \/ \E q \in calls' : q.call = "ask" /\ q.who = "unguarded"
              \/ Fenced(calls', node)]_vars
  BY DEF Step, Stops
<1>2. QED
  BY <1>1, PanelInvariant, PTL DEF StoppedIsPaused

=============================================================================
