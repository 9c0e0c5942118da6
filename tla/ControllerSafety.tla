------------------------- MODULE ControllerSafety -------------------------
(***************************************************************************)
(* What the service promises of the records it makes: a published record   *)
(* is whole, an open bag is left alone, nothing is forgotten in the        *)
(* staging area, the operator can always go on, and the head of a bag is   *)
(* complete.  For any number of service threads, collections, messages and *)
(* restarts, and any set of faults.                                        *)
(***************************************************************************)
EXTENDS ControllerRefinement, FiniteSetTheorems, SequenceTheorems

-----------------------------------------------------------------------------
(* The inductive invariant *)

Writing(c) == writer[c].thread = "run"
In(w, S)   == worker[w].pc \in S

\* START comes first and only there, and after STOP nothing is accepted any more.
Shape(c) ==
  \A i \in 1 .. Len(log[c]) :
    /\ log[c][i].kind = "START" <=> i = 1
    /\ log[c][i].kind = "STOP" => i = Len(log[c]) /\ ~Accepting(c)

\* The keyframe comes after START and the static transform.
HeadOk(c) ==
  KeyframeStart =>
    \E i \in 1 .. Len(log[c]) :
      /\ log[c][i].kind = "keyframe"
      /\ \A j \in 1 .. i - 1 : log[c][j].kind \in {"START", "tf"}

\* What _verify_writer has established of the bag.
Vouched(c) ==
  /\ writer[c].thread = "dead" /\ disk[c].bag = "complete"
  /\ WellFormed(c) /\ HeadOk(c)

\* The bag of a collection, whatever the service does ...
LogAt(c) ==
  /\ c > issued => writer[c] = NoWriter /\ log[c] = <<>>
  /\ Shape(c)
  /\ writer[c].thread = "dead" /\ ~writer[c].failed /\ ~writer[c].dropped
       => disk[c].bag = "complete"
  /\ writer[c].thread # "none" /\ log[c] # <<>> /\ ~writer[c].failed => HeadOk(c)

\* ... and its directory.
DirAt(c) ==
  /\ disk[c].where = "none" => disk[c].intact
  /\ disk[c].where = "staging" /\ disk[c].intact => disk[c].marker
  /\ Published(c) => /\ disk[c].bag = "complete" /\ disk[c].session = "saved"
                     /\ WellFormed(c) /\ HeadOk(c) /\ ~Writing(c)

Logs == \A c \in Collections : LogAt(c)
Dirs == \A c \in Collections : DirAt(c)

\* What a thread has reached that is at step pc of its request for c.
ReachedAt(pc, c) ==
  /\ pc \in {"stage", "open"} => writer[c] = NoWriter
  /\ pc \in {"stage", "open", "activate"} => active # c
  /\ pc \in {"stage", "open", "activate", "begin", "arm"} => log[c] = <<>>
  /\ pc \in {"activate", "begin", "admit", "arm", "wait", "ready", "unjoin", "quiesce", "join"}
       => writer[c].thread # "none"
  /\ pc = "quiesce" => log[c] # <<>>
  /\ pc \in {"session", "manifest", "check", "rename"} => Vouched(c)
  /\ pc \in {"undiscard", "undone", "discard", "cancelled"} => ~Writing(c)
  /\ pc \in {"trash", "rmdir"} => Published(c)
  /\ pc \in {"check", "rename"} => disk[c].session = "saved"
  /\ KeyframeStart => pc \notin {"begin", "admit"}

ReachedBy(w) == ReachedAt(worker[w].pc, worker[w].col)
Reached      == \A w \in Workers : ReachedBy(w)

\* The bag of a collection that is being recorded is open, and its failure is known.
Sane(c) ==
  /\ Writing(c) /\ ~writer[c].closing
  /\ writer[c].failed => writerError # ""

\* While the service is open: which collection is the active one, ...
RoleAt(pc, c) ==
  /\ pc \in {"stage", "open", "activate"} => active = None
  /\ pc \in {"begin", "admit", "arm", "wait", "ready", "unjoin"} \cup Stopping \cup Saving
            \cup Cancelling => active = c
  /\ pc \in {"undo", "undiscard", "undone"} => active \in {None, c}
  /\ pc = "undo" /\ writer[c].thread # "none" => active = c

\* ... whether its messages are admitted, ...
AdmitsAt(pc, c) ==
  /\ pc \in {"ready", "quiesce"} => admitting
  /\ pc = "wait" => /\ gate.col = c
                    /\ gate.is = "done" => admitting
                    /\ gate.is = "armed" => log[c] = <<>>

\* ... and what its bag and its directory are.
HoldsAt(pc, c) ==
  /\ pc \in {"activate", "begin", "admit", "arm", "wait", "ready", "quiesce"} => Sane(c)
  /\ pc = "admit" => log[c] # <<>>
  /\ pc = "open" => disk[c].where = "staging" /\ disk[c].intact
  /\ pc \in {"join", "session", "manifest", "check", "rename"} => disk[c].intact
  /\ pc = "undone" => ~(disk[c].where = "staging" /\ disk[c].intact)
  /\ pc = "cancelled" => disk[c].where # "staging"

ThreadAt(pc, c) == RoleAt(pc, c) /\ AdmitsAt(pc, c) /\ HoldsAt(pc, c)
ThreadInv(w)    == ThreadAt(worker[w].pc, worker[w].col)

\* The state names the request under way, and a collection is held outside idle.
StateInv ==
  /\ state = "idle" => active = None
  /\ state \notin {"idle", "starting"} => active # None
  /\ state \in {"starting", "stopping", "saving", "cancelling"}
       => \E w \in Workers : In(w, Lifecycle)
  /\ state = "recording" => admitting
  /\ state = "pending" => Vouched(active) /\ disk[active].intact

\* Messages are admitted into a log that has its head, from START to STOP.
AdmitInv ==
  /\ admitting => /\ active # None /\ log[active] # <<>> /\ Sane(active)
                  /\ \/ state = "recording"
                     \/ \E w \in Workers : \/ In(w, {"ready", "quiesce", "abort"})
                                           \/ In(w, {"wait"}) /\ gate.is = "done"
  /\ gate.is # "none" => \E w \in Workers : In(w, {"wait"})

\* An open bag has its directory and belongs to the active collection, and what is in the
\* staging area belongs to somebody.
BagAt(c) ==
  /\ Writing(c) =>
       /\ disk[c].where = "staging" /\ disk[c].intact
       /\ c = active \/ \E w \in Workers : In(w, {"activate"}) /\ worker[w].col = c
  /\ disk[c].where = "staging" /\ disk[c].intact =>
       c = active \/ \E w \in Workers : worker[w].col = c /\ worker[w].pc # "idle"

BagInv == \A c \in Collections : BagAt(c)

\* The transform that is cached is in the log, or on its way there.
TfInv ==
  KeyframeStart /\ admitting /\ tfCached /\ input.pc # "tf" /\ writerError = ""
    => \E i \in 1 .. Len(log[active]) : log[active][i].kind = "tf"

OpenInv ==
  Open => (\A w \in Workers : ThreadInv(w)) /\ StateInv /\ AdmitInv /\ BagInv /\ TfInv

\* An orderly exit: nothing runs in it, and a bag is open only until it is cleaned up.
ExitInv ==
  OrderlyExit =>
    /\ ~Open => \A w \in Workers : worker[w].pc = "idle"
    /\ \A c \in Collections : Published(c) => disk[c].intact
    /\ \A c \in Collections : ~Open /\ Writing(c) =>
         /\ c = active /\ exit.pc \in {"settle", "abort", "join", "raised"}
         /\ disk[c].where = "staging" /\ disk[c].intact
    /\ exit.pc = "join" => exit.col = active

InputRests == ~Open => input.pc = "idle"

JInv == IInv /\ Logs /\ Dirs /\ Reached /\ OpenInv /\ ExitInv /\ InputRests

-----------------------------------------------------------------------------
(* What the service does to bags *)

\* The bags and the directories but the one of c stay as they are.
BagsOf(c) == \A d \in Collections \ {c} : writer'[d] = writer[d] /\ log'[d] = log[d]
DirsOf(c) == \A d \in Collections \ {c} : disk'[d] = disk[d]

\* The elements of a concatenation.
LEMMA ConcatIs ==
  ASSUME NEW S, NEW a \in Seq(S), NEW b \in Seq(S)
  PROVE  /\ Len(a \o b) = Len(a) + Len(b) /\ Len(a) \in Nat
         /\ \A i \in 1 .. Len(a) : (a \o b)[i] = a[i]
         /\ \A i \in 1 .. Len(b) : (a \o b)[Len(a) + i] = b[i]
         /\ Len(b) = 0 => a \o b = a
<1>1. Len(b) = 0 => b = <<>>
  OBVIOUS
<1>2. a \o <<>> = a
  OBVIOUS
<1>3. QED
  BY <1>1, <1>2

\* offer puts the first k messages at the end of the log, and fails if they are not all.
Grown(c, ms, k, closing) ==
  /\ Len(log'[c]) = Len(log[c]) + k /\ Len(log[c]) \in Nat /\ k \in Nat /\ Len(ms) \in Nat
  /\ \A i \in 1 .. Len(log[c]) : log'[c][i] = log[c][i]
  /\ \A i \in 1 .. k : log'[c][Len(log[c]) + i] = ms[i]
  /\ k = 0 => log'[c] = log[c]
  /\ k > 0 => Accepting(c)

Flagged(c, ms, k, closing) ==
  /\ writer'[c].thread = writer[c].thread /\ writer'[c].dropped = writer[c].dropped
  /\ writer'[c].closing = (writer[c].closing \/ closing)
  /\ writer'[c].failed = (writer[c].failed \/ (k < Len(ms) /\ Accepting(c)))
  /\ IF k < Len(ms) /\ Accepting(c) THEN writerError' # "" ELSE writerError' = writerError

\* What offer does to the log and to the flags of c, and that other bags are left alone.
LEMMA OfferIs ==
  ASSUME TypeOK, NEW c \in Collections, NEW ms \in Seq(Messages), NEW k \in 0 .. Len(ms),
         NEW closing \in BOOLEAN, Offered(c, ms, k, closing)
  PROVE  BagsOf(c) /\ Grown(c, ms, k, closing) /\ Flagged(c, ms, k, closing)
<1>1. /\ log[c] \in Seq(Messages) /\ log \in [Collections -> Seq(Messages)]
      /\ writer \in [Collections -> Writers] /\ Len(ms) \in Nat
  BY DEF TypeOK
<1>2. /\ SubSeq(ms, 1, k) \in Seq(Messages) /\ Len(SubSeq(ms, 1, k)) = k
      /\ \A i \in 1 .. k : SubSeq(ms, 1, k)[i] = ms[i]
  OBVIOUS
<1> DEFINE part == SubSeq(ms, 1, k)
<1> HIDE DEF part
<1>3. /\ log' = [log EXCEPT ![c] = @ \o part]
      /\ writer' = [writer EXCEPT ![c].failed = @ \/ (k < Len(ms) /\ Accepting(c)),
                                  ![c].closing = @ \/ closing]
      /\ IF Accepting(c) THEN k = Len(ms) \/ "overflow" \in Faults ELSE k = 0
      /\ writerError' = IF k < Len(ms) /\ Accepting(c) THEN Noted("overflow") ELSE writerError
  BY DEF Offered, part
<1>4. part \in Seq(Messages) /\ Len(part) = k /\ \A i \in 1 .. k : part[i] = ms[i]
  BY <1>2 DEF part
<1>5. log'[c] = log[c] \o part /\ \A d \in Collections \ {c} : log'[d] = log[d]
  BY <1>1, <1>3
<1>6. /\ Len(log[c] \o part) = Len(log[c]) + Len(part) /\ Len(log[c]) \in Nat
      /\ \A i \in 1 .. Len(log[c]) : (log[c] \o part)[i] = log[c][i]
      /\ \A i \in 1 .. Len(part) : (log[c] \o part)[Len(log[c]) + i] = part[i]
      /\ Len(part) = 0 => log[c] \o part = log[c]
  BY <1>1, <1>4, ConcatIs
<1>8. /\ \A d \in Collections \ {c} : writer'[d] = writer[d]
      /\ writer'[c].thread = writer[c].thread /\ writer'[c].dropped = writer[c].dropped
      /\ writer'[c].closing = (writer[c].closing \/ closing)
      /\ writer'[c].failed = (writer[c].failed \/ (k < Len(ms) /\ Accepting(c)))
  BY <1>1, <1>3 DEF Writers
<1>9. Accepting(c) \in BOOLEAN
  BY <1>1 DEF Accepting, Writers
<1>10. IF k < Len(ms) /\ Accepting(c) THEN writerError' # "" ELSE writerError' = writerError
  BY <1>3 DEF Noted
<1>11. k > 0 => Accepting(c)
  BY <1>3, <1>9
<1>12. Grown(c, ms, k, closing)
  BY <1>1, <1>4, <1>5, <1>6, <1>11 DEF Grown
<1>13. Flagged(c, ms, k, closing)
  BY <1>8, <1>10, Zenon DEF Flagged
<1>14. BagsOf(c)
  BY <1>5, <1>8 DEF BagsOf
<1>15. QED
  BY <1>12, <1>13, <1>14

\* The log of a bag keeps its shape if START opens it and STOP closes it.
LEMMA OfferShape ==
  ASSUME TypeOK, NEW c \in Collections, NEW ms \in Seq(Messages), NEW k \in 0 .. Len(ms),
         NEW closing \in BOOLEAN, Offered(c, ms, k, closing), Shape(c),
         \A i \in 1 .. k : /\ ms[i].kind = "START" <=> i = 1 /\ log[c] = <<>>
                           /\ ms[i].kind = "STOP" => i = k /\ closing
  PROVE  Shape(c)'
<1>1. Grown(c, ms, k, closing) /\ Flagged(c, ms, k, closing)
  BY OfferIs
<1>2. log[c] = <<>> <=> Len(log[c]) = 0
  BY DEF TypeOK
<1>3. Accepting(c)' => Accepting(c) /\ ~closing
  BY <1>1 DEF Flagged, Accepting, TypeOK, Writers
<1>4. ASSUME NEW i \in 1 .. Len(log'[c])
      PROVE  /\ log'[c][i].kind = "START" <=> i = 1
             /\ log'[c][i].kind = "STOP" => i = Len(log'[c]) /\ ~Accepting(c)'
  <2>1. CASE i \in 1 .. Len(log[c])
    <3>1. /\ log[c][i].kind = "START" <=> i = 1
          /\ log[c][i].kind = "STOP" => i = Len(log[c]) /\ ~Accepting(c)
      BY <2>1 DEF Shape
    <3>2. log'[c][i] = log[c][i]
      BY <1>1, <2>1 DEF Grown
    <3>3. log[c][i].kind = "STOP" => k = 0
      BY <1>1, <3>1 DEF Grown
    <3>4. QED
      BY <1>1, <1>3, <3>1, <3>2, <3>3 DEF Grown
  <2>2. CASE i \notin 1 .. Len(log[c])
    <3>1. PICK j \in 1 .. k : i = Len(log[c]) + j
      <4>1. i - Len(log[c]) \in 1 .. k /\ i = Len(log[c]) + (i - Len(log[c]))
        BY <1>1, <1>4, <2>2 DEF Grown
      <4>2. QED
        BY <4>1
    <3>2. log'[c][i] = ms[j] /\ (i = 1 <=> j = 1 /\ Len(log[c]) = 0)
      BY <1>1, <3>1 DEF Grown
    <3>3. /\ ms[j].kind = "START" <=> j = 1 /\ log[c] = <<>>
          /\ ms[j].kind = "STOP" => j = k /\ closing
      BY <3>1
    <3>4. QED
      BY <1>1, <1>2, <1>3, <3>1, <3>2, <3>3 DEF Grown
  <2>3. QED
    BY <2>1, <2>2
<1>5. QED
  BY <1>4 DEF Shape

\* A log that grows keeps its head.
LEMMA HeadGrows ==
  ASSUME TypeOK, NEW c \in Collections, HeadOk(c), Len(log[c]) \in Nat, Len(log'[c]) \in Nat,
         Len(log'[c]) >= Len(log[c]), \A i \in 1 .. Len(log[c]) : log'[c][i] = log[c][i]
  PROVE  HeadOk(c)'
<1>1. SUFFICES ASSUME KeyframeStart
               PROVE  \E i \in 1 .. Len(log'[c]) :
                        /\ log'[c][i].kind = "keyframe"
                        /\ \A j \in 1 .. i - 1 : log'[c][j].kind \in {"START", "tf"}
  BY DEF HeadOk
<1>2. PICK i \in 1 .. Len(log[c]) :
        /\ log[c][i].kind = "keyframe"
        /\ \A j \in 1 .. i - 1 : log[c][j].kind \in {"START", "tf"}
  BY <1>1 DEF HeadOk
<1>3. /\ i \in 1 .. Len(log'[c]) /\ log'[c][i] = log[c][i]
      /\ \A j \in 1 .. i - 1 : j \in 1 .. Len(log[c])
  BY <1>2
<1>4. QED
  BY <1>2, <1>3

\* offer keeps what is known of the bag.
LEMMA OfferLog ==
  ASSUME TypeOK, NEW c \in Collections, NEW ms \in Seq(Messages), NEW k \in 0 .. Len(ms),
         NEW closing \in BOOLEAN, Offered(c, ms, k, closing), LogAt(c), c <= issued,
         UNCHANGED <<issued, disk>>,
         \A i \in 1 .. k : /\ ms[i].kind = "START" <=> i = 1 /\ log[c] = <<>>
                           /\ ms[i].kind = "STOP" => i = k /\ closing,
         KeyframeStart /\ log[c] = <<>> /\ k > 0 /\ k = Len(ms) =>
           \E i \in 1 .. k : /\ ms[i].kind = "keyframe"
                             /\ \A j \in 1 .. i - 1 : ms[j].kind \in {"START", "tf"}
  PROVE  LogAt(c)'
<1>1. Shape(c)'
  BY OfferShape DEF LogAt
<1>2. Grown(c, ms, k, closing) /\ Flagged(c, ms, k, closing)
  BY OfferIs
<1>3. log[c] = <<>> <=> Len(log[c]) = 0
  BY DEF TypeOK
<1>4. c \in Nat /\ issued \in Nat
  BY ControllerAssumption DEF TypeOK, Collections
<1>5. ASSUME writer'[c].thread # "none", log'[c] # <<>>, ~writer'[c].failed
      PROVE  HeadOk(c)'
  <2>1. CASE log[c] # <<>>
    <3>1. HeadOk(c)
      BY <1>2, <1>5, <2>1 DEF LogAt, Flagged
    <3>2. Len(log'[c]) \in Nat /\ Len(log'[c]) >= Len(log[c])
      BY <1>2 DEF Grown
    <3>3. QED
      BY <1>2, <3>1, <3>2, HeadGrows DEF Grown
  <2>2. CASE log[c] = <<>>
    <3>1. SUFFICES ASSUME KeyframeStart
                   PROVE  \E i \in 1 .. Len(log'[c]) :
                            /\ log'[c][i].kind = "keyframe"
                            /\ \A j \in 1 .. i - 1 : log'[c][j].kind \in {"START", "tf"}
      BY DEF HeadOk
    <3>2. k > 0 /\ Accepting(c) /\ k = Len(ms)
      <4>1. k > 0
        BY <1>2, <1>5, <2>2 DEF Grown
      <4>2. ~(k < Len(ms) /\ Accepting(c))
        BY <1>2, <1>5 DEF Flagged
      <4>3. QED
        BY <1>2, <4>1, <4>2 DEF Grown
    <3>3. PICK i \in 1 .. k : /\ ms[i].kind = "keyframe"
                              /\ \A j \in 1 .. i - 1 : ms[j].kind \in {"START", "tf"}
      BY <2>2, <3>1, <3>2
    <3>4. \A j \in 1 .. k : log'[c][j] = ms[j] /\ j \in 1 .. Len(log'[c])
      BY <1>2, <1>3, <2>2 DEF Grown
    <3>5. \A j \in 1 .. i - 1 : j \in 1 .. k
      BY <1>2, <3>3 DEF Grown
    <3>6. QED
      BY <3>3, <3>4, <3>5
  <2>3. QED
    BY <2>1, <2>2
<1>6. ~(c > issued')
  BY <1>4
<1>7. writer'[c].thread = "dead" /\ ~writer'[c].failed /\ ~writer'[c].dropped
        => disk'[c].bag = "complete"
  BY <1>2 DEF LogAt, Flagged
<1>8. QED
  BY <1>1, <1>5, <1>6, <1>7, Zenon DEF LogAt

\* A bag to which nothing is added: its flags are only set, its thread only ends.
Tame(c) ==
  /\ log'[c] = log[c]
  /\ \/ /\ writer'[c].thread = writer[c].thread
        /\ disk[c].bag = "complete" => disk'[c].bag = "complete"
     \/ /\ Writing(c) /\ writer'[c].thread = "dead"
        /\ ~writer'[c].failed /\ ~writer'[c].dropped => disk'[c].bag = "complete"
  /\ writer[c].failed => writer'[c].failed
  /\ writer[c].closing => writer'[c].closing
  /\ writer[c].dropped => writer'[c].dropped

\* What is known of a bag stays true of one to which nothing is added.
LEMMA TameLog ==
  ASSUME TypeOK, TypeOK', NEW c \in Collections, LogAt(c), Tame(c), issued' = issued,
         c <= issued \/ writer'[c] = writer[c]
  PROVE  LogAt(c)'
<1>1. c \in Nat /\ issued \in Nat
  BY ControllerAssumption DEF TypeOK, Collections
<1>2. c > issued' => writer'[c] = NoWriter /\ log'[c] = <<>>
  BY <1>1 DEF LogAt, Tame
<1>3. Shape(c)'
  <2>1. Accepting(c)' => Accepting(c)
    BY DEF Accepting, Tame, Writing, TypeOK, Writers
  <2>2. Shape(c) /\ log'[c] = log[c]
    BY DEF LogAt, Tame
  <2>3. QED
    BY <2>1, <2>2 DEF Shape
<1>4. writer'[c].thread = "dead" /\ ~writer'[c].failed /\ ~writer'[c].dropped
        => disk'[c].bag = "complete"
  BY DEF LogAt, Tame, Writing
<1>5. writer'[c].thread # "none" /\ log'[c] # <<>> /\ ~writer'[c].failed => HeadOk(c)'
  BY DEF LogAt, Tame, Writing, HeadOk
<1>6. QED
  BY <1>2, <1>3, <1>4, <1>5 DEF LogAt

\* Nothing happens to a bag and its directory.
Rests(c) == writer'[c] = writer[c] /\ log'[c] = log[c] /\ disk'[c].bag = disk[c].bag

\* A bag to which nothing happens is one of them.
LEMMA RestsTame == \A c \in Collections : Rests(c) => Tame(c)
BY DEF Rests, Tame

\* A directory that stays what it is, but that its bag may become complete.
Stays(c) ==
  /\ disk'[c].where = disk[c].where /\ disk'[c].marker = disk[c].marker
  /\ disk'[c].intact = disk[c].intact /\ disk'[c].session = disk[c].session
  /\ disk[c].bag = "complete" => disk'[c].bag = "complete"

\* What is known of a directory stays true of one that stays what it is.
LEMMA StaysDir ==
  ASSUME NEW c \in Collections, DirAt(c), Stays(c), log'[c] = log[c] \/ Writing(c),
         Writing(c)' => ~Published(c)
  PROVE  DirAt(c)'
<1>1. Published(c)' <=> Published(c)
  BY DEF Published, Stays
<1>2. Published(c) => log'[c] = log[c] /\ ~Writing(c)'
  BY DEF DirAt
<1>3. Published(c) /\ log'[c] = log[c] => WellFormed(c)' /\ HeadOk(c)'
  BY DEF DirAt, WellFormed, HeadOk
<1>4. QED
  BY <1>1, <1>2, <1>3 DEF DirAt, Stays

\* An abort closes the bag and may throw away what is queued.
LEMMA AbortIs ==
  ASSUME TypeOK, NEW c \in Collections, NEW drop \in BOOLEAN, Aborted(c, drop)
  PROVE  /\ \A d \in Collections \ {c} : writer'[d] = writer[d]
         /\ writer'[c].thread = writer[c].thread /\ writer'[c].failed = writer[c].failed
         /\ writer'[c].closing = TRUE
         /\ writer[c].dropped => writer'[c].dropped
BY DEF TypeOK, Aborted, Writers

\* A join that times out, or a failing write, marks the bag as failed.
LEMMA FailIs ==
  ASSUME TypeOK, NEW c \in Collections, writer' = [writer EXCEPT ![c].failed = TRUE]
  PROVE  /\ \A d \in Collections \ {c} : writer'[d] = writer[d]
         /\ writer'[c].thread = writer[c].thread /\ writer'[c].dropped = writer[c].dropped
         /\ writer'[c].closing = writer[c].closing /\ writer'[c].failed
BY DEF TypeOK, Writers

\* The flags after a join: the writer of c has failed if it was found so.
LEMMA JudgedIs ==
  ASSUME TypeOK, NEW c \in Collections, NEW b,
         writer' = [writer EXCEPT ![c].failed = @ \/ b]
  PROVE  /\ \A d \in Collections \ {c} : writer'[d] = writer[d]
         /\ writer'[c].thread = writer[c].thread /\ writer'[c].dropped = writer[c].dropped
         /\ writer'[c].closing = writer[c].closing
         /\ writer'[c].failed = (writer[c].failed \/ b)
BY DEF TypeOK, Writers

\* The thread ends; its bag is complete if nothing went wrong.
LEMMA EndIs ==
  ASSUME TypeOK, NEW c \in Collections, WriterEnds(c)
  PROVE  /\ \A d \in Collections \ {c} : writer'[d] = writer[d] /\ disk'[d] = disk[d]
         /\ Writing(c) /\ writer[c].closing /\ writer'[c].thread = "dead"
         /\ writer'[c].dropped = writer[c].dropped /\ writer'[c].failed = writer[c].failed
         /\ writer'[c].closing = writer[c].closing
         /\ ~writer[c].failed /\ ~writer[c].dropped => disk'[c].bag = "complete"
         /\ Stays(c)
<1>1. /\ writer' = [writer EXCEPT ![c].thread = "dead"]
      /\ disk' = [disk EXCEPT ![c].bag =
                    IF writer[c].failed \/ writer[c].dropped THEN @ ELSE "complete"]
      /\ Writing(c) /\ writer[c].closing
  BY DEF WriterEnds, Writing
<1>2. writer \in [Collections -> Writers] /\ disk \in [Collections -> Directories]
  BY DEF TypeOK
<1>3. /\ \A d \in Collections \ {c} : writer'[d] = writer[d]
      /\ writer'[c].thread = "dead"
      /\ writer'[c].dropped = writer[c].dropped /\ writer'[c].failed = writer[c].failed
      /\ writer'[c].closing = writer[c].closing
  BY <1>1, <1>2 DEF Writers
<1>4. /\ \A d \in Collections \ {c} : disk'[d] = disk[d]
      /\ ~writer[c].failed /\ ~writer[c].dropped => disk'[c].bag = "complete"
      /\ Stays(c)
  BY <1>1, <1>2 DEF Directories, Stays
<1>5. QED
  BY <1>1, <1>3, <1>4

\* The messages that open a bag, with and without the keyframe.
LEMMA StartIs ==
  /\ Len(StartMessages) = IF tfCached THEN 2 ELSE 1
  /\ \A i \in 1 .. Len(StartMessages) :
       /\ StartMessages[i].kind \in {"START", "tf"}
       /\ StartMessages[i].kind = "START" <=> i = 1
<1>1. /\ Message("START").kind = "START" /\ Message("tf").kind = "tf"
      /\ Message("START") \in Messages /\ Message("tf") \in Messages
  BY MessageTyped DEF Message
<1>2. CASE tfCached
  <2>1. StartMessages = <<Message("START")>> \o <<Message("tf")>>
    BY <1>2 DEF StartMessages
  <2>2. /\ <<Message("START")>> \in Seq(Messages) /\ <<Message("tf")>> \in Seq(Messages)
        /\ Len(<<Message("START")>>) = 1 /\ <<Message("START")>>[1] = Message("START")
        /\ Len(<<Message("tf")>>) = 1 /\ <<Message("tf")>>[1] = Message("tf")
    BY <1>1
  <2> DEFINE a == <<Message("START")>>
             b == <<Message("tf")>>
  <2>3. /\ a \in Seq(Messages) /\ Len(a) = 1 /\ a[1] = Message("START")
        /\ b \in Seq(Messages) /\ Len(b) = 1 /\ b[1] = Message("tf")
    BY <2>2
  <2> HIDE DEF a, b
  <2>4. StartMessages = a \o b
    BY <2>1 DEF a, b
  <2>5. /\ Len(StartMessages) = 2 /\ StartMessages[1] = Message("START")
        /\ StartMessages[2] = Message("tf")
    BY <2>3, <2>4, ConcatIs
  <2>6. QED
    BY <1>1, <1>2, <2>5
<1>3. CASE ~tfCached
  <2>1. StartMessages = <<Message("START")>>
    BY <1>3 DEF StartMessages
  <2>2. Len(StartMessages) = 1 /\ StartMessages[1] = Message("START")
    BY <2>1
  <2>3. QED
    BY <1>1, <1>3, <2>2
<1>4. QED
  BY <1>2, <1>3

\* What the gate offers: the messages of a start, then the keyframe.
LEMMA GateIs ==
  /\ Len(GateMessages) = Len(StartMessages) + 1 /\ Len(StartMessages) \in Nat \ {0}
  /\ \A i \in 1 .. Len(StartMessages) : GateMessages[i] = StartMessages[i]
  /\ GateMessages[Len(StartMessages) + 1].kind = "keyframe"
<1>1. StartMessages \in Seq(Messages) /\ Message("keyframe") \in Messages
  BY StartMessagesTyped, MessageTyped
<1>2. GateMessages = Append(StartMessages, Message("keyframe"))
  BY DEF GateMessages
<1>3. Message("keyframe").kind = "keyframe"
  BY DEF Message
<1>4. Len(StartMessages) # 0
  BY StartIs
<1>5. QED
  BY <1>1, <1>2, <1>3, <1>4

-----------------------------------------------------------------------------
(* Every step keeps what is known of the bags *)

\* A collection that somebody works on was started.
LEMMA Known ==
  ASSUME IInv
  PROVE  /\ \A w \in Workers : worker[w].pc # "idle" =>
              worker[w].col \in Collections /\ worker[w].col <= issued
         /\ active # None => active \in Collections /\ active <= issued
         /\ issued \in Nat /\ Collections \subseteq Nat
<1>1. issued \in Nat /\ Collections \subseteq Nat /\ (active # None => active \in Collections)
  BY ControllerAssumption DEF IInv, TypeOK, Collections, Handles
<1>2. \A c \in Collections : c > issued => active # c /\ \A w \in Workers : worker[w].col # c
  BY DEF IInv, Unissued
<1>3. \A w \in Workers : worker[w].pc # "idle" => worker[w].col \in Collections
  BY DEF IInv, Holding
<1>4. \A c \in Collections : ~(c > issued) => c <= issued
  BY <1>1
<1>5. QED
  BY <1>1, <1>2, <1>3, <1>4

\* A step that adds nothing to any log.
LEMMA LogsTame ==
  ASSUME IInv, Logs, TypeOK', UNCHANGED issued, NEW c \in Collections, c <= issued, Tame(c),
         \A d \in Collections \ {c} : Rests(d)
  PROVE  Logs'
<1>1. TypeOK
  BY DEF IInv
<1>2. ASSUME NEW d \in Collections
      PROVE  LogAt(d)'
  <2>1. LogAt(d)
    BY DEF Logs
  <2>2. CASE d = c
    BY <1>1, <2>1, <2>2, TameLog
  <2>3. CASE d # c
    <3>1. Rests(d) /\ writer'[d] = writer[d]
      BY <2>3 DEF Rests
    <3>2. Tame(d)
      BY <3>1, RestsTame
    <3>3. QED
      BY <1>1, <2>1, <3>1, <3>2, TameLog
  <2>4. QED
    BY <2>2, <2>3
<1>3. QED
  BY <1>2 DEF Logs

\* A step that touches no bag.
LEMMA LogsRest ==
  ASSUME IInv, Logs, TypeOK', \A d \in Collections : Rests(d),
         issued' = issued \/ issued' = issued + 1
  PROVE  Logs'
<1>1. ASSUME NEW d \in Collections
      PROVE  LogAt(d)'
  <2>1. LogAt(d) /\ Rests(d)
    BY DEF Logs
  <2>2. d \in Nat /\ issued \in Nat
    BY Known
  <2>3. d > issued' => d > issued
    BY <2>2
  <2>4. Shape(d)' /\ (HeadOk(d)' <=> HeadOk(d))
    BY <2>1 DEF LogAt, Shape, HeadOk, Rests, Accepting
  <2>5. QED
    BY <2>1, <2>3, <2>4 DEF LogAt, Rests
<1>2. QED
  BY <1>1 DEF Logs

\* A step that adds messages to the log of c.
LEMMA LogsGrow ==
  ASSUME IInv, Logs, TypeOK', UNCHANGED <<issued, disk>>, NEW c \in Collections, c <= issued,
         NEW ms \in Seq(Messages), NEW k \in 0 .. Len(ms), NEW closing \in BOOLEAN,
         Offered(c, ms, k, closing),
         \A i \in 1 .. k : /\ ms[i].kind = "START" <=> i = 1 /\ log[c] = <<>>
                           /\ ms[i].kind = "STOP" => i = k /\ closing,
         KeyframeStart /\ log[c] = <<>> /\ k > 0 /\ k = Len(ms) =>
           \E i \in 1 .. k : /\ ms[i].kind = "keyframe"
                             /\ \A j \in 1 .. i - 1 : ms[j].kind \in {"START", "tf"}
  PROVE  Logs'
<1>1. TypeOK /\ LogAt(c)
  BY DEF IInv, Logs
<1>2. LogAt(c)'
  BY <1>1, OfferLog
<1>3. BagsOf(c)
  BY <1>1, OfferIs
<1>4. ASSUME NEW d \in Collections, d # c
      PROVE  LogAt(d)'
  <2>1. Rests(d) /\ writer'[d] = writer[d]
    BY <1>3, <1>4 DEF BagsOf, Rests
  <2>2. Tame(d) /\ LogAt(d)
    BY <2>1, RestsTame DEF Logs
  <2>3. QED
    BY <1>1, <2>1, <2>2, TameLog
<1>5. QED
  BY <1>2, <1>4 DEF Logs

\* A message of the input thread goes into a log that has its START.
LEMMA LogsSubmit ==
  ASSUME IInv, Logs, TypeOK', UNCHANGED <<issued, disk>>, NEW m \in Messages,
         m.kind \notin {"START", "STOP"}, Submit(m),
         admitting => active # None /\ log[active] # <<>>
  PROVE  Logs'
<1>1. CASE ~(admitting /\ active # None)
  <2>1. UNCHANGED <<writer, log>>
    BY <1>1 DEF Submit, bags
  <2>2. QED
    BY <2>1, LogsRest DEF Rests
<1>2. CASE admitting /\ active # None
  <2>1. PICK k \in 0 .. 1 : Offered(active, <<m>>, k, FALSE)
    BY <1>2 DEF Submit, OfferFirst
  <2>2. active \in Collections /\ active <= issued /\ log[active] # <<>>
    BY <1>2, Known
  <2> DEFINE ms == <<m>>
  <2>3. ms \in Seq(Messages) /\ Len(ms) = 1 /\ ms[1] = m
    OBVIOUS
  <2> HIDE DEF ms
  <2>4. Offered(active, ms, k, FALSE) /\ k \in 0 .. Len(ms)
    BY <2>1, <2>3 DEF ms
  <2>5. \A i \in 1 .. k : /\ ms[i].kind = "START" <=> i = 1 /\ log[active] = <<>>
                          /\ ms[i].kind = "STOP" => i = k /\ FALSE
    BY <2>2, <2>3, <2>4
  <2>6. QED
    BY <2>2, <2>3, <2>4, <2>5, LogsGrow
<1>3. QED
  BY <1>1, <1>2

\* discard removes the directory, leaves it, or takes something out of it.
LEMMA DiscardIs ==
  ASSUME TypeOK, NEW c, DiscardOk(c) \/ DiscardFails(c)
  PROVE  /\ \A d \in Collections : disk'[d].bag = disk[d].bag
         /\ DirsOf(c)
         /\ c \in Collections =>
              \/ disk' = disk
              \/ Owned(c) /\ disk'[c].where = "removed"
              \/ Owned(c) /\ disk'[c].where = "staging" /\ ~disk'[c].intact
<1>1. disk \in [Collections -> Directories]
  BY DEF TypeOK
<1>2. CASE disk' = disk
  BY <1>2 DEF DirsOf
<1>3. CASE Owned(c) /\ disk' = Removed(c)
  BY <1>1, <1>3 DEF Removed, Directories, DirsOf
<1>4. CASE /\ Owned(c)
           /\ \E marker \in BOOLEAN :
                disk' = [disk EXCEPT ![c].intact = FALSE, ![c].marker = marker]
  BY <1>1, <1>4 DEF Owned, Directories, DirsOf
<1>5. QED
  BY <1>2, <1>3, <1>4 DEF DiscardOk, DiscardFails

\* The directory of c has these fields now, and its bag as before.
Edited(c, where, marker, session, intact) ==
  /\ DirsOf(c)
  /\ disk'[c].where = where /\ disk'[c].marker = marker /\ disk'[c].session = session
  /\ disk'[c].intact = intact /\ disk'[c].bag = disk[c].bag

\* What a thread does to its directory.
LEMMA DiskIs ==
  ASSUME TypeOK, NEW w \in Workers, NEW c \in Collections, c = worker[w].col
  PROVE  /\ Stage(w) => \/ UNCHANGED disk
                        \/ Edited(c, "staging", TRUE, disk[c].session, disk[c].intact)
         /\ Session(w) => \/ UNCHANGED disk
                          \/ /\ disk[c].where = "staging"
                             /\ Edited(c, "staging", disk[c].marker, "pending", disk[c].intact)
         /\ Manifest(w) => \/ UNCHANGED disk
                           \/ /\ disk[c].where = "staging"
                              /\ Edited(c, "staging", disk[c].marker, "saved", disk[c].intact)
         /\ Rename(w) => \/ UNCHANGED disk
                         \/ /\ disk[c].where = "staging"
                            /\ Edited(c, "task", disk[c].marker, disk[c].session, disk[c].intact)
         /\ Unmark(w) => \/ UNCHANGED disk
                         \/ Edited(c, disk[c].where, FALSE, disk[c].session, disk[c].intact)
         /\ MoveToTrash(w) => \/ UNCHANGED disk
                              \/ /\ disk[c].where = "task"
                                 /\ Edited(c, "trash", disk[c].marker, disk[c].session,
                                           disk[c].intact)
<1>1. disk \in [Collections -> Directories]
  BY DEF TypeOK
<1>2. ASSUME Stage(w), ~UNCHANGED disk
      PROVE  Edited(c, "staging", TRUE, disk[c].session, disk[c].intact)
  <2>1. disk' = [disk EXCEPT ![c].where = "staging", ![c].marker = TRUE]
    BY <1>2, Zenon DEF Stage, Col
  <2>2. QED
    BY <1>1, <2>1 DEF Directories, Edited, DirsOf
<1>3. ASSUME Session(w), ~UNCHANGED disk
      PROVE  /\ Edited(c, "staging", disk[c].marker, "pending", disk[c].intact)
             /\ disk[c].where = "staging"
  <2>1. disk' = [disk EXCEPT ![c].session = "pending"] /\ disk[c].where = "staging"
    BY <1>3, Zenon DEF Session, Col
  <2>2. QED
    BY <1>1, <2>1 DEF Directories, Edited, DirsOf
<1>4. ASSUME Manifest(w), ~UNCHANGED disk
      PROVE  /\ Edited(c, "staging", disk[c].marker, "saved", disk[c].intact)
             /\ disk[c].where = "staging"
  <2>1. disk' = [disk EXCEPT ![c].session = "saved"] /\ disk[c].where = "staging"
    BY <1>4, Zenon DEF Manifest, Col
  <2>2. QED
    BY <1>1, <2>1 DEF Directories, Edited, DirsOf
<1>5. ASSUME Rename(w), ~UNCHANGED disk
      PROVE  /\ Edited(c, "task", disk[c].marker, disk[c].session, disk[c].intact)
             /\ disk[c].where = "staging"
  <2>1. disk' = [disk EXCEPT ![c].where = "task"] /\ disk[c].where = "staging"
    BY <1>5, Zenon DEF Rename, Col, NotMoved
  <2>2. QED
    BY <1>1, <2>1 DEF Directories, Edited, DirsOf
<1>6. ASSUME Unmark(w), ~UNCHANGED disk
      PROVE  Edited(c, disk[c].where, FALSE, disk[c].session, disk[c].intact)
  <2>1. disk' = [disk EXCEPT ![c].marker = FALSE]
    BY <1>6, Zenon DEF Unmark, Col
  <2>2. QED
    BY <1>1, <2>1 DEF Directories, Edited, DirsOf
<1>7. ASSUME MoveToTrash(w), ~UNCHANGED disk
      PROVE  /\ Edited(c, "trash", disk[c].marker, disk[c].session, disk[c].intact)
             /\ disk[c].where = "task"
  <2>1. disk' = [disk EXCEPT ![c].where = "trash"] /\ disk[c].where = "task"
    BY <1>7, Zenon DEF MoveToTrash, Col
  <2>2. QED
    BY <1>1, <2>1 DEF Directories, Edited, DirsOf
<1>8. QED
  BY <1>2, <1>3, <1>4, <1>5, <1>6, <1>7

\* The bag that is opened is empty.
LEMMA LogsOpen ==
  ASSUME IInv, Logs, Reached, IInv', NEW w \in Workers, OpenBag(w)
  PROVE  Logs'
<1>1. TypeOK /\ TypeOK' /\ ReachedBy(w)
  BY DEF IInv, Reached
<1>2. worker[w].pc = "open" /\ UNCHANGED <<log, disk, issued>>
  BY DEF OpenBag, At, process, files
<1>3. PICK c \in Collections : c = worker[w].col /\ c <= issued
  BY <1>2, Known
<1>4. /\ writer[c] = NoWriter /\ log[c] = <<>>
      /\ writer' = [writer EXCEPT ![c].thread = "run"] \/ UNCHANGED writer
  BY <1>1, <1>2, <1>3 DEF OpenBag, Col, ReachedBy, ReachedAt
<1>5. /\ \A d \in Collections \ {c} : writer'[d] = writer[d]
      /\ writer'[c].thread # "dead"
  BY <1>1, <1>4 DEF TypeOK, Writers, NoWriter
<1>6. ASSUME NEW d \in Collections, d # c
      PROVE  LogAt(d)'
  <2>1. Rests(d) /\ writer'[d] = writer[d] /\ LogAt(d)
    BY <1>2, <1>5, <1>6 DEF Rests, Logs
  <2>2. Tame(d)
    BY <2>1, RestsTame
  <2>3. QED
    BY <1>1, <1>2, <2>1, <2>2, TameLog
<1>7. LogAt(c)'
  <2>1. log'[c] = <<>> /\ ~(c > issued')
    BY <1>2, <1>3, <1>4, Known
  <2>2. Len(log'[c]) = 0
    BY <2>1
  <2>3. Shape(c)'
    BY <2>2 DEF Shape
  <2>4. QED
    BY <1>5, <2>1, <2>3 DEF LogAt
<1>8. QED
  BY <1>6, <1>7 DEF Logs

\* A thread in its request.
LEMMA LogsThread ==
  ASSUME IInv, Logs, Reached, IInv', NEW w \in Workers, Step(w)
  PROVE  Logs'
<1> DEFINE c == worker[w].col
<1>1. TypeOK /\ TypeOK' /\ ReachedBy(w)
  BY DEF IInv, Reached
<1>2. worker[w].pc # "idle" => c \in Collections /\ c <= issued
  BY Known
<1>3. CASE \/ Activate(w) \/ Admit(w) \/ Arm(w) \/ WaitEnds(w) \/ Ready(w) \/ Undone(w)
           \/ CheckOwned(w) \/ Saved(w) \/ Cancelled(w) \/ RemoveTaskDir(w)
  <2>1. UNCHANGED <<writer, log, disk, issued>>
    BY <1>3 DEF Activate, Admit, Arm, WaitEnds, Ready, Undone, CheckOwned, Saved, Cancelled,
       RemoveTaskDir, service, process, bags, files
  <2>2. QED
    BY <1>1, <2>1, LogsRest DEF Rests
<1>4. CASE \/ Stage(w) \/ UndoDiscard(w) \/ Session(w) \/ Manifest(w) \/ Rename(w) \/ Unmark(w)
           \/ CancelDiscard(w) \/ MoveToTrash(w)
  <2>1. UNCHANGED <<writer, log, issued>>
    BY <1>4 DEF Stage, UndoDiscard, Session, Manifest, Rename, Unmark, CancelDiscard,
       MoveToTrash, service, process, bags, files
  <2>2. \A d \in Collections : disk'[d].bag = disk[d].bag
    <3>1. CASE \/ Stage(w) \/ Session(w) \/ Manifest(w) \/ Rename(w) \/ Unmark(w)
               \/ MoveToTrash(w)
      <4>1. c \in Collections
        BY <1>2, <3>1 DEF Stage, Session, Manifest, Rename, Unmark, MoveToTrash, At
      <4>2. \A d \in Collections \ {c} : disk'[d] = disk[d]
        BY <1>1, <3>1, <4>1, DiskIs DEF Edited, DirsOf
      <4>3. disk'[c].bag = disk[c].bag
        BY <1>1, <3>1, <4>1, DiskIs DEF Edited
      <4>4. QED
        BY <4>1, <4>2, <4>3
    <3>2. CASE UndoDiscard(w) \/ CancelDiscard(w)
      <4>1. DiscardOk(Col(w)) \/ DiscardFails(Col(w))
        BY <3>2 DEF UndoDiscard, CancelDiscard
      <4>2. QED
        BY <1>1, <4>1, DiscardIs
    <3>3. QED
      BY <1>4, <3>1, <3>2
  <2>3. QED
    BY <1>1, <2>1, <2>2, LogsRest DEF Rests
<1>5. CASE OpenBag(w)
  BY <1>5, LogsOpen
<1>6. CASE Begin(w)
  <2>1. /\ c \in Collections /\ c <= issued /\ log[c] = <<>> /\ ~KeyframeStart
        /\ UNCHANGED <<disk, issued>>
    BY <1>1, <1>2, <1>6 DEF Begin, At, ReachedBy, ReachedAt, process, files
  <2>2. PICK k \in 0 .. Len(StartMessages) : Offered(c, StartMessages, k, FALSE)
    BY <1>6 DEF Begin, OfferFirst, Col
  <2>3. \A i \in 1 .. k : /\ StartMessages[i].kind = "START" <=> i = 1 /\ log[c] = <<>>
                          /\ StartMessages[i].kind = "STOP" => i = k /\ FALSE
    BY <2>1, <2>2, StartIs
  <2>4. QED
    BY <1>1, <2>1, <2>2, <2>3, StartMessagesTyped, LogsGrow
<1>7. CASE Undo(w) \/ CancelAbort(w)
  <2>1. c \in Collections /\ c <= issued /\ UNCHANGED <<log, disk, issued>>
    BY <1>2, <1>7 DEF Undo, CancelAbort, At, process, files
  <2>2. UNCHANGED writer \/ \E drop \in BOOLEAN : Aborted(c, drop)
    BY <1>7 DEF Undo, CancelAbort, Col
  <2>3. Tame(c) /\ \A d \in Collections \ {c} : Rests(d)
    BY <1>1, <2>1, <2>2, AbortIs DEF Tame, Rests
  <2>4. QED
    BY <1>1, <2>1, <2>3, LogsTame
<1>8. CASE UndoJoin(w) \/ CancelJoin(w)
  <2>1. c \in Collections /\ c <= issued /\ UNCHANGED <<log, disk, issued>>
    BY <1>2, <1>8 DEF UndoJoin, CancelJoin, At, process, files
  <2>2. UNCHANGED writer \/ writer' = [writer EXCEPT ![c].failed = TRUE]
    BY <1>8 DEF UndoJoin, CancelJoin, Col
  <2>3. Tame(c) /\ \A d \in Collections \ {c} : Rests(d)
    BY <1>1, <2>1, <2>2, FailIs DEF Tame, Rests
  <2>4. QED
    BY <1>1, <2>1, <2>3, LogsTame
<1>9. CASE Quiesce(w)
  <2>1. /\ c \in Collections /\ c <= issued /\ log[c] # <<>> /\ UNCHANGED <<disk, issued>>
    BY <1>1, <1>2, <1>9 DEF Quiesce, At, ReachedBy, ReachedAt, process, files
  <2> DEFINE ms == <<Message("STOP")>>
  <2>2. ms \in Seq(Messages) /\ Len(ms) = 1 /\ ms[1] = Message("STOP")
    BY MessageTyped
  <2>3. ms[1].kind = "STOP"
    BY <2>2 DEF Message
  <2>4. PICK k \in 0 .. 1 : Offered(c, ms, k, TRUE)
    BY <1>9 DEF Quiesce, Col
  <2> HIDE DEF ms
  <2>5. k \in 0 .. Len(ms)
    BY <2>2, <2>4
  <2>6. \A i \in 1 .. k : /\ ms[i].kind = "START" <=> i = 1 /\ log[c] = <<>>
                          /\ ms[i].kind = "STOP" => i = k /\ TRUE
    BY <2>1, <2>2, <2>3, <2>4
  <2>7. QED
    BY <1>1, <2>1, <2>2, <2>4, <2>5, <2>6, LogsGrow
<1>10. CASE Verify(w)
  <2>1. c \in Collections /\ c <= issued /\ UNCHANGED <<log, disk, issued>>
    BY <1>2, <1>10 DEF Verify, At, process, files
  <2>2. writer' = [writer EXCEPT ![c].failed = @ \/ ~Joined(c)]
    BY <1>10 DEF Verify, Col
  <2>3. /\ \A d \in Collections \ {c} : writer'[d] = writer[d]
        /\ writer'[c].thread = writer[c].thread /\ writer'[c].dropped = writer[c].dropped
        /\ writer'[c].closing = writer[c].closing
        /\ writer[c].failed => writer'[c].failed
    BY <1>1, <2>1, <2>2 DEF TypeOK, Writers
  <2>4. Tame(c) /\ \A d \in Collections \ {c} : Rests(d)
    BY <2>1, <2>3 DEF Tame, Rests
  <2>5. QED
    BY <1>1, <2>1, <2>4, LogsTame
<1>11. QED
  BY <1>3, <1>4, <1>5, <1>6, <1>7, <1>8, <1>9, <1>10 DEF Step

\* The input thread, the writing threads, the timer and shutdown.
LEMMA LogsInput ==
  ASSUME JInv, IInv', Input
  PROVE  Logs'
<1>1. IInv /\ Logs /\ TypeOK /\ TypeOK'
  BY DEF JInv, IInv
<1>2. Open => AdmitInv /\ \A w \in Workers : ThreadInv(w)
  BY DEF JInv, OpenInv
<1>3. Open
  BY DEF JInv, InputRests, Input, OpenGate, Data, TfArrives, TfSubmitted, TimingArrives,
     TimingReported, TimingSubmitted
<1>4. admitting => active # None /\ log[active] # <<>>
  BY <1>2, <1>3 DEF AdmitInv
<1>5. CASE OpenGate
  <2>1. /\ gate.is = "armed" /\ UNCHANGED <<issued, disk>>
        /\ \E k \in 0 .. Len(GateMessages) : Offered(gate.col, GateMessages, k, FALSE)
    BY <1>5, Zenon DEF OpenGate, OfferFirst, process, files
  <2>2. PICK w \in Workers : In(w, {"wait"})
    BY <1>2, <1>3, <2>1 DEF AdmitInv
  <2>3. gate.col = worker[w].col /\ log[worker[w].col] = <<>>
    BY <1>2, <1>3, <2>1, <2>2 DEF ThreadInv, ThreadAt, AdmitsAt, In
  <2>4. worker[w].col \in Collections /\ worker[w].col <= issued
    BY <1>1, <2>2, Known DEF In
  <2>5. PICK c \in Collections : c = gate.col /\ c <= issued /\ log[c] = <<>>
    BY <2>3, <2>4
  <2>6. PICK k \in 0 .. Len(GateMessages) : Offered(c, GateMessages, k, FALSE)
    BY <2>1, <2>5
  <2>7. ASSUME NEW i \in 1 .. k
        PROVE  /\ GateMessages[i].kind = "START" <=> i = 1 /\ log[c] = <<>>
               /\ GateMessages[i].kind = "STOP" => i = k /\ FALSE
    <3>1. i \in 1 .. Len(StartMessages) \/ i = Len(StartMessages) + 1
      BY GateIs, StartIs
    <3>2. CASE i \in 1 .. Len(StartMessages)
      BY <2>5, <3>2, GateIs, StartIs
    <3>3. CASE i = Len(StartMessages) + 1
      BY <2>5, <3>3, GateIs
    <3>4. QED
      BY <3>1, <3>2, <3>3
  <2>8. ASSUME k > 0, k = Len(GateMessages)
        PROVE  \E i \in 1 .. k : /\ GateMessages[i].kind = "keyframe"
                                 /\ \A j \in 1 .. i - 1 :
                                      GateMessages[j].kind \in {"START", "tf"}
    <3>1. k \in 1 .. k /\ k = Len(StartMessages) + 1
      BY <2>8, GateIs
    <3>2. \A j \in 1 .. k - 1 : j \in 1 .. Len(StartMessages)
      BY <3>1, GateIs
    <3>3. QED
      BY <3>1, <3>2, GateIs, StartIs
  <2>9. QED
    BY <1>1, <2>1, <2>5, <2>6, <2>7, <2>8, GateMessagesTyped, LogsGrow
<1>6. ASSUME NEW m \in Messages, m.kind \notin {"START", "STOP"}, Submit(m),
             UNCHANGED <<issued, disk>>
      PROVE  Logs'
  BY <1>1, <1>4, <1>6, LogsSubmit
<1>7. CASE Data
  <2>1. /\ Message("data") \in Messages /\ Message("data").kind = "data"
        /\ Submit(Message("data")) /\ UNCHANGED <<issued, disk>>
    BY <1>7, MessageTyped DEF Message, Data, process, files
  <2>2. QED
    BY <1>6, <2>1
<1>8. CASE TfSubmitted
  <2>1. /\ Message("tf") \in Messages /\ Message("tf").kind = "tf"
        /\ Submit(Message("tf")) /\ UNCHANGED <<issued, disk>>
    BY <1>8, MessageTyped DEF Message, TfSubmitted, files
  <2>2. QED
    BY <1>6, <2>1
<1>9. CASE TimingSubmitted
  <2>1. /\ Timing(input.gen) \in Messages /\ Timing(input.gen).kind = "timing"
        /\ Submit(Timing(input.gen)) /\ UNCHANGED <<issued, disk>>
    BY <1>1, <1>9 DEF Timing, Messages, TimingSubmitted, files, TypeOK, Inputs
  <2>2. QED
    BY <1>6, <2>1
<1>10. CASE TfArrives \/ TimingArrives \/ TimingReported
  <2>1. UNCHANGED <<writer, log, disk, issued>>
    BY <1>10 DEF TfArrives, TimingArrives, TimingReported, bags, files
  <2>2. QED
    BY <1>1, <2>1, LogsRest DEF Rests
<1>11. QED
  BY <1>5, <1>7, <1>8, <1>9, <1>10 DEF Input

\* rmtree of a left-over directory touches no bag.
LEMMA CleanIs ==
  ASSUME TypeOK, \/ CleanEnds
                 \/ \E c \in Collections : CleanBegins(c)
  PROVE  /\ UNCHANGED <<writer, log, issued>>
         /\ \A d \in Collections :
              disk'[d].bag = disk[d].bag /\ disk'[d].session = disk[d].session
         /\ \A d \in Collections : \/ disk'[d] = disk[d]
                                   \/ disk[d].where = "staging" /\ disk'[d].where = "removed"
                                   \/ disk[d].where = "staging" /\ disk'[d].where = "staging"
                                      /\ ~disk'[d].intact
<1>1. disk \in [Collections -> Directories]
  BY DEF TypeOK
<1>2. CASE CleanEnds
  <2>1. \/ UNCHANGED disk
        \/ disk[exit.col].where = "staging" /\ disk' = Removed(exit.col)
    BY <1>2 DEF CleanEnds
  <2>2. UNCHANGED <<writer, log, issued>>
    BY <1>2 DEF CleanEnds, bags
  <2>3. QED
    BY <1>1, <2>1, <2>2 DEF Removed, Directories
<1>3. ASSUME NEW c \in Collections, CleanBegins(c)
      PROVE  /\ UNCHANGED <<writer, log, issued>>
             /\ \A d \in Collections :
                  disk'[d].bag = disk[d].bag /\ disk'[d].session = disk[d].session
             /\ \A d \in Collections : \/ disk'[d] = disk[d]
                                       \/ disk[d].where = "staging" /\ disk'[d].where = "staging"
                                          /\ ~disk'[d].intact
  <2>1. /\ disk[c].where = "staging" /\ UNCHANGED <<writer, log, issued>>
        /\ \E marker \in BOOLEAN :
             disk' = [disk EXCEPT ![c].intact = FALSE, ![c].marker = marker]
    BY <1>3 DEF CleanBegins, Owned, bags
  <2>2. QED
    BY <1>1, <2>1 DEF Directories
<1>4. QED
  BY <1>2, <1>3

\* Shutdown, the timer and the writer threads keep what is known of the bags.
LEMMA LogsExit ==
  ASSUME JInv, IInv', Exit \/ Sync \/ \E c \in Collections : WriterFails(c) \/ WriterEnds(c)
  PROVE  Logs'
<1>1. IInv /\ Logs /\ TypeOK /\ TypeOK'
  BY DEF JInv, IInv
<1>2. CASE Sync \/ Shutdown \/ Settle \/ ExitClear \/ Unlock \/ ExitDone
  <2>1. UNCHANGED <<writer, log, disk, issued>>
    BY <1>2 DEF Sync, Shutdown, Settle, ExitClear, Unlock, ExitDone, bags, files, process
  <2>2. QED
    BY <1>1, <2>1, LogsRest DEF Rests
<1>3. CASE CleanEnds \/ \E c \in Collections : CleanBegins(c)
  <2>1. /\ UNCHANGED <<writer, log, issued>>
        /\ \A d \in Collections : disk'[d].bag = disk[d].bag
    BY <1>1, <1>3, CleanIs
  <2>2. QED
    BY <1>1, <2>1, LogsRest DEF Rests
<1>4. ASSUME UNCHANGED <<log, issued, disk>>, NEW c \in Collections, c <= issued,
             \/ \E drop \in BOOLEAN : Aborted(c, drop)
             \/ writer' = [writer EXCEPT ![c].failed = TRUE]
      PROVE  Logs'
  <2>1. Tame(c) /\ \A d \in Collections \ {c} : Rests(d)
    BY <1>1, <1>4, AbortIs, FailIs DEF Tame, Rests
  <2>2. QED
    BY <1>1, <1>4, <2>1, LogsTame
<1>5. CASE ExitAbort
  <2>1. UNCHANGED <<log, issued, disk>>
    BY <1>5 DEF ExitAbort, files
  <2>2. CASE active = None
    <3>1. UNCHANGED writer
      BY <1>5, <2>2 DEF ExitAbort
    <3>2. QED
      BY <1>1, <2>1, <3>1, LogsRest DEF Rests
  <2>3. CASE active # None
    <3>1. \E drop \in BOOLEAN : Aborted(active, drop)
      BY <1>5, <2>3 DEF ExitAbort
    <3>2. active \in Collections /\ active <= issued
      BY <1>1, <2>3, Known
    <3>3. QED
      BY <1>4, <2>1, <3>1, <3>2
  <2>4. QED
    BY <2>2, <2>3
<1>6. CASE ExitJoin
  <2>1. UNCHANGED <<log, issued, disk>>
    BY <1>6 DEF ExitJoin, files
  <2>2. \/ UNCHANGED writer
        \/ /\ TimedOut(exit.col)
           /\ writer' = [writer EXCEPT ![exit.col].failed = TRUE]
    BY <1>6 DEF ExitJoin
  <2>3. CASE UNCHANGED writer
    BY <1>1, <2>1, <2>3, LogsRest DEF Rests
  <2>4. CASE ~UNCHANGED writer
    <3>1. /\ writer[exit.col].thread = "run" /\ exit.col \in Handles
          /\ writer' = [writer EXCEPT ![exit.col].failed = TRUE]
      BY <1>1, <2>2, <2>4 DEF TimedOut, TypeOK, Exits
    <3>2. CASE exit.col \in Collections
      <4>1. PICK c \in Collections : c = exit.col
        BY <3>2
      <4>2. c <= issued
        <5>1. LogAt(c) /\ writer[c] # NoWriter
          BY <1>1, <3>1, <4>1 DEF Logs, NoWriter
        <5>2. ~(c > issued) /\ c \in Nat /\ issued \in Nat
          BY <1>1, <5>1, Known DEF LogAt
        <5>3. QED
          BY <5>2
      <4>3. QED
        BY <1>4, <2>1, <3>1, <4>1, <4>2
    <3>3. CASE exit.col \notin Collections
      <4>1. UNCHANGED writer
        BY <1>1, <3>1, <3>3 DEF TypeOK
      <4>2. QED
        BY <2>4, <4>1
    <3>4. QED
      BY <3>2, <3>3
  <2>5. QED
    BY <2>3, <2>4
<1>7. ASSUME NEW c \in Collections, WriterFails(c) \/ WriterEnds(c)
      PROVE  Logs'
  <2>1. UNCHANGED <<log, issued>> /\ Writing(c)
    BY <1>7 DEF WriterFails, WriterEnds, process, Writing
  <2>2. c <= issued
    <3>1. LogAt(c) /\ writer[c] # NoWriter
      BY <1>1, <2>1 DEF Logs, NoWriter, Writing
    <3>2. ~(c > issued) /\ c \in Nat /\ issued \in Nat
      BY <1>1, <3>1, Known DEF LogAt
    <3>3. QED
      BY <3>2
  <2>3. CASE WriterFails(c)
    <3>1. UNCHANGED disk /\ writer' = [writer EXCEPT ![c].failed = TRUE]
      BY <2>3 DEF WriterFails, files
    <3>2. QED
      BY <1>4, <2>1, <2>2, <3>1
  <2>4. CASE WriterEnds(c)
    <3>1. Tame(c) /\ \A d \in Collections \ {c} : Rests(d)
      BY <1>1, <2>1, <2>4, EndIs DEF Tame, Rests
    <3>2. QED
      BY <1>1, <2>1, <2>2, <3>1, LogsTame
  <2>5. QED
    BY <1>7, <2>3, <2>4
<1>8. QED
  BY <1>2, <1>3, <1>5, <1>6, <1>7 DEF Exit

\* A collection is announced; the logs of the service that ended are only read.
LEMMA LogsRequest ==
  ASSUME JInv, IInv', NEW w \in Workers, Request(w)
  PROVE  Logs'
<1>1. IInv /\ Logs /\ TypeOK /\ TypeOK'
  BY DEF JInv, IInv
<1>2. UNCHANGED <<writer, log, disk>> /\ (issued' = issued \/ issued' = issued + 1)
  BY DEF Request, Start, Save, Cancel, Stop, Delete, process, bags, files
<1>3. QED
  BY <1>1, <1>2, LogsRest DEF Rests

\* A restart keeps what is known of the bags: they are those of the last process.
LEMMA LogsRestart ==
  ASSUME JInv, IInv', Restart
  PROVE  Logs'
<1>1. Logs /\ UNCHANGED <<log, issued>>
  BY DEF JInv, Restart
<1>2. ASSUME NEW c \in Collections
      PROVE  LogAt(c)'
  <2>1. LogAt(c) /\ writer'[c] = NoWriter /\ log'[c] = log[c]
    BY <1>1 DEF Logs, Restart
  <2>2. Shape(c)'
    BY <2>1 DEF LogAt, Shape, Accepting, NoWriter
  <2>3. QED
    BY <1>1, <2>1, <2>2 DEF LogAt, NoWriter
<1>3. QED
  BY <1>2 DEF Logs

\* Every step keeps what is known of the bags.
LEMMA LogsNext ==
  ASSUME JInv, IInv', Next
  PROVE  Logs'
<1>1. IInv /\ Logs /\ Reached
  BY DEF JInv
<1>2. QED
  BY <1>1, LogsThread, LogsInput, LogsExit, LogsRequest, LogsRestart DEF Next

-----------------------------------------------------------------------------
(* Every step keeps what is known of the directories *)

\* Directories that stay what they are keep what is known of them.
LEMMA DirsStay ==
  ASSUME Dirs,
         \A d \in Collections : /\ Stays(d)
                                /\ log'[d] = log[d] \/ Writing(d)
                                /\ writer'[d].thread = "run" => ~Published(d)
  PROVE  Dirs'
<1>1. ASSUME NEW d \in Collections
      PROVE  DirAt(d)'
  BY StaysDir DEF Dirs, Writing
<1>2. QED
  BY <1>1 DEF Dirs

\* offer leaves the bags alone that are saved.
LEMMA DirsOffer ==
  ASSUME TypeOK, Dirs, UNCHANGED disk, NEW c \in Collections, NEW ms \in Seq(Messages),
         NEW k \in 0 .. Len(ms), NEW closing \in BOOLEAN, Offered(c, ms, k, closing)
  PROVE  Dirs'
<1>1. BagsOf(c) /\ Grown(c, ms, k, closing) /\ Flagged(c, ms, k, closing)
  BY OfferIs
<1>2. ASSUME NEW d \in Collections
      PROVE  /\ Stays(d)
             /\ log'[d] = log[d] \/ Writing(d)
             /\ writer'[d].thread = "run" => ~Published(d)
  <2>1. DirAt(d)
    BY DEF Dirs
  <2>2. writer'[d].thread = writer[d].thread
    BY <1>1 DEF BagsOf, Flagged
  <2>3. log'[d] = log[d] \/ Writing(d)
    BY <1>1 DEF BagsOf, Grown, Accepting, Writing
  <2>4. QED
    BY <2>1, <2>2, <2>3 DEF Stays, DirAt, Writing
<1>3. QED
  BY <1>2, DirsStay

\* A step that touches one directory.
LEMMA DirsOne ==
  ASSUME Dirs, UNCHANGED bags, NEW c \in Collections, DirsOf(c), DirAt(c)'
  PROVE  Dirs'
<1>1. ASSUME NEW d \in Collections, d # c
      PROVE  DirAt(d)'
  <2>1. /\ Stays(d) /\ log'[d] = log[d] /\ DirAt(d)
        /\ writer'[d].thread = "run" => ~Published(d)
    BY <1>1 DEF DirsOf, Stays, Dirs, DirAt, Writing, bags
  <2>2. QED
    BY <2>1, StaysDir DEF Writing
<1>2. QED
  BY <1>1 DEF Dirs

\* A step of a request keeps what is known of the directories.
LEMMA DirsThread ==
  ASSUME JInv, NEW w \in Workers, Step(w)
  PROVE  Dirs'
<1>1. IInv /\ TypeOK /\ Dirs /\ ReachedBy(w)
  BY DEF JInv, IInv, Reached
<1>2. worker[w].pc # "idle"
  BY DEF Step, Stage, OpenBag, Activate, Begin, Admit, Arm, WaitEnds, Ready, Undo, UndoJoin,
     UndoDiscard, Undone, Quiesce, Verify, Session, Manifest, CheckOwned, Rename, Unmark,
     Saved, CancelAbort, CancelJoin, CancelDiscard, Cancelled, MoveToTrash, RemoveTaskDir, At
<1>3. PICK c \in Collections : c = worker[w].col /\ DirAt(c)
  BY <1>1, <1>2, Known DEF Dirs
<1>4. ASSUME UNCHANGED <<log, disk>>, \A d \in Collections : writer'[d].thread = writer[d].thread
      PROVE  Dirs'
  BY <1>1, <1>4, DirsStay DEF Stays, Dirs, DirAt, Writing
<1>5. CASE \/ Activate(w) \/ Admit(w) \/ Arm(w) \/ WaitEnds(w) \/ Ready(w) \/ Undone(w)
           \/ CheckOwned(w) \/ Saved(w) \/ Cancelled(w) \/ RemoveTaskDir(w)
  <2>1. UNCHANGED <<writer, log, disk>>
    BY <1>5 DEF Activate, Admit, Arm, WaitEnds, Ready, Undone, CheckOwned, Saved, Cancelled,
       RemoveTaskDir, service, process, bags, files
  <2>2. QED
    BY <1>4, <2>1
<1>6. CASE OpenBag(w)
  <2>1. /\ UNCHANGED <<log, disk>> /\ disk[c].where = "staging"
        /\ writer' = [writer EXCEPT ![c].thread = "run"]
        \/ UNCHANGED <<log, disk, writer>>
    BY <1>3, <1>6 DEF OpenBag, Col, files
  <2>2. CASE UNCHANGED <<log, disk, writer>>
    BY <1>4, <2>2
  <2>3. CASE /\ UNCHANGED <<log, disk>> /\ disk[c].where = "staging"
             /\ writer' = [writer EXCEPT ![c].thread = "run"]
    <3>1. \A d \in Collections \ {c} : writer'[d] = writer[d]
      BY <1>1, <2>3 DEF TypeOK
    <3>2. \A d \in Collections : Stays(d) /\ (writer'[d].thread = "run" => ~Published(d))
      BY <1>1, <2>3, <3>1 DEF Stays, Dirs, DirAt, Writing, Published
    <3>3. QED
      BY <1>1, <2>3, <3>2, DirsStay
  <2>4. QED
    BY <2>1, <2>2, <2>3
<1>7. CASE Undo(w) \/ CancelAbort(w)
  <2>1. UNCHANGED <<log, disk>> /\ (UNCHANGED writer \/ \E drop \in BOOLEAN : Aborted(c, drop))
    BY <1>3, <1>7 DEF Undo, CancelAbort, Col, files
  <2>2. QED
    BY <1>1, <1>4, <2>1, AbortIs
<1>8. CASE UndoJoin(w) \/ CancelJoin(w) \/ Verify(w)
  <2>1. /\ UNCHANGED <<log, disk>>
        /\ \/ UNCHANGED writer
           \/ writer' = [writer EXCEPT ![c].failed = TRUE]
           \/ writer' = [writer EXCEPT ![c].failed = @ \/ ~Joined(c)]
    BY <1>3, <1>8 DEF UndoJoin, CancelJoin, Verify, Col, files
  <2>2. \A d \in Collections : writer'[d].thread = writer[d].thread
    BY <1>1, <2>1, FailIs, JudgedIs
  <2>3. QED
    BY <1>4, <2>1, <2>2
<1>9. CASE Begin(w)
  <2>1. /\ UNCHANGED disk
        /\ \E k \in 0 .. Len(StartMessages) : Offered(c, StartMessages, k, FALSE)
    BY <1>3, <1>9 DEF Begin, OfferFirst, Col, files
  <2>2. QED
    BY <1>1, <2>1, StartMessagesTyped, DirsOffer
<1>10. CASE Quiesce(w)
  <2>1. UNCHANGED disk /\ \E k \in 0 .. 1 : Offered(c, <<Message("STOP")>>, k, TRUE)
    BY <1>3, <1>10 DEF Quiesce, Col, files
  <2> DEFINE ms == <<Message("STOP")>>
  <2>2. ms \in Seq(Messages) /\ Len(ms) = 1
    BY MessageTyped
  <2>3. \E k \in 0 .. Len(ms) : Offered(c, ms, k, TRUE)
    BY <2>1, <2>2
  <2> HIDE DEF ms
  <2>4. QED
    BY <1>1, <2>1, <2>2, <2>3, DirsOffer
<1>11. CASE \/ Stage(w) \/ Session(w) \/ Manifest(w) \/ Rename(w) \/ Unmark(w)
            \/ MoveToTrash(w)
  <2>1. UNCHANGED bags
    BY <1>11 DEF Stage, Session, Manifest, Rename, Unmark, MoveToTrash
  <2>2. CASE UNCHANGED disk
    BY <1>4, <2>1, <2>2 DEF bags
  <2>3. CASE Edited(c, "staging", TRUE, disk[c].session, disk[c].intact)
    <3>1. DirAt(c)'
      BY <2>3 DEF DirAt, Edited, Published
    <3>2. QED
      BY <1>1, <2>1, <2>3, <3>1, DirsOne DEF Edited
  <2>4. CASE \E session \in {"pending", "saved"} :
               /\ disk[c].where = "staging"
               /\ Edited(c, "staging", disk[c].marker, session, disk[c].intact)
    <3>1. DirAt(c)'
      BY <1>3, <2>4 DEF DirAt, Edited, Published
    <3>2. QED
      BY <1>1, <2>1, <2>4, <3>1, DirsOne DEF Edited
  <2>5. CASE /\ Rename(w) /\ disk[c].where = "staging"
             /\ Edited(c, "task", disk[c].marker, disk[c].session, disk[c].intact)
    <3>1. Vouched(c) /\ disk[c].session = "saved"
      BY <1>1, <1>3, <2>5 DEF ReachedBy, ReachedAt, Rename, At, In
    <3>2. DirAt(c)'
      BY <2>1, <2>5, <3>1 DEF DirAt, Edited, Vouched, WellFormed, HeadOk, Writing, bags
    <3>3. QED
      BY <1>1, <2>1, <2>5, <3>2, DirsOne DEF Edited
  <2>6. CASE /\ Published(c) /\ \E where \in {"task", "trash"}, marker \in BOOLEAN :
                  Edited(c, where, marker, disk[c].session, disk[c].intact)
    <3>1. DirAt(c)'
      BY <1>3, <2>1, <2>6 DEF DirAt, Edited, Published, WellFormed, HeadOk, Writing, bags
    <3>2. QED
      BY <1>1, <2>1, <2>6, <3>1, DirsOne DEF Edited
  <2>7. Unmark(w) => disk[c].where \in {"task", "trash"}
    BY <1>1, <1>3 DEF Unmark, At, IInv, Moved
  <2>8. disk[c].marker \in BOOLEAN
    BY <1>1 DEF TypeOK, Directories
  <2>9. CASE Unmark(w)
    <3>1. Edited(c, disk[c].where, FALSE, disk[c].session, disk[c].intact) => Dirs'
      BY <2>6, <2>7, <2>9 DEF Published
    <3>2. QED
      BY <1>1, <1>3, <2>2, <2>9, <3>1, DiskIs
  <2>10. CASE MoveToTrash(w)
    <3>1. /\ disk[c].where = "task"
          /\ Edited(c, "trash", disk[c].marker, disk[c].session, disk[c].intact)
          => Dirs'
      BY <2>6, <2>8 DEF Published
    <3>2. QED
      BY <1>1, <1>3, <2>2, <2>10, <3>1, DiskIs
  <2>11. QED
    BY <1>1, <1>3, <1>11, <2>2, <2>3, <2>4, <2>5, <2>9, <2>10, DiskIs
<1>12. CASE UndoDiscard(w) \/ CancelDiscard(w)
  <2>1. UNCHANGED bags /\ (DiscardOk(c) \/ DiscardFails(c))
    BY <1>3, <1>12 DEF UndoDiscard, CancelDiscard, Col
  <2>2. DirsOf(c) /\ \/ disk' = disk
                     \/ disk'[c].where = "removed"
                     \/ disk'[c].where = "staging" /\ ~disk'[c].intact
    BY <1>1, <2>1, DiscardIs
  <2>3. CASE disk' = disk
    BY <1>4, <2>1, <2>3 DEF bags
  <2>4. CASE \/ disk'[c].where = "removed"
             \/ disk'[c].where = "staging" /\ ~disk'[c].intact
    <3>1. DirAt(c)'
      BY <2>4 DEF DirAt, Published
    <3>2. QED
      BY <1>1, <2>1, <2>2, <3>1, DirsOne
  <2>5. QED
    BY <2>2, <2>3, <2>4
<1>13. QED
  BY <1>5, <1>6, <1>7, <1>8, <1>9, <1>10, <1>11, <1>12 DEF Step

\* The gate is up for the thread that waits at it, and nothing is admitted yet.
LEMMA GateHeld ==
  ASSUME JInv, Open, gate.is = "armed"
  PROVE  \E w \in Workers :
           /\ worker[w].pc = "wait" /\ worker[w].col = gate.col /\ gate.col \in Collections
           /\ active = gate.col /\ log[active] = <<>> /\ ~admitting /\ Sane(active)
<1>1. /\ IInv /\ AdmitInv /\ Busy
      /\ \A w \in Workers : ThreadInv(w)
  BY DEF JInv, OpenInv, IInv
<1>2. PICK w \in Workers : worker[w].pc = "wait"
  BY <1>1 DEF AdmitInv, In
<1>3. /\ worker[w].col = gate.col /\ log[gate.col] = <<>> /\ active = worker[w].col
      /\ Sane(worker[w].col) /\ gate.col \in Collections
  BY <1>1, <1>2, Known DEF ThreadInv, ThreadAt, AdmitsAt, RoleAt, HoldsAt
<1>4. ~admitting
  BY <1>1, <1>3 DEF AdmitInv
<1>5. QED
  BY <1>2, <1>3, <1>4

\* A callback offers messages to the active collection, or touches no bag.
LEMMA InputIs ==
  ASSUME JInv, Input
  PROVE  /\ Open /\ UNCHANGED <<disk, worker, issued, active, state, exit>>
         /\ \/ UNCHANGED <<writer, log>>
            \/ /\ active \in Collections /\ (admitting \/ gate.is = "armed")
               /\ \E ms \in Seq(Messages) : \E k \in 0 .. Len(ms) : Offered(active, ms, k, FALSE)
<1>1. IInv /\ TypeOK
  BY DEF JInv, IInv
<1>2. Open
  BY DEF JInv, InputRests, Input, OpenGate, Data, TfArrives, TfSubmitted, TimingArrives,
     TimingReported, TimingSubmitted
<1>3. UNCHANGED <<disk, worker, issued, active, state, exit>>
  BY DEF Input, OpenGate, Data, TfArrives, TfSubmitted, TimingArrives, TimingReported,
     TimingSubmitted, process, files
<1>4. CASE OpenGate
  <2>1. /\ gate.is = "armed"
        /\ \E k \in 0 .. Len(GateMessages) : Offered(gate.col, GateMessages, k, FALSE)
    BY <1>4, Zenon DEF OpenGate, OfferFirst
  <2>2. active = gate.col /\ gate.col \in Collections
    BY <1>2, <2>1, GateHeld
  <2>3. QED
    BY <1>2, <1>3, <2>1, <2>2, GateMessagesTyped
<1>5. ASSUME NEW m \in Messages, Submit(m)
      PROVE  \/ UNCHANGED <<writer, log>>
             \/ /\ active \in Collections /\ admitting
                /\ \E ms \in Seq(Messages) : \E k \in 0 .. Len(ms) :
                     Offered(active, ms, k, FALSE)
  <2>1. CASE admitting /\ active # None
    <3>1. \E k \in 0 .. 1 : Offered(active, <<m>>, k, FALSE)
      BY <1>5, <2>1 DEF Submit, OfferFirst
    <3>2. PICK ms \in Seq(Messages) : ms = <<m>> /\ Len(ms) = 1
      <4>1. <<m>> \in Seq(Messages) /\ Len(<<m>>) = 1
        OBVIOUS
      <4>2. QED
        BY <4>1
    <3>3. active \in Collections
      BY <1>1, <2>1, Known
    <3>4. \E k \in 0 .. Len(ms) : Offered(active, ms, k, FALSE)
      BY <3>1, <3>2
    <3>5. QED
      BY <2>1, <3>3, <3>4
  <2>2. CASE ~(admitting /\ active # None)
    BY <1>5, <2>2 DEF Submit, bags
  <2>3. QED
    BY <2>1, <2>2
<1>6. CASE Data \/ TfSubmitted \/ TimingSubmitted
  <2>1. /\ Message("data") \in Messages /\ Message("tf") \in Messages
        /\ Timing(input.gen) \in Messages
    BY <1>1, MessageTyped DEF Timing, Messages, TypeOK, Inputs
  <2>2. \E m \in Messages : Submit(m)
    BY <1>6, <2>1 DEF Data, TfSubmitted, TimingSubmitted
  <2>3. QED
    BY <1>2, <1>3, <1>5, <2>2
<1>7. CASE TfArrives \/ TimingArrives \/ TimingReported
  BY <1>2, <1>3, <1>7 DEF TfArrives, TimingArrives, TimingReported, bags
<1>8. QED
  BY <1>4, <1>6, <1>7 DEF Input

\* A bag's thread may end, and its directory may be cleaned up.
Wanes(d) ==
  /\ writer'[d] = writer[d] \/ Writing(d) \/ d = active
  /\ disk'[d].session = disk[d].session
  /\ disk[d].bag = "complete" => disk'[d].bag = "complete"
  /\ \/ writer'[d].thread = writer[d].thread
     \/ Writing(d) /\ writer'[d].thread = "dead"
  /\ \/ Stays(d)
     \/ disk[d].where = "staging" /\ disk'[d].where = "removed"
     \/ disk[d].where = "staging" /\ disk'[d].where = "staging" /\ ~disk'[d].intact

\* The steps of shutdown and of the bag threads add nothing to the logs and start no thread.
LEMMA ExitIs ==
  ASSUME JInv, Exit \/ Sync \/ \E c \in Collections : WriterFails(c) \/ WriterEnds(c)
  PROVE  /\ UNCHANGED <<log, worker, issued>>
         /\ \A d \in Collections : Wanes(d)
<1>1. IInv /\ TypeOK
  BY DEF JInv, IInv
<1>2. UNCHANGED <<log, worker, issued>>
  BY DEF Exit, Sync, Shutdown, Settle, ExitAbort, ExitJoin, ExitClear, CleanBegins, CleanEnds,
     Unlock, ExitDone, WriterFails, WriterEnds, bags, process
<1>3. CASE CleanEnds \/ \E c \in Collections : CleanBegins(c)
  BY <1>1, <1>2, <1>3, CleanIs DEF Stays, Wanes
<1>4. ASSUME NEW c \in Collections, WriterEnds(c)
      PROVE  \A d \in Collections : Wanes(d)
  BY <1>1, <1>4, EndIs DEF Stays, Wanes
<1>5. ASSUME UNCHANGED disk, NEW c \in Collections, Writing(c) \/ c = active,
             \A d \in Collections : writer'[d].thread = writer[d].thread,
             \A d \in Collections \ {c} : writer'[d] = writer[d]
      PROVE  \A d \in Collections : Wanes(d)
  BY <1>5 DEF Stays, Wanes
<1>6. CASE Sync \/ Shutdown \/ Settle \/ ExitClear \/ Unlock \/ ExitDone
  <2>1. UNCHANGED <<writer, disk>>
    BY <1>6 DEF Sync, Shutdown, Settle, ExitClear, Unlock, ExitDone, bags, files
  <2>2. QED
    BY <1>2, <2>1 DEF Stays, Wanes
<1>7. CASE ExitAbort
  <2>1. /\ UNCHANGED disk
        /\ \/ UNCHANGED writer
           \/ active # None /\ \E drop \in BOOLEAN : Aborted(active, drop)
    BY <1>7 DEF ExitAbort, files
  <2>2. CASE UNCHANGED writer
    BY <1>2, <2>1, <2>2 DEF Stays, Wanes
  <2>3. CASE ~UNCHANGED writer
    <3>1. PICK c \in Collections : c = active
      BY <1>1, <2>1, <2>3, Known
    <3>2. /\ \A d \in Collections : writer'[d].thread = writer[d].thread
          /\ \A d \in Collections \ {c} : writer'[d] = writer[d]
      BY <1>1, <2>1, <2>3, <3>1, AbortIs
    <3>3. QED
      BY <1>2, <1>5, <2>1, <3>1, <3>2
  <2>4. QED
    BY <2>2, <2>3
<1>8. CASE ExitJoin
  <2>1. /\ UNCHANGED disk
        /\ \/ UNCHANGED writer
           \/ /\ writer[exit.col].thread = "run"
              /\ writer' = [writer EXCEPT ![exit.col].failed = TRUE]
    BY <1>8 DEF ExitJoin, TimedOut, files
  <2>2. CASE exit.col \in Collections /\ ~UNCHANGED writer
    <3>1. PICK c \in Collections : c = exit.col
      BY <2>2
    <3>2. /\ \A d \in Collections : writer'[d].thread = writer[d].thread
          /\ \A d \in Collections \ {c} : writer'[d] = writer[d]
      BY <1>1, <2>1, <2>2, <3>1, FailIs
    <3>3. QED
      BY <1>2, <1>5, <2>1, <2>2, <3>1, <3>2 DEF Writing
  <2>3. CASE exit.col \notin Collections \/ UNCHANGED writer
    <3>1. UNCHANGED writer
      BY <1>1, <2>1, <2>3 DEF TypeOK
    <3>2. QED
      BY <1>2, <2>1, <3>1 DEF Stays, Wanes
  <2>4. QED
    BY <2>2, <2>3
<1>9. ASSUME NEW c \in Collections, WriterFails(c)
      PROVE  \A d \in Collections : Wanes(d)
  <2>1. /\ UNCHANGED disk /\ Writing(c)
        /\ writer' = [writer EXCEPT ![c].failed = TRUE]
    BY <1>9 DEF WriterFails, Writing, files
  <2>2. /\ \A d \in Collections : writer'[d].thread = writer[d].thread
        /\ \A d \in Collections \ {c} : writer'[d] = writer[d]
    BY <1>1, <2>1, FailIs
  <2>3. QED
    BY <1>5, <2>1, <2>2
<1>10. QED
  BY <1>2, <1>3, <1>4, <1>6, <1>7, <1>8, <1>9 DEF Exit

\* Every step keeps what is known of the directories.
LEMMA DirsNext ==
  ASSUME JInv, Next
  PROVE  Dirs'
<1>1. IInv /\ TypeOK /\ Dirs
  BY DEF JInv, IInv
<1>2. ASSUME NEW w \in Workers, Request(w)
      PROVE  Dirs'
  <2>1. UNCHANGED <<writer, log, disk>>
    BY <1>2 DEF Request, Start, Save, Cancel, Stop, Delete, process, bags, files
  <2>2. QED
    BY <1>1, <2>1, DirsStay DEF Stays, Dirs, DirAt, Writing
<1>3. CASE Input
  <2>1. CASE UNCHANGED <<writer, log>>
    BY <1>1, <1>3, <2>1, InputIs, DirsStay DEF Stays, Dirs, DirAt, Writing
  <2>2. CASE /\ active \in Collections
             /\ \E ms \in Seq(Messages) : \E k \in 0 .. Len(ms) : Offered(active, ms, k, FALSE)
    BY <1>1, <1>3, <2>2, InputIs, DirsOffer
  <2>3. QED
    BY <1>3, <2>1, <2>2, InputIs
<1>4. CASE Exit \/ Sync \/ \E c \in Collections : WriterFails(c) \/ WriterEnds(c)
  <2>1. ASSUME NEW d \in Collections
        PROVE  DirAt(d)'
    <3>1. /\ log' = log /\ DirAt(d)
          /\ writer'[d].thread = writer[d].thread \/ writer'[d].thread = "dead"
      BY <1>1, <1>4, ExitIs DEF Dirs, Wanes, Writing
    <3>2. CASE Stays(d)
      BY <3>1, <3>2, StaysDir DEF DirAt, Writing
    <3>3. CASE \/ disk'[d].where = "removed"
               \/ disk'[d].where = "staging" /\ ~disk'[d].intact
      BY <3>3 DEF DirAt, Published
    <3>4. QED
      BY <1>4, <3>2, <3>3, ExitIs DEF Wanes
  <2>2. QED
    BY <2>1 DEF Dirs
<1>5. CASE Restart
  <2>1. ASSUME NEW d \in Collections
        PROVE  DirAt(d)'
    <3>1. /\ log' = log /\ DirAt(d) /\ writer'[d].thread = "none"
          /\ disk'[d] = IF Owned(d) THEN [disk[d] EXCEPT !.where = "removed", !.marker = FALSE]
                        ELSE disk[d]
          /\ disk[d] \in Directories
      BY <1>1, <1>5 DEF Dirs, Restart, NoWriter, Recovered, TypeOK
    <3>2. CASE Owned(d)
      <4>1. disk'[d].where = "removed"
        BY <3>1, <3>2 DEF Directories
      <4>2. QED
        BY <4>1 DEF DirAt, Published
    <3>3. CASE ~Owned(d)
      <4>1. disk'[d] = disk[d]
        BY <3>1, <3>3
      <4>2. QED
        BY <3>1, <4>1, StaysDir DEF Stays, Writing
    <3>4. QED
      BY <3>2, <3>3
  <2>2. QED
    BY <2>1 DEF Dirs
<1>6. QED
  BY <1>2, <1>3, <1>4, <1>5, DirsThread DEF Next

-----------------------------------------------------------------------------
(* Every step keeps what the threads have reached *)

\* What is reached of a collection stays so.
Lasts(c) ==
  /\ writer[c].thread # "none" => writer'[c].thread # "none"
  /\ log[c] # <<>> => log'[c] # <<>>
  /\ Vouched(c) => Vouched(c)'
  /\ ~Writing(c) => ~Writing(c)'
  /\ Published(c) => Published(c)'
  /\ disk[c].session = "saved" => disk'[c].session = "saved"

\* A thread that does nothing.
LEMMA StillReached ==
  ASSUME NEW v \in Workers, NEW c \in Collections, c = worker[v].col, ReachedBy(v),
         worker'[v].pc = worker[v].pc, worker'[v].col = c, active' \in {active, None}, Lasts(c),
         worker[v].pc \in {"stage", "open"} => writer'[c] = writer[c],
         worker[v].pc \in {"stage", "open", "activate", "begin", "arm"} => log'[c] = log[c]
  PROVE  ReachedBy(v)'
<1>1. ReachedAt(worker[v].pc, c) /\ c # None
  BY DEF ReachedBy, Collections, None
<1>2. PICK pc : pc = worker[v].pc
  OBVIOUS
<1>3. ReachedAt(pc, c)'
  BY <1>1, <1>2 DEF ReachedAt, Lasts
<1>4. worker'[v].pc = pc /\ worker'[v].col = c
  BY <1>1, <1>2
<1>5. QED
  BY <1>3, <1>4 DEF ReachedBy, ReachedAt, Vouched, WellFormed, HeadOk, Writing, Published

\* A thread that goes to step pc.
LEMMA NowReached ==
  ASSUME NEW w \in Workers, NEW pc, NEW c, worker'[w].pc = pc, worker'[w].col = c,
         ReachedAt(pc, c)'
  PROVE  ReachedBy(w)'
BY DEF ReachedBy, ReachedAt, Vouched, WellFormed, HeadOk, Writing, Published

\* A thread that has come to the end of its request has nothing left to know.
LEMMA IdleReached ==
  ASSUME NEW w \in Workers, worker'[w].pc = "idle"
  PROVE  ReachedBy(w)'
BY DEF ReachedBy, ReachedAt

\* What is vouched for stays so if nothing happens to its log.
LEMMA VouchedLasts ==
  ASSUME NEW c, log'[c] = log[c], writer[c].thread = "dead" => writer'[c].thread = "dead",
         disk[c].bag = "complete" => disk'[c].bag = "complete"
  PROVE  Vouched(c) => Vouched(c)'
BY DEF Vouched, WellFormed, HeadOk

\* What a request has reached lasts when messages are offered to a bag.
LEMMA OfferLasts ==
  ASSUME TypeOK, UNCHANGED disk, NEW c \in Collections, NEW ms \in Seq(Messages),
         NEW k \in 0 .. Len(ms), NEW closing \in BOOLEAN, Offered(c, ms, k, closing)
  PROVE  \A d \in Collections : Lasts(d)
<1>1. BagsOf(c) /\ Grown(c, ms, k, closing) /\ Flagged(c, ms, k, closing)
  BY OfferIs
<1>2. ASSUME NEW d \in Collections
      PROVE  Lasts(d)
  <2>1. writer'[d].thread = writer[d].thread
    BY <1>1 DEF BagsOf, Flagged
  <2>2. log'[d] = log[d] \/ writer[d].thread = "run"
    BY <1>1 DEF BagsOf, Grown, Accepting
  <2>3. log[d] # <<>> => log'[d] # <<>>
    <3>1. CASE d # c
      BY <1>1, <3>1 DEF BagsOf
    <3>2. CASE d = c
      <4>1. log[c] = <<>> <=> Len(log[c]) = 0
        BY DEF TypeOK
      <4>2. log'[c] = <<>> => Len(log'[c]) = 0
        OBVIOUS
      <4>3. QED
        BY <1>1, <3>2, <4>1, <4>2 DEF Grown
    <3>3. QED
      BY <3>1, <3>2
  <2>4. Vouched(d) => Vouched(d)'
    BY <2>1, <2>2, VouchedLasts DEF Vouched
  <2>5. QED
    BY <2>1, <2>3, <2>4 DEF Lasts, Writing, Published
<1>3. QED
  BY <1>2

\* The input thread takes nothing from what requests have reached.
LEMMA ReachedInput ==
  ASSUME JInv, Input
  PROVE  Reached'
<1>1. /\ IInv /\ TypeOK /\ Reached /\ Open /\ AdmitInv /\ Alone
      /\ \A w \in Workers : ThreadInv(w)
      /\ UNCHANGED <<disk, worker, active>>
  BY InputIs DEF JInv, IInv, OpenInv
<1>2. ASSUME NEW v \in Workers
      PROVE  ReachedBy(v)'
  <2>1. CASE worker[v].pc = "idle"
    BY <1>1, <2>1, IdleReached
  <2>2. CASE worker[v].pc # "idle"
    <3>1. PICK c \in Collections : c = worker[v].col
      BY <1>1, <2>2, Known
    <3>2. ReachedBy(v) /\ worker'[v] = worker[v] /\ active' = active
      BY <1>1 DEF Reached
    <3>3. CASE UNCHANGED <<writer, log>>
      <4>1. Lasts(c)
        BY <1>1, <3>3, VouchedLasts DEF Lasts, Writing, Published
      <4>2. QED
        BY <3>1, <3>2, <3>3, <4>1, StillReached
    <3>4. CASE ~UNCHANGED <<writer, log>>
      <4>1. PICK a \in Collections : a = active
        BY <3>4, InputIs
      <4>2. /\ admitting \/ gate.is = "armed"
            /\ \E ms \in Seq(Messages) : \E k \in 0 .. Len(ms) : Offered(a, ms, k, FALSE)
        BY <3>4, <4>1, InputIs
      <4>3. Lasts(c) /\ BagsOf(a)
        BY <1>1, <4>2, OfferLasts, OfferIs
      <4>4. worker[v].pc \in {"stage", "open", "activate"} => c # a
        BY <3>1, <3>2, <4>1 DEF ReachedBy, ReachedAt
      <4>5. worker[v].pc \notin {"begin", "arm"}
        <5>1. worker[v].pc \in {"begin", "arm"} => log[a] = <<>>
          BY <1>1, <3>1, <3>2, <4>1
          DEF ReachedBy, ReachedAt, ThreadInv, ThreadAt, RoleAt
        <5>2. admitting => log[a] # <<>>
          BY <1>1, <4>1 DEF AdmitInv
        <5>3. gate.is = "armed" => \E w \in Workers : worker[w].pc = "wait"
          BY <1>1, GateHeld
        <5>4. gate.is = "armed" => worker[v].pc \notin {"begin", "arm"}
          BY <1>1, <5>3 DEF Alone, Lifecycle, Starting
        <5>5. QED
          BY <4>2, <5>1, <5>2, <5>4
      <4>6. /\ worker[v].pc \in {"stage", "open"} => writer'[c] = writer[c]
            /\ worker[v].pc \in {"stage", "open", "activate", "begin", "arm"} => log'[c] = log[c]
        BY <4>3, <4>4, <4>5 DEF BagsOf
      <4>7. QED
        BY <3>1, <3>2, <4>3, <4>6, StillReached
    <3>5. QED
      BY <3>3, <3>4
  <2>3. QED
    BY <2>1, <2>2
<1>3. QED
  BY <1>2 DEF Reached

\* Nor do shutdown, the timer and the writer threads.
LEMMA ReachedExit ==
  ASSUME JInv, Exit \/ Sync \/ \E c \in Collections : WriterFails(c) \/ WriterEnds(c)
  PROVE  Reached'
<1>1. IInv /\ TypeOK /\ Reached /\ UNCHANGED <<log, worker>>
  BY ExitIs DEF JInv, IInv
<1>2. active' \in {active, None}
  BY DEF Exit, Sync, Shutdown, Settle, ExitAbort, ExitJoin, ExitClear, CleanBegins, CleanEnds,
     Unlock, ExitDone, WriterFails, WriterEnds, service
<1>3. ASSUME NEW v \in Workers
      PROVE  ReachedBy(v)'
  <2>1. CASE worker[v].pc = "idle"
    BY <1>1, <2>1, IdleReached
  <2>2. CASE worker[v].pc # "idle"
    <3>1. PICK c \in Collections : c = worker[v].col
      BY <1>1, <2>2, Known
    <3>2. ReachedBy(v) /\ worker'[v] = worker[v] /\ Wanes(c)
      BY <1>1, ExitIs DEF Reached
    <3>3. Lasts(c)
      <4>1. Vouched(c) => disk[c].bag = "complete" /\ writer[c].thread = "dead"
        BY DEF Vouched
      <4>2. disk[c].bag = "complete" => disk'[c].bag = "complete"
        BY <1>1, <3>2 DEF Wanes
      <4>3. disk[c].session = "saved" => disk'[c].session = "saved"
        BY <1>1, <3>2 DEF Wanes
      <4>4. Vouched(c) => Vouched(c)'
        BY <1>1, <3>2, <4>2, VouchedLasts DEF Wanes, Writing
      <4>5. QED
        BY <1>1, <3>2, <4>3, <4>4 DEF Lasts, Wanes, Stays, Writing, Published
    <3>4. worker[v].pc \in {"stage", "open"} => writer'[c] = writer[c]
      BY <3>1, <3>2 DEF Wanes, ReachedBy, ReachedAt, Writing, NoWriter
    <3>5. QED
      BY <1>1, <1>2, <3>1, <3>2, <3>3, <3>4, StillReached
  <2>3. QED
    BY <2>1, <2>2
<1>4. QED
  BY <1>3 DEF Reached

\* Where a thread goes.
LEMMA Goes ==
  ASSUME TypeOK, NEW w \in Workers
  PROVE  /\ \A pc \in Steps \ {"idle"} : Goto(w, pc) => Moves(w, pc)
         /\ Done(w) => Moves(w, "idle")
BY GotoMoves, DoneMoves

\* The flags of the bag of c change, and nothing else of the bags.
Touched(c) ==
  /\ \A d \in Collections \ {c} : writer'[d] = writer[d]
  /\ writer'[c].thread = writer[c].thread
  /\ log' = log

\* An abort, a failure and a verdict on a bag change its flags only.
LEMMA TouchedIs ==
  ASSUME TypeOK, NEW c \in Collections, UNCHANGED log,
         \/ UNCHANGED writer
         \/ \E drop \in BOOLEAN : Aborted(c, drop)
         \/ writer' = [writer EXCEPT ![c].failed = TRUE]
         \/ \E b : writer' = [writer EXCEPT ![c].failed = @ \/ b]
  PROVE  Touched(c)
BY AbortIs, FailIs, JudgedIs DEF Touched

\* The bag of c is opened.
Opened(c) ==
  /\ \A d \in Collections \ {c} : writer'[d] = writer[d]
  /\ writer'[c].thread = "run" /\ writer'[c].closing = writer[c].closing
  /\ writer'[c].failed = writer[c].failed
  /\ log' = log

\* What every step of a request leaves alone, in the order of the requests.
StartFrame   == UNCHANGED <<issued, tfCached, input, exit, exits>>
ServiceFrame == StartFrame /\ UNCHANGED <<state, active, admitting, writerError, gate>>

\* Start makes the staging directory, or goes back (create_staging).
LEMMA StageIs ==
  ASSUME TypeOK, NEW w \in Workers, NEW c \in Collections, c = worker[w].col, Stage(w)
  PROVE  /\ worker[w].pc = "stage" /\ ServiceFrame /\ UNCHANGED bags
         /\ \/ /\ Moves(w, "open")
               /\ Edited(c, "staging", TRUE, disk[c].session, disk[c].intact)
            \/ Moves(w, "undo")
<1>1. /\ worker[w].pc = "stage" /\ ServiceFrame /\ UNCHANGED bags
      /\ \/ Goto(w, "open") /\ disk' = [disk EXCEPT ![c].where = "staging", ![c].marker = TRUE]
         \/ Goto(w, "undo")
  BY Zenon DEF Stage, At, Col, service, process, caches, ServiceFrame, StartFrame
<1>2. disk' = [disk EXCEPT ![c].where = "staging", ![c].marker = TRUE]
        => Edited(c, "staging", TRUE, disk[c].session, disk[c].intact)
  BY DEF TypeOK, Directories, Edited, DirsOf
<1>3. QED
  BY <1>1, <1>2, Goes DEF Steps

\* Start opens the bag in it, or goes back (QueuedBagWriter).
LEMMA OpenBagIs ==
  ASSUME TypeOK, NEW w \in Workers, NEW c \in Collections, c = worker[w].col, OpenBag(w)
  PROVE  /\ worker[w].pc = "open" /\ StartFrame /\ writerError' = ""
         /\ UNCHANGED <<state, active, admitting, gate, log, disk>>
         /\ \/ Moves(w, "activate") /\ Opened(c) /\ disk[c].where = "staging"
            \/ Moves(w, "undo") /\ UNCHANGED writer
<1>1. /\ worker[w].pc = "open" /\ StartFrame /\ writerError' = ""
      /\ UNCHANGED <<state, active, admitting, gate, log, disk>>
      /\ \/ /\ Goto(w, "activate") /\ disk[c].where = "staging"
            /\ writer' = [writer EXCEPT ![c].thread = "run"]
         \/ Goto(w, "undo") /\ UNCHANGED writer
  BY Zenon DEF OpenBag, At, Col, process, caches, files, StartFrame
<1>2. writer' = [writer EXCEPT ![c].thread = "run"] /\ log' = log => Opened(c)
  BY DEF TypeOK, Writers, Opened
<1>3. QED
  BY <1>1, <1>2, Goes DEF Steps

\* Start makes the collection the active one.
LEMMA ActivateIs ==
  ASSUME TypeOK, NEW w \in Workers, NEW c \in Collections, c = worker[w].col, Activate(w)
  PROVE  /\ worker[w].pc = "activate" /\ StartFrame /\ active' = c
         /\ UNCHANGED <<state, admitting, writerError, gate, writer, log, disk>>
         /\ Moves(w, IF KeyframeStart THEN "arm" ELSE "begin")
<1>1. /\ worker[w].pc = "activate" /\ StartFrame /\ active' = c
      /\ UNCHANGED <<state, admitting, writerError, gate, writer, log, disk>>
      /\ Goto(w, IF KeyframeStart THEN "arm" ELSE "begin")
  BY Zenon DEF Activate, At, Col, process, caches, bags, files, StartFrame
<1>2. QED
  BY <1>1, Goes DEF Steps

\* Start offers START and the cached transform, or goes back if the bag takes none.
LEMMA BeginIs ==
  ASSUME TypeOK, NEW w \in Workers, NEW c \in Collections, c = worker[w].col, Begin(w)
  PROVE  /\ worker[w].pc = "begin" /\ StartFrame
         /\ UNCHANGED <<state, active, admitting, gate, disk>>
         /\ \E k \in 0 .. Len(StartMessages) :
              /\ Offered(c, StartMessages, k, FALSE)
              /\ Moves(w, IF k = 0 THEN "undo" ELSE "admit")
<1>1. /\ worker[w].pc = "begin" /\ StartFrame
      /\ UNCHANGED <<state, active, admitting, gate, disk>>
      /\ \E k \in 0 .. Len(StartMessages) :
           /\ Offered(c, StartMessages, k, FALSE)
           /\ Goto(w, IF k = 0 THEN "undo" ELSE "admit")
  BY Zenon DEF Begin, At, Col, OfferFirst, process, caches, files, StartFrame
<1>2. QED
  BY <1>1, Goes DEF Steps

\* Start without a keyframe admits messages.
LEMMA AdmitIs ==
  ASSUME TypeOK, NEW w \in Workers, Admit(w)
  PROVE  /\ worker[w].pc = "admit" /\ StartFrame /\ admitting' = TRUE /\ Moves(w, "ready")
         /\ UNCHANGED <<state, active, writerError, gate, writer, log, disk>>
<1>1. /\ worker[w].pc = "admit" /\ StartFrame /\ admitting' = TRUE /\ Goto(w, "ready")
      /\ UNCHANGED <<state, active, writerError, gate, writer, log, disk>>
  BY Zenon DEF Admit, At, process, caches, bags, files, StartFrame
<1>2. QED
  BY <1>1, Goes DEF Steps

\* Start with a keyframe arms the gate.
LEMMA ArmIs ==
  ASSUME TypeOK, NEW w \in Workers, NEW c \in Collections, c = worker[w].col, Arm(w)
  PROVE  /\ worker[w].pc = "arm" /\ StartFrame /\ gate' = [col |-> c, is |-> "armed"]
         /\ UNCHANGED <<state, active, admitting, writerError, writer, log, disk>>
         /\ Moves(w, "wait")
<1>1. /\ worker[w].pc = "arm" /\ StartFrame /\ gate' = [col |-> c, is |-> "armed"]
      /\ UNCHANGED <<state, active, admitting, writerError, writer, log, disk>>
      /\ Goto(w, "wait")
  BY Zenon DEF Arm, At, Col, process, caches, bags, files, StartFrame
<1>2. QED
  BY <1>1, Goes DEF Steps

\* The wait for the keyframe ends, with the gate done or with a way back.
LEMMA WaitEndsIs ==
  ASSUME TypeOK, NEW w \in Workers, WaitEnds(w)
  PROVE  /\ worker[w].pc = "wait" /\ StartFrame /\ gate' = NoGate
         /\ UNCHANGED <<state, active, admitting, writerError, writer, log, disk>>
         /\ Moves(w, IF gate.is = "done" THEN "ready" ELSE "undo")
<1>1. /\ worker[w].pc = "wait" /\ StartFrame /\ gate' = NoGate
      /\ UNCHANGED <<state, active, admitting, writerError, writer, log, disk>>
      /\ Goto(w, IF gate.is = "done" THEN "ready" ELSE "undo")
  BY Zenon DEF WaitEnds, At, process, caches, bags, files, StartFrame
<1>2. QED
  BY <1>1, Goes DEF Steps

\* Start is done: the state is recording.
LEMMA ReadyIs ==
  ASSUME TypeOK, NEW w \in Workers, Ready(w)
  PROVE  /\ worker[w].pc = "ready" /\ StartFrame /\ state' = "recording" /\ Moves(w, "idle")
         /\ UNCHANGED <<active, admitting, writerError, gate, writer, log, disk>>
<1>1. /\ worker[w].pc = "ready" /\ StartFrame /\ state' = "recording" /\ Done(w)
      /\ UNCHANGED <<active, admitting, writerError, gate, writer, log, disk>>
  BY Zenon DEF Ready, At, process, caches, bags, files, StartFrame
<1>2. QED
  BY <1>1, Goes

\* A failed start closes the admission and aborts its bag, if there is one.
LEMMA UndoIs ==
  ASSUME TypeOK, NEW w \in Workers, NEW c \in Collections, c = worker[w].col, Undo(w)
  PROVE  /\ worker[w].pc = "undo" /\ StartFrame /\ admitting' = FALSE
         /\ UNCHANGED <<state, active, writerError, gate, log, disk>>
         /\ \/ writer[c].thread = "none" /\ Moves(w, "undiscard") /\ UNCHANGED writer
            \/ writer[c].thread # "none" /\ Moves(w, "unjoin") /\ Touched(c)
<1>1. /\ worker[w].pc = "undo" /\ StartFrame /\ admitting' = FALSE
      /\ UNCHANGED <<state, active, writerError, gate, log, disk>>
      /\ \/ writer[c].thread = "none" /\ Goto(w, "undiscard") /\ UNCHANGED writer
         \/ /\ writer[c].thread # "none" /\ Goto(w, "unjoin")
            /\ \E drop \in BOOLEAN : Aborted(c, drop)
  BY Zenon DEF Undo, At, Col, process, caches, files, StartFrame
<1>2. QED
  BY <1>1, Goes, TouchedIs DEF Steps

\* A failed start waits for the thread of its bag, and is in ERROR if that hangs.
LEMMA UndoJoinIs ==
  ASSUME TypeOK, NEW w \in Workers, NEW c \in Collections, c = worker[w].col, UndoJoin(w)
  PROVE  /\ worker[w].pc = "unjoin" /\ StartFrame /\ Touched(c)
         /\ UNCHANGED <<active, admitting, writerError, gate, disk>>
         /\ \/ ~Writing(c) /\ Moves(w, "undiscard") /\ UNCHANGED <<state, writer>>
            \/ Writing(c) /\ Moves(w, "idle") /\ state' = "error"
<1>1. /\ worker[w].pc = "unjoin" /\ StartFrame
      /\ UNCHANGED <<active, admitting, writerError, gate, log, disk>>
      /\ \/ ~Writing(c) /\ Goto(w, "undiscard") /\ UNCHANGED <<state, writer>>
         \/ /\ Writing(c) /\ Done(w) /\ state' = "error"
            /\ writer' = [writer EXCEPT ![c].failed = TRUE]
  BY Zenon DEF UndoJoin, At, Col, process, caches, files, StartFrame, AbortStopped, Joined,
     TimedOut, Writing
<1>2. QED
  BY <1>1, Goes, TouchedIs DEF Steps

\* A failed start removes its directory, or fails to.
LEMMA UndoDiscardIs ==
  ASSUME TypeOK, NEW w \in Workers, NEW c \in Collections, c = worker[w].col, UndoDiscard(w)
  PROVE  /\ worker[w].pc = "undiscard" /\ ServiceFrame /\ UNCHANGED bags /\ Moves(w, "undone")
         /\ DiscardOk(c) \/ DiscardFails(c)
<1>1. /\ worker[w].pc = "undiscard" /\ ServiceFrame /\ UNCHANGED bags /\ Goto(w, "undone")
      /\ DiscardOk(c) \/ DiscardFails(c)
  BY Zenon DEF UndoDiscard, At, Col, service, process, caches, StartFrame, ServiceFrame
<1>2. QED
  BY <1>1, Goes DEF Steps

\* A failed start is over: the service is idle and holds nothing.
LEMMA UndoneIs ==
  ASSUME TypeOK, NEW w \in Workers, Undone(w)
  PROVE  /\ worker[w].pc = "undone" /\ StartFrame
         /\ admitting' = FALSE /\ active' = None /\ state' = "idle" /\ Moves(w, "idle")
         /\ UNCHANGED <<writerError, gate, writer, log, disk>>
<1>1. /\ worker[w].pc = "undone" /\ StartFrame
      /\ admitting' = FALSE /\ active' = None /\ state' = "idle" /\ Done(w)
      /\ UNCHANGED <<writerError, gate, writer, log, disk>>
  BY Zenon DEF Undone, At, process, caches, bags, files, StartFrame
<1>2. QED
  BY <1>1, Goes

\* Stop closes the admission and offers STOP as the last message.
LEMMA QuiesceIs ==
  ASSUME TypeOK, NEW w \in Workers, NEW c \in Collections, c = worker[w].col, Quiesce(w)
  PROVE  /\ worker[w].pc = "quiesce" /\ StartFrame /\ admitting' = FALSE /\ Moves(w, "join")
         /\ UNCHANGED <<state, active, gate, disk>>
         /\ \E ms \in Seq(Messages) : \E k \in 0 .. Len(ms) : Offered(c, ms, k, TRUE)
<1>1. /\ worker[w].pc = "quiesce" /\ StartFrame /\ admitting' = FALSE /\ Goto(w, "join")
      /\ UNCHANGED <<state, active, gate, disk>>
      /\ \E k \in 0 .. 1 : Offered(c, <<Message("STOP")>>, k, TRUE)
  BY Zenon DEF Quiesce, At, Col, process, caches, files, StartFrame
<1>2. PICK ms \in Seq(Messages) : ms = <<Message("STOP")>> /\ Len(ms) = 1
  <2>1. <<Message("STOP")>> \in Seq(Messages) /\ Len(<<Message("STOP")>>) = 1
    BY MessageTyped
  <2>2. QED
    BY <2>1
<1>3. \E k \in 0 .. Len(ms) : Offered(c, ms, k, TRUE)
  BY <1>1, <1>2
<1>4. QED
  BY <1>1, <1>3, Goes DEF Steps

\* Stop joins the writer and judges the bag: whole, or ERROR.
LEMMA VerifyIs ==
  ASSUME TypeOK, NEW w \in Workers, NEW c \in Collections, c = worker[w].col, Verify(w)
  PROVE  /\ worker[w].pc = "join" /\ StartFrame /\ Touched(c)
         /\ UNCHANGED <<active, admitting, gate, disk>>
         /\ \/ Verified(c) /\ Moves(w, "session") /\ UNCHANGED <<state, writerError>>
            \/ ~Verified(c) /\ Moves(w, "idle") /\ state' = "error" /\ writerError' # ""
<1>1. /\ worker[w].pc = "join" /\ StartFrame
      /\ writer' = [writer EXCEPT ![c].failed = @ \/ ~Joined(c)]
      /\ UNCHANGED <<active, admitting, gate, log, disk>>
      /\ \/ Verified(c) /\ Goto(w, "session") /\ UNCHANGED <<state, writerError>>
         \/ ~Verified(c) /\ Done(w) /\ state' = "error" /\ writerError' = Noted("write")
  BY Zenon DEF Verify, At, Col, process, caches, files, StartFrame
<1>2. Touched(c)
  BY <1>1, JudgedIs DEF Touched
<1>3. Noted("write") # ""
  BY DEF Noted
<1>4. QED
  BY <1>1, <1>2, <1>3, Goes DEF Steps

\* Stop writes session.json, and goes on to save, waits for the operator or fails.
LEMMA SessionIs ==
  ASSUME TypeOK, NEW w \in Workers, NEW c \in Collections, c = worker[w].col, Session(w)
  PROVE  /\ worker[w].pc = "session" /\ StartFrame
         /\ UNCHANGED <<active, admitting, gate, writer, log>>
         /\ \/ /\ disk[c].where = "staging" /\ UNCHANGED writerError
               /\ Edited(c, "staging", disk[c].marker, "pending", disk[c].intact)
               /\ \/ state' = "saving" /\ Moves(w, "manifest")
                  \/ state' = "pending" /\ Moves(w, "idle")
            \/ /\ state' = "error" /\ writerError' # "" /\ Moves(w, "idle")
               /\ UNCHANGED disk
<1>1. /\ worker[w].pc = "session" /\ StartFrame
      /\ UNCHANGED <<active, admitting, gate, writer, log>>
      /\ \/ /\ disk[c].where = "staging" /\ UNCHANGED writerError
            /\ disk' = [disk EXCEPT ![c].session = "pending"]
            /\ \/ state' = "saving" /\ Goto(w, "manifest")
               \/ state' = "pending" /\ Done(w)
         \/ /\ state' = "error" /\ writerError' = Noted("write") /\ Done(w)
            /\ UNCHANGED disk
  BY Zenon DEF Session, At, Col, process, caches, bags, StartFrame
<1>2. disk' = [disk EXCEPT ![c].session = "pending"] /\ disk[c].where = "staging"
        => Edited(c, "staging", disk[c].marker, "pending", disk[c].intact)
  BY DEF TypeOK, Directories, Edited, DirsOf
<1>3. Noted("write") # ""
  BY DEF Noted
<1>4. QED
  BY <1>1, <1>2, <1>3, Goes DEF Steps

\* Save writes the manifest of the published record, or fails.
LEMMA ManifestIs ==
  ASSUME TypeOK, NEW w \in Workers, NEW c \in Collections, c = worker[w].col, Manifest(w)
  PROVE  /\ worker[w].pc = "manifest" /\ StartFrame
         /\ UNCHANGED <<active, admitting, writerError, gate, writer, log>>
         /\ \/ /\ disk[c].where = "staging" /\ UNCHANGED state /\ Moves(w, "check")
               /\ Edited(c, "staging", disk[c].marker, "saved", disk[c].intact)
            \/ state' = "error" /\ Moves(w, "idle") /\ UNCHANGED disk
<1>1. /\ worker[w].pc = "manifest" /\ StartFrame
      /\ UNCHANGED <<active, admitting, writerError, gate, writer, log>>
      /\ \/ /\ disk[c].where = "staging" /\ UNCHANGED state /\ Goto(w, "check")
            /\ disk' = [disk EXCEPT ![c].session = "saved"]
         \/ state' = "error" /\ Done(w) /\ UNCHANGED disk
  BY Zenon DEF Manifest, SaveFails, At, Col, process, caches, bags, StartFrame
<1>2. disk' = [disk EXCEPT ![c].session = "saved"] /\ disk[c].where = "staging"
        => Edited(c, "staging", disk[c].marker, "saved", disk[c].intact)
  BY DEF TypeOK, Directories, Edited, DirsOf
<1>3. QED
  BY <1>1, <1>2, Goes DEF Steps

\* Save looks at the directory it is to move.
LEMMA CheckOwnedIs ==
  ASSUME TypeOK, NEW w \in Workers, NEW c \in Collections, c = worker[w].col, CheckOwned(w)
  PROVE  /\ worker[w].pc = "check" /\ StartFrame
         /\ UNCHANGED <<active, admitting, writerError, gate, writer, log, disk>>
         /\ \/ UNCHANGED state /\ Moves(w, "rename")
            \/ state' = "error" /\ Moves(w, "idle")
<1>1. /\ worker[w].pc = "check" /\ StartFrame
      /\ UNCHANGED <<active, admitting, writerError, gate, writer, log, disk>>
      /\ \/ UNCHANGED state /\ Goto(w, "rename")
         \/ state' = "error" /\ Done(w)
  BY Zenon DEF CheckOwned, SaveFails, At, Col, process, caches, bags, StartFrame
<1>2. QED
  BY <1>1, Goes DEF Steps

\* Save moves the directory to the task, or fails.
LEMMA RenameIs ==
  ASSUME TypeOK, NEW w \in Workers, NEW c \in Collections, c = worker[w].col, Rename(w)
  PROVE  /\ worker[w].pc = "rename" /\ StartFrame
         /\ UNCHANGED <<active, admitting, writerError, gate, writer, log>>
         /\ \/ /\ disk[c].where = "staging" /\ UNCHANGED state /\ Moves(w, "unmark")
               /\ Edited(c, "task", disk[c].marker, disk[c].session, disk[c].intact)
            \/ state' = "error" /\ Moves(w, "idle") /\ UNCHANGED disk
<1>1. /\ worker[w].pc = "rename" /\ StartFrame
      /\ UNCHANGED <<active, admitting, writerError, gate, writer, log>>
      /\ \/ /\ disk[c].where = "staging" /\ UNCHANGED state /\ Goto(w, "unmark")
            /\ disk' = [disk EXCEPT ![c].where = "task"]
         \/ state' = "error" /\ Done(w) /\ UNCHANGED disk
  BY Zenon DEF Rename, SaveFails, NotMoved, At, Col, process, caches, bags, StartFrame
<1>2. disk' = [disk EXCEPT ![c].where = "task"]
        => Edited(c, "task", disk[c].marker, disk[c].session, disk[c].intact)
  BY DEF TypeOK, Directories, Edited, DirsOf
<1>3. QED
  BY <1>1, <1>2, Goes DEF Steps

\* Save removes the marker from the moved directory, or fails.
LEMMA UnmarkIs ==
  ASSUME TypeOK, NEW w \in Workers, NEW c \in Collections, c = worker[w].col, Unmark(w)
  PROVE  /\ worker[w].pc = "unmark" /\ StartFrame
         /\ UNCHANGED <<active, admitting, writerError, gate, writer, log>>
         /\ \/ /\ UNCHANGED state /\ Moves(w, "saved")
               /\ Edited(c, disk[c].where, FALSE, disk[c].session, disk[c].intact)
            \/ state' = "error" /\ Moves(w, "idle") /\ UNCHANGED disk
<1>1. /\ worker[w].pc = "unmark" /\ StartFrame
      /\ UNCHANGED <<active, admitting, writerError, gate, writer, log>>
      /\ \/ /\ UNCHANGED state /\ Goto(w, "saved")
            /\ disk' = [disk EXCEPT ![c].marker = FALSE]
         \/ state' = "error" /\ Done(w) /\ UNCHANGED disk
  BY Zenon DEF Unmark, SaveFails, At, Col, process, caches, bags, StartFrame
<1>2. disk' = [disk EXCEPT ![c].marker = FALSE]
        => Edited(c, disk[c].where, FALSE, disk[c].session, disk[c].intact)
  BY DEF TypeOK, Directories, Edited, DirsOf
<1>3. QED
  BY <1>1, <1>2, Goes DEF Steps

\* Save is over: the service is idle and holds nothing.
LEMMA SavedIs ==
  ASSUME TypeOK, NEW w \in Workers, Saved(w)
  PROVE  /\ worker[w].pc = "saved" /\ StartFrame
         /\ active' = None /\ state' = "idle" /\ Moves(w, "idle")
         /\ UNCHANGED <<admitting, writerError, gate, writer, log, disk>>
<1>1. /\ worker[w].pc = "saved" /\ StartFrame /\ active' = None /\ state' = "idle" /\ Done(w)
      /\ UNCHANGED <<admitting, writerError, gate, writer, log, disk>>
  BY Zenon DEF Saved, At, process, caches, bags, files, StartFrame
<1>2. QED
  BY <1>1, Goes

\* Cancel closes the admission and aborts the bag.
LEMMA CancelAbortIs ==
  ASSUME TypeOK, NEW w \in Workers, NEW c \in Collections, c = worker[w].col, CancelAbort(w)
  PROVE  /\ worker[w].pc = "abort" /\ StartFrame /\ admitting' = FALSE
         /\ Moves(w, "abortjoin") /\ Touched(c)
         /\ UNCHANGED <<state, active, writerError, gate, disk>>
<1>1. /\ worker[w].pc = "abort" /\ StartFrame /\ admitting' = FALSE /\ Goto(w, "abortjoin")
      /\ \E drop \in BOOLEAN : Aborted(c, drop)
      /\ UNCHANGED <<state, active, writerError, gate, log, disk>>
  BY Zenon DEF CancelAbort, At, Col, process, caches, files, StartFrame
<1>2. QED
  BY <1>1, Goes, TouchedIs DEF Steps

\* Cancel waits for the thread of the bag, and is in ERROR if that hangs.
LEMMA CancelJoinIs ==
  ASSUME TypeOK, NEW w \in Workers, NEW c \in Collections, c = worker[w].col, CancelJoin(w)
  PROVE  /\ worker[w].pc = "abortjoin" /\ StartFrame /\ Touched(c)
         /\ UNCHANGED <<active, admitting, writerError, gate, disk>>
         /\ \/ ~Writing(c) /\ Moves(w, "discard") /\ UNCHANGED <<state, writer>>
            \/ Writing(c) /\ Moves(w, "idle") /\ state' = "error"
<1>1. /\ worker[w].pc = "abortjoin" /\ StartFrame
      /\ UNCHANGED <<active, admitting, writerError, gate, log, disk>>
      /\ \/ ~Writing(c) /\ Goto(w, "discard") /\ UNCHANGED <<state, writer>>
         \/ /\ Writing(c) /\ Done(w) /\ state' = "error"
            /\ writer' = [writer EXCEPT ![c].failed = TRUE]
  BY Zenon DEF CancelJoin, At, Col, process, caches, files, StartFrame, AbortStopped, Joined,
     TimedOut, Writing
<1>2. QED
  BY <1>1, Goes, TouchedIs DEF Steps

\* Cancel removes the directory, or is in ERROR.
LEMMA CancelDiscardIs ==
  ASSUME TypeOK, NEW w \in Workers, NEW c \in Collections, c = worker[w].col, CancelDiscard(w)
  PROVE  /\ worker[w].pc = "discard" /\ StartFrame
         /\ UNCHANGED <<active, admitting, writerError, gate, writer, log>>
         /\ \/ DiscardOk(c) /\ Moves(w, "cancelled") /\ UNCHANGED state
            \/ DiscardFails(c) /\ Moves(w, "idle") /\ state' = "error"
<1>1. /\ worker[w].pc = "discard" /\ StartFrame
      /\ UNCHANGED <<active, admitting, writerError, gate, writer, log>>
      /\ \/ DiscardOk(c) /\ Goto(w, "cancelled") /\ UNCHANGED state
         \/ DiscardFails(c) /\ Done(w) /\ state' = "error"
  BY Zenon DEF CancelDiscard, At, Col, process, caches, bags, StartFrame
<1>2. QED
  BY <1>1, Goes DEF Steps

\* Cancel is over: the service is idle and holds nothing.
LEMMA CancelledIs ==
  ASSUME TypeOK, NEW w \in Workers, Cancelled(w)
  PROVE  /\ worker[w].pc = "cancelled" /\ StartFrame
         /\ active' = None /\ writerError' = "" /\ state' = "idle" /\ Moves(w, "idle")
         /\ UNCHANGED <<admitting, gate, writer, log, disk>>
<1>1. /\ worker[w].pc = "cancelled" /\ StartFrame
      /\ active' = None /\ writerError' = "" /\ state' = "idle" /\ Done(w)
      /\ UNCHANGED <<admitting, gate, writer, log, disk>>
  BY Zenon DEF Cancelled, At, process, caches, bags, files, StartFrame
<1>2. QED
  BY <1>1, Goes

\* Delete moves a saved directory to the trash and tries to remove the one of the task.
LEMMA DeleteIs ==
  ASSUME TypeOK, NEW w \in Workers, NEW c \in Collections, c = worker[w].col,
         MoveToTrash(w) \/ RemoveTaskDir(w)
  PROVE  /\ worker[w].pc \in {"trash", "rmdir"} /\ ServiceFrame /\ UNCHANGED bags
         /\ \/ /\ disk[c].where = "task" /\ Moves(w, "rmdir")
               /\ Edited(c, "trash", disk[c].marker, disk[c].session, disk[c].intact)
            \/ Moves(w, "idle") /\ UNCHANGED disk
<1>1. CASE MoveToTrash(w)
  <2>1. /\ worker[w].pc = "trash" /\ ServiceFrame /\ UNCHANGED bags
        /\ \/ /\ disk[c].where = "task" /\ Goto(w, "rmdir")
              /\ disk' = [disk EXCEPT ![c].where = "trash"]
           \/ Done(w) /\ UNCHANGED disk
    BY <1>1, Zenon DEF MoveToTrash, At, Col, service, process, caches, StartFrame, ServiceFrame
  <2>2. disk' = [disk EXCEPT ![c].where = "trash"]
          => Edited(c, "trash", disk[c].marker, disk[c].session, disk[c].intact)
    BY DEF TypeOK, Directories, Edited, DirsOf
  <2>3. QED
    BY <2>1, <2>2, Goes DEF Steps
<1>2. CASE RemoveTaskDir(w)
  <2>1. /\ worker[w].pc = "rmdir" /\ ServiceFrame /\ UNCHANGED bags
        /\ Done(w) /\ UNCHANGED disk
    BY <1>2, Zenon DEF RemoveTaskDir, At, service, process, caches, StartFrame, ServiceFrame
  <2>2. QED
    BY <2>1, Goes
<1>3. QED
  BY <1>1, <1>2

\* Each step of a thread, with its collection, in one of five kinds.
LEMMA StepKnown ==
  ASSUME JInv, NEW w \in Workers, Step(w)
  PROVE  /\ worker[w].pc # "idle" /\ worker[w].col \in Collections /\ StartFrame
         /\ \E pc \in Steps : Moves(w, pc)
<1>1. IInv /\ TypeOK
  BY DEF JInv, IInv
<1>2. worker[w].pc # "idle"
  BY DEF Step, Stage, OpenBag, Activate, Begin, Admit, Arm, WaitEnds, Ready, Undo, UndoJoin,
     UndoDiscard, Undone, Quiesce, Verify, Session, Manifest, CheckOwned, Rename, Unmark,
     Saved, CancelAbort, CancelJoin, CancelDiscard, Cancelled, MoveToTrash, RemoveTaskDir, At
<1>3. PICK c \in Collections : c = worker[w].col
  BY <1>1, <1>2, Known
<1>4. CASE \/ Stage(w) \/ OpenBag(w) \/ Activate(w) \/ Begin(w) \/ Admit(w) \/ Arm(w)
           \/ WaitEnds(w) \/ Ready(w) \/ Undo(w) \/ UndoJoin(w) \/ UndoDiscard(w) \/ Undone(w)
  BY <1>1, <1>2, <1>3, <1>4, StageIs, OpenBagIs, ActivateIs, BeginIs, AdmitIs, ArmIs,
     WaitEndsIs, ReadyIs, UndoIs, UndoJoinIs, UndoDiscardIs, UndoneIs DEF Steps, ServiceFrame
<1>5. CASE \/ Quiesce(w) \/ Verify(w) \/ Session(w) \/ Manifest(w) \/ CheckOwned(w)
           \/ Rename(w) \/ Unmark(w) \/ Saved(w)
  BY <1>1, <1>2, <1>3, <1>5, QuiesceIs, VerifyIs, SessionIs, ManifestIs, CheckOwnedIs,
     RenameIs, UnmarkIs, SavedIs DEF Steps
<1>6. CASE \/ CancelAbort(w) \/ CancelJoin(w) \/ CancelDiscard(w) \/ Cancelled(w)
           \/ MoveToTrash(w) \/ RemoveTaskDir(w)
  BY <1>1, <1>2, <1>3, <1>6, CancelAbortIs, CancelJoinIs, CancelDiscardIs, CancelledIs,
     DeleteIs DEF Steps, ServiceFrame
<1>7. QED
  BY <1>4, <1>5, <1>6 DEF Step

\* A request touches no directory but its own, and what is saved is not taken back.
LEMMA StepDirs ==
  ASSUME JInv, NEW w \in Workers, Step(w), NEW c \in Collections, c = worker[w].col
  PROVE  DirsOf(c) /\ (Published(c) => Published(c)')
<1>1. IInv /\ TypeOK
  BY DEF JInv, IInv
<1>2. UNCHANGED disk => DirsOf(c) /\ (Published(c) => Published(c)')
  BY DEF DirsOf, Published
<1>3. CASE \/ OpenBag(w) \/ Activate(w) \/ Begin(w) \/ Admit(w) \/ Arm(w) \/ WaitEnds(w)
           \/ Ready(w) \/ Undo(w) \/ UndoJoin(w) \/ Undone(w)
  BY <1>1, <1>2, <1>3, OpenBagIs, ActivateIs, BeginIs, AdmitIs, ArmIs,
     WaitEndsIs, ReadyIs, UndoIs, UndoJoinIs, UndoneIs
<1>4. CASE \/ Quiesce(w) \/ Verify(w) \/ CheckOwned(w) \/ Saved(w)
           \/ CancelAbort(w) \/ CancelJoin(w) \/ Cancelled(w)
  BY <1>1, <1>2, <1>4, QuiesceIs, VerifyIs, CheckOwnedIs, SavedIs, CancelAbortIs, CancelJoinIs,
     CancelledIs
<1>5. CASE Stage(w)
  <2>1. disk[c].where = "none"
    BY <1>1, <1>5 DEF Stage, At, IInv, Unstaged
  <2>2. DirsOf(c)
    BY <1>1, <1>2, <1>5, DiskIs DEF Edited
  <2>3. QED
    BY <2>1, <2>2 DEF Published
<1>6. CASE Session(w) \/ Manifest(w) \/ Rename(w) \/ Unmark(w) \/ MoveToTrash(w)
  BY <1>1, <1>2, <1>6, DiskIs DEF Edited, Published
<1>7. CASE UndoDiscard(w) \/ CancelDiscard(w)
  <2>1. DiscardOk(c) \/ DiscardFails(c)
    BY <1>1, <1>7, UndoDiscardIs, CancelDiscardIs
  <2>2. QED
    BY <1>1, <1>2, <2>1, DiscardIs DEF Owned, Published
<1>8. CASE RemoveTaskDir(w)
  BY <1>2, <1>8 DEF RemoveTaskDir
<1>9. QED
  BY <1>3, <1>4, <1>5, <1>6, <1>7, <1>8 DEF Step

\* A deletion only moves its directory.
LEMMA DeleteLasts ==
  ASSUME TypeOK, NEW w \in Workers, NEW c \in Collections, c = worker[w].col,
         MoveToTrash(w) \/ RemoveTaskDir(w)
  PROVE  \A d \in Collections : Lasts(d)
<1>1. /\ UNCHANGED bags
      /\ \/ UNCHANGED disk
         \/ Edited(c, "trash", disk[c].marker, disk[c].session, disk[c].intact)
  BY DeleteIs
<1>2. ASSUME NEW d \in Collections
      PROVE  Lasts(d)
  <2>1. /\ writer'[d] = writer[d] /\ log'[d] = log[d]
        /\ disk'[d].bag = disk[d].bag /\ disk'[d].session = disk[d].session
        /\ disk'[d].where = disk[d].where \/ disk'[d].where = "trash"
    BY <1>1 DEF bags, Edited, DirsOf
  <2>2. Vouched(d) => Vouched(d)'
    BY <2>1, VouchedLasts
  <2>3. QED
    BY <2>1, <2>2 DEF Lasts, Writing, Published
<1>3. QED
  BY <1>2

\* The other threads are idle or deleting, if this one is not.
LEMMA ReachedRest ==
  ASSUME JInv, NEW w \in Workers, Step(w), NEW v \in Workers, v # w
  PROVE  ReachedBy(v)'
<1>1. /\ IInv /\ TypeOK /\ Alone /\ ReachedBy(v) /\ worker[w].pc # "idle"
      /\ worker'[v].pc = worker[v].pc /\ worker'[v].col = worker[v].col
  BY StepKnown DEF JInv, IInv, Reached, Moves
<1>2. PICK a \in Collections : a = worker[w].col
  BY <1>1, Known
<1>3. CASE worker[v].pc = "idle"
  BY <1>1, <1>3, IdleReached
<1>4. CASE worker[v].pc \in {"trash", "rmdir"}
  <2>1. PICK c \in Collections : c = worker[v].col
    BY <1>1, <1>4, Known
  <2>2. Published(c)'
    BY <1>1, <1>2, <1>4, <2>1, StepDirs DEF ReachedBy, ReachedAt, DirsOf, Published
  <2>3. worker'[v].col = c /\ worker'[v].pc \in {"trash", "rmdir"}
    BY <1>1, <1>4, <2>1
  <2>4. QED
    BY <2>2, <2>3 DEF ReachedBy, ReachedAt, Published
<1>5. CASE worker[v].pc \notin {"idle", "trash", "rmdir"}
  <2>1. worker[v].pc \in Lifecycle /\ worker[w].pc \in Steps
    BY <1>1, <1>5
    DEF TypeOK, Threads, Steps, Lifecycle, Starting, Stopping, Saving, Cancelling
  <2>2. worker[w].pc \notin Lifecycle
    BY <1>1, <2>1 DEF Alone
  <2>3. MoveToTrash(w) \/ RemoveTaskDir(w)
    BY <1>1, <2>2
    DEF Step, Stage, OpenBag, Activate, Begin, Admit, Arm, WaitEnds, Ready, Undo, UndoJoin,
     UndoDiscard, Undone, Quiesce, Verify, Session, Manifest, CheckOwned, Rename, Unmark,
     Saved, CancelAbort, CancelJoin, CancelDiscard, Cancelled, At,
     Lifecycle, Starting, Stopping, Saving, Cancelling
  <2>4. PICK c \in Collections : c = worker[v].col
    BY <1>1, <1>5, Known
  <2>5. Lasts(c) /\ UNCHANGED bags /\ ServiceFrame
    BY <1>1, <1>2, <2>3, DeleteLasts, DeleteIs
  <2>6. QED
    BY <1>1, <2>4, <2>5, StillReached DEF bags, ServiceFrame
<1>6. QED
  BY <1>3, <1>4, <1>5

\* What _verify_writer checks is what is promised of the bag.
LEMMA VerifiedIs ==
  ASSUME IInv, Logs, NEW c \in Collections, Verified(c), writer[c].thread # "none"
  PROVE  Vouched(c)
<1>1. /\ writer[c].thread = "dead" /\ ~writer[c].failed /\ ~writer[c].dropped
      /\ log[c] \in Seq(Messages) /\ Holds(c, "STOP") = 1 /\ LogAt(c)
  BY DEF IInv, Logs, TypeOK, Verified, Joined, Writers, StopQueued
<1>2. disk[c].bag = "complete" /\ Shape(c)
  BY <1>1 DEF LogAt
<1>3. PICK s \in 1 .. Len(log[c]) : log[c][s].kind = "STOP"
  <2>1. DOMAIN log[c] = 1 .. Len(log[c])
    BY <1>1
  <2>2. PICK S : S = {i \in DOMAIN log[c] : log[c][i].kind = "STOP"}
    OBVIOUS
  <2>3. Cardinality(S) = 1
    BY <1>1, <2>2 DEF Holds
  <2>4. S # {}
    BY <2>3, FS_EmptySet
  <2>5. QED
    BY <2>1, <2>2, <2>4
<1>4. /\ Len(log[c]) \in Nat /\ s = Len(log[c]) /\ s # 1
  <2>1. log[c][s].kind # "START"
    BY <1>3
  <2>2. QED
    BY <1>1, <1>2, <1>3, <2>1 DEF Shape
<1>5. log[c] # <<>>
  <2>1. Len(log[c]) # 0
    BY <1>3, <1>4
  <2>2. QED
    BY <2>1
<1>6. WellFormed(c)
  <2>1. DOMAIN log[c] = 1 .. Len(log[c])
    BY <1>1
  <2>2. Len(log[c]) >= 2
    <3>1. PICK n \in Nat : n = Len(log[c])
      BY <1>4
    <3>2. n # 1 /\ n \in 1 .. n
      BY <1>3, <1>4, <3>1
    <3>3. n >= 2
      BY <3>2
    <3>4. QED
      BY <3>1, <3>3, Zenon
  <2>3. \A i \in 1 .. Len(log[c]) : /\ log[c][i].kind = "START" <=> i = 1
                                    /\ log[c][i].kind = "STOP" => i = Len(log[c])
    BY <1>2 DEF Shape
  <2>4. QED
    BY <1>3, <1>4, <2>1, <2>2, <2>3 DEF WellFormed
<1>7. HeadOk(c)
  BY <1>1, <1>5 DEF LogAt
<1>8. QED
  BY <1>1, <1>2, <1>6, <1>7 DEF Vouched

\* The thread that steps.
LEMMA ReachedOwn ==
  ASSUME JInv, NEW w \in Workers, Step(w)
  PROVE  ReachedBy(w)'
<1>1. IInv /\ TypeOK /\ ReachedBy(w) /\ Logs /\ worker[w].pc # "idle"
  BY StepKnown DEF JInv, IInv, Reached
<1>2. PICK c \in Collections : c = worker[w].col
  BY <1>1, Known
<1>3. ReachedAt(worker[w].pc, c)
  BY <1>1, <1>2 DEF ReachedBy
<1>4. Moves(w, "idle") => ReachedBy(w)'
  BY IdleReached DEF Moves
<1>5. ASSUME NEW pc, pc # "idle", Moves(w, pc), ReachedAt(pc, c)'
      PROVE  ReachedBy(w)'
  BY <1>2, <1>5, NowReached DEF Moves
<1>6. Touched(c) => (Vouched(c) /\ UNCHANGED disk => Vouched(c)')
  BY VouchedLasts DEF Touched
<1>7. CASE Stage(w)
  <2>1. Moves(w, "open") => ReachedAt("open", c)'
    BY <1>1, <1>2, <1>3, <1>7, StageIs DEF ReachedAt, ServiceFrame, bags
  <2>2. Moves(w, "undo") => ReachedAt("undo", c)'
    BY DEF ReachedAt
  <2>3. QED
    BY <1>1, <1>2, <1>5, <1>7, <2>1, <2>2, StageIs
<1>8. CASE OpenBag(w)
  <2>1. Moves(w, "activate") /\ Opened(c) => ReachedAt("activate", c)'
    BY <1>1, <1>2, <1>3, <1>8, OpenBagIs DEF ReachedAt, Opened
  <2>2. Moves(w, "undo") => ReachedAt("undo", c)'
    BY DEF ReachedAt
  <2>3. QED
    BY <1>1, <1>2, <1>5, <1>8, <2>1, <2>2, OpenBagIs
<1>9. CASE Activate(w)
  <2>1. KeyframeStart => ReachedAt("arm", c)'
    BY <1>1, <1>2, <1>3, <1>9, ActivateIs DEF ReachedAt
  <2>2. ~KeyframeStart => ReachedAt("begin", c)'
    BY <1>1, <1>2, <1>3, <1>9, ActivateIs DEF ReachedAt
  <2>3. QED
    BY <1>1, <1>2, <1>5, <1>9, <2>1, <2>2, ActivateIs
<1>10. CASE Begin(w)
  <2>1. PICK k \in 0 .. Len(StartMessages) :
          /\ Offered(c, StartMessages, k, FALSE)
          /\ Moves(w, IF k = 0 THEN "undo" ELSE "admit")
    BY <1>1, <1>2, <1>10, BeginIs
  <2>2. writer'[c].thread # "none" /\ ~KeyframeStart
    BY <1>1, <1>2, <1>3, <1>10, <2>1, StartMessagesTyped, OfferIs, BeginIs
    DEF ReachedAt, Flagged
  <2>3. ReachedAt("undo", c)' /\ ReachedAt("admit", c)'
    BY <2>2 DEF ReachedAt
  <2>4. QED
    BY <1>5, <2>1, <2>3
<1>11. CASE Admit(w)
  <2>1. ReachedAt("ready", c)' /\ Moves(w, "ready")
    BY <1>1, <1>2, <1>3, <1>11, AdmitIs DEF ReachedAt
  <2>2. QED
    BY <1>5, <2>1
<1>12. CASE Arm(w)
  <2>1. ReachedAt("wait", c)' /\ Moves(w, "wait")
    BY <1>1, <1>2, <1>3, <1>12, ArmIs DEF ReachedAt
  <2>2. QED
    BY <1>5, <2>1
<1>13. CASE WaitEnds(w)
  <2>1. ReachedAt("ready", c)' /\ ReachedAt("undo", c)'
    BY <1>1, <1>2, <1>3, <1>13, WaitEndsIs DEF ReachedAt
  <2>2. QED
    BY <1>1, <1>5, <1>13, <2>1, WaitEndsIs
<1>14. CASE Ready(w) \/ Undone(w) \/ Saved(w) \/ Cancelled(w)
  BY <1>1, <1>4, <1>14, ReadyIs, UndoneIs, SavedIs, CancelledIs
<1>15. CASE Undo(w)
  <2>1. writer[c].thread = "none" /\ UNCHANGED writer => ReachedAt("undiscard", c)'
    BY DEF ReachedAt, Writing
  <2>2. writer[c].thread # "none" /\ Touched(c) => ReachedAt("unjoin", c)'
    BY DEF ReachedAt, Touched
  <2>3. QED
    BY <1>1, <1>2, <1>5, <1>15, <2>1, <2>2, UndoIs
<1>16. CASE UndoJoin(w) \/ CancelJoin(w)
  <2>1. ~Writing(c) /\ UNCHANGED writer => ReachedAt("undiscard", c)' /\ ReachedAt("discard", c)'
    BY DEF ReachedAt, Writing
  <2>2. QED
    BY <1>1, <1>2, <1>4, <1>5, <1>16, <2>1, UndoJoinIs, CancelJoinIs
<1>17. CASE UndoDiscard(w)
  <2>1. ReachedAt("undone", c)' /\ Moves(w, "undone")
    BY <1>1, <1>2, <1>3, <1>17, UndoDiscardIs DEF ReachedAt, Writing, bags
  <2>2. QED
    BY <1>5, <2>1
<1>18. CASE Quiesce(w)
  <2>1. writer'[c].thread = writer[c].thread
    BY <1>1, <1>2, <1>18, QuiesceIs, OfferIs DEF Flagged
  <2>2. ReachedAt("join", c)' /\ Moves(w, "join")
    BY <1>1, <1>2, <1>3, <1>18, <2>1, QuiesceIs DEF ReachedAt
  <2>3. QED
    BY <1>5, <2>2
<1>19. CASE Verify(w)
  <2>1. Verified(c) => Vouched(c)
    BY <1>1, <1>2, <1>3, <1>19, VerifiedIs, VerifyIs DEF ReachedAt
  <2>2. Vouched(c)' => ReachedAt("session", c)'
    BY DEF ReachedAt
  <2>3. QED
    BY <1>1, <1>2, <1>4, <1>5, <1>6, <1>19, <2>1, <2>2, VerifyIs
<1>20. CASE Session(w) \/ Manifest(w)
  <2>1. \A session \in {"pending", "saved"} :
          /\ UNCHANGED <<writer, log>>
          /\ Edited(c, "staging", disk[c].marker, session, disk[c].intact)
          => Vouched(c)' /\ disk'[c].session = session
    BY <1>1, <1>2, <1>3, <1>20, VouchedLasts, SessionIs, ManifestIs DEF Edited, ReachedAt
  <2>2. Vouched(c)' => ReachedAt("manifest", c)'
    BY DEF ReachedAt
  <2>3. Vouched(c)' /\ disk'[c].session = "saved" => ReachedAt("check", c)'
    BY DEF ReachedAt
  <2>4. QED
    BY <1>1, <1>2, <1>4, <1>5, <1>20, <2>1, <2>2, <2>3, SessionIs, ManifestIs
<1>21. CASE CheckOwned(w)
  <2>1. Vouched(c) /\ disk[c].session = "saved" /\ UNCHANGED <<writer, log, disk>>
    BY <1>1, <1>2, <1>3, <1>21, CheckOwnedIs DEF ReachedAt
  <2>2. Vouched(c)'
    BY <2>1, VouchedLasts
  <2>3. ReachedAt("rename", c)'
    BY <2>1, <2>2 DEF ReachedAt
  <2>4. QED
    BY <1>1, <1>2, <1>4, <1>5, <1>21, <2>3, CheckOwnedIs
<1>22. CASE Rename(w) \/ Unmark(w) \/ CancelAbort(w)
  <2>1. ReachedAt("unmark", c)' /\ ReachedAt("saved", c)' /\ ReachedAt("abortjoin", c)'
    BY DEF ReachedAt
  <2>2. QED
    BY <1>1, <1>2, <1>4, <1>5, <1>22, <2>1, RenameIs, UnmarkIs, CancelAbortIs
<1>23. CASE CancelDiscard(w)
  <2>1. ReachedAt("cancelled", c)'
    BY <1>1, <1>2, <1>3, <1>23, CancelDiscardIs DEF ReachedAt, Writing
  <2>2. QED
    BY <1>1, <1>2, <1>4, <1>5, <1>23, <2>1, CancelDiscardIs
<1>24. CASE MoveToTrash(w) \/ RemoveTaskDir(w)
  <2>1. Edited(c, "trash", disk[c].marker, disk[c].session, disk[c].intact)
          => ReachedAt("rmdir", c)'
    BY DEF Edited, ReachedAt, Published
  <2>2. QED
    BY <1>1, <1>2, <1>4, <1>5, <1>24, <2>1, DeleteIs
<1>25. QED
  BY <1>7, <1>8, <1>9, <1>10, <1>11, <1>12, <1>13, <1>14, <1>15, <1>16, <1>17, <1>18, <1>19,
     <1>20, <1>21, <1>22, <1>23, <1>24 DEF Step

\* What a request leaves alone.
RequestFrame ==
  UNCHANGED <<active, admitting, writerError, gate, tfCached, input, exit, exits, writer, log,
              disk>>

\* A request that is accepted.
LEMMA RequestIs ==
  ASSUME TypeOK, NEW w \in Workers, Request(w)
  PROVE  /\ worker[w].pc = "idle" /\ Open /\ RequestFrame
         /\ \A v \in Workers \ {w} : worker'[v] = worker[v]
         /\ \/ /\ state = "idle" /\ state' = "starting" /\ worker'[w].pc = "stage"
               /\ worker'[w].col = issued + 1 /\ issued' = issued + 1 /\ issued < MaxCollections
            \/ /\ state = "recording" /\ state' = "stopping" /\ worker'[w].pc = "quiesce"
               /\ active # None /\ worker'[w].col = active /\ issued' = issued
            \/ /\ state = "pending" /\ state' = "saving" /\ worker'[w].pc = "manifest"
               /\ active # None /\ worker'[w].col = active /\ issued' = issued
            \/ /\ state \in {"recording", "pending", "error"} /\ state' = "cancelling"
               /\ worker'[w].pc = "abort"
               /\ active # None /\ worker'[w].col = active /\ issued' = issued
            \/ /\ UNCHANGED state /\ worker'[w].pc = "trash" /\ issued' = issued
               /\ \E c \in Collections : worker'[w].col = c /\ disk[c].where = "task"
<1>1. /\ worker[w].pc = "idle" /\ Open /\ RequestFrame
      /\ \/ /\ state = "idle" /\ state' = "starting"
            /\ issued' = issued + 1 /\ issued < MaxCollections
            /\ worker' = [worker EXCEPT ![w] =
                            [pc |-> "stage", col |-> issued + 1, save |-> FALSE]]
         \/ /\ state = "recording" /\ state' = "stopping" /\ active # None /\ issued' = issued
            /\ \E save \in BOOLEAN : worker' =
                 [worker EXCEPT ![w] = [pc |-> "quiesce", col |-> active, save |-> save]]
         \/ /\ state = "pending" /\ state' = "saving" /\ active # None /\ issued' = issued
            /\ worker' = [worker EXCEPT ![w] =
                            [pc |-> "manifest", col |-> active, save |-> TRUE]]
         \/ /\ state \in {"recording", "pending", "error"} /\ state' = "cancelling"
            /\ active # None /\ issued' = issued
            /\ worker' = [worker EXCEPT ![w] =
                            [pc |-> "abort", col |-> active, save |-> FALSE]]
         \/ /\ UNCHANGED state /\ issued' = issued
            /\ \E c \in Collections :
                 /\ disk[c].where = "task"
                 /\ worker' = [worker EXCEPT ![w] = [pc |-> "trash", col |-> c, save |-> FALSE]]
  <2>1. CASE Start(w)
    BY <2>1, Zenon DEF Start, Startable, At, RequestFrame, caches, bags, files
  <2>2. CASE Save(w)
    BY <2>2, TargetIs, Zenon DEF Save, At, RequestFrame, caches, process, bags, files
  <2>3. CASE Cancel(w)
    BY <2>3, TargetIs, Zenon DEF Cancel, Cancellable, At, RequestFrame, caches, process, bags, files
  <2>4. ASSUME NEW save \in BOOLEAN, Stop(w, save)
        PROVE  /\ worker[w].pc = "idle" /\ Open /\ RequestFrame
               /\ state = "recording" /\ state' = "stopping" /\ active # None
               /\ issued' = issued
               /\ worker' = [worker EXCEPT ![w] =
                               [pc |-> "quiesce", col |-> active, save |-> save]]
    BY <2>4, TargetIs, Zenon DEF Stop, Stoppable, At, RequestFrame, caches, process, bags, files
  <2>5. ASSUME NEW c \in Collections, Delete(w, c)
        PROVE  /\ worker[w].pc = "idle" /\ Open /\ RequestFrame
               /\ UNCHANGED state /\ issued' = issued /\ disk[c].where = "task"
               /\ worker' = [worker EXCEPT ![w] = [pc |-> "trash", col |-> c, save |-> FALSE]]
    BY <2>5, Zenon DEF Delete, At, RequestFrame, service, caches, process, bags, files
  <2>6. QED
    BY <2>1, <2>2, <2>3, <2>4, <2>5, Zenon DEF Request
<1>2. worker \in [Workers -> Threads]
  BY DEF TypeOK
<1>3. QED
  BY <1>1, <1>2

\* A step that changes no bag and no directory.
LEMMA ReachedStays ==
  ASSUME NEW v \in Workers, NEW c \in Collections, c = worker[v].col, ReachedBy(v),
         worker'[v] = worker[v], RequestFrame
  PROVE  ReachedBy(v)'
<1>1. writer'[c] = writer[c] /\ log'[c] = log[c] /\ disk'[c] = disk[c] /\ active' = active
  BY DEF RequestFrame
<1>2. Lasts(c)
  BY <1>1, VouchedLasts DEF Lasts, Writing, Published
<1>3. QED
  BY <1>1, <1>2, StillReached

\* A request that is accepted has reached what its first step needs.
LEMMA ReachedRequest ==
  ASSUME JInv, NEW w \in Workers, Request(w)
  PROVE  Reached'
<1>1. IInv /\ TypeOK /\ Reached /\ Logs /\ StateInv /\ AdmitInv /\ RequestFrame
  BY RequestIs DEF JInv, IInv, OpenInv
<1>2. ASSUME NEW v \in Workers, v # w
      PROVE  ReachedBy(v)'
  <2>1. worker'[v] = worker[v] /\ ReachedBy(v)
    BY <1>1, <1>2, RequestIs DEF Reached
  <2>2. CASE worker[v].pc = "idle"
    BY <2>1, <2>2, IdleReached
  <2>3. CASE worker[v].pc # "idle"
    <3>1. PICK c \in Collections : c = worker[v].col
      BY <1>1, <2>3, Known
    <3>2. QED
      BY <1>1, <2>1, <3>1, ReachedStays
  <2>4. QED
    BY <2>2, <2>3
<1>3. ASSUME worker'[w].pc = "stage"
      PROVE  ReachedBy(w)'
  <2>1. worker'[w].col = issued + 1 /\ issued < MaxCollections /\ state = "idle"
    BY <1>1, <1>3, RequestIs
  <2>2. PICK c \in Collections : c = issued + 1 /\ c > issued
    <3>1. issued \in Nat /\ MaxCollections \in Nat
      BY <1>1, Known, ControllerAssumption
    <3>2. QED
      BY <2>1, <3>1 DEF Collections
  <2>3. /\ writer'[c] = NoWriter /\ log'[c] = <<>> /\ active' # c
    BY <1>1, <2>2 DEF Logs, LogAt, RequestFrame, IInv, Unissued
  <2>4. ReachedAt("stage", c)'
    BY <2>3 DEF ReachedAt
  <2>5. worker'[w].col = c
    BY <2>1, <2>2
  <2>6. QED
    BY <1>3, <2>4, <2>5, NowReached
<1>4. ASSUME worker'[w].pc \in {"quiesce", "manifest", "abort"}
      PROVE  ReachedBy(w)'
  <2>1. /\ worker'[w].col = active /\ active # None
        /\ worker'[w].pc = "quiesce" => state = "recording"
        /\ worker'[w].pc = "manifest" => state = "pending"
    BY <1>1, <1>4, RequestIs
  <2>2. PICK c \in Collections : c = active
    BY <1>1, <2>1, Known
  <2>3. worker'[w].pc = "quiesce" => writer'[c].thread = "run" /\ log'[c] # <<>>
    BY <1>1, <2>1, <2>2 DEF StateInv, AdmitInv, Sane, Writing, RequestFrame
  <2>4. worker'[w].pc = "manifest" => Vouched(c)'
    BY <1>1, <2>1, <2>2, VouchedLasts DEF StateInv, RequestFrame
  <2>5. PICK pc : pc = worker'[w].pc
    OBVIOUS
  <2>6. ReachedAt(pc, c)'
    BY <1>4, <2>3, <2>4, <2>5 DEF ReachedAt
  <2>7. worker'[w].col = c /\ worker'[w].pc = pc
    BY <2>1, <2>2, <2>5
  <2>8. QED
    BY <2>6, <2>7, NowReached
<1>5. ASSUME worker'[w].pc = "trash"
      PROVE  ReachedBy(w)'
  <2>1. PICK c \in Collections : worker'[w].col = c /\ disk[c].where = "task"
    BY <1>1, <1>5, RequestIs
  <2>2. ReachedAt("trash", c)'
    BY <1>1, <2>1 DEF ReachedAt, RequestFrame, Published
  <2>3. QED
    BY <1>5, <2>1, <2>2, NowReached
<1>6. QED
  BY <1>1, <1>2, <1>3, <1>4, <1>5, RequestIs DEF Reached

\* Every step keeps what the threads have reached.
LEMMA ReachedNext ==
  ASSUME JInv, Next
  PROVE  Reached'
<1>1. CASE Restart
  <2>1. \A w \in Workers : worker'[w].pc = "idle"
    BY <1>1 DEF Restart, Idle
  <2>2. QED
    BY <2>1, IdleReached DEF Reached
<1>2. ASSUME NEW w \in Workers, Step(w)
      PROVE  Reached'
  BY <1>2, ReachedRest, ReachedOwn DEF Reached
<1>3. QED
  BY <1>1, <1>2, ReachedRequest, ReachedInput, ReachedExit DEF Next

-----------------------------------------------------------------------------
(* Every step keeps what is known of the exit *)

\* Shutdown comes after the input thread, which does nothing from then on.
LEMMA InputRestsNext ==
  ASSUME JInv, Next
  PROVE  InputRests'
<1>1. InputRests
  BY DEF JInv
<1>2. ASSUME NEW w \in Workers, Request(w) \/ Step(w)
      PROVE  InputRests'
  <2>1. UNCHANGED <<input, exit>>
    BY <1>2, StepKnown, RequestIs DEF JInv, IInv, StartFrame, RequestFrame
  <2>2. QED
    BY <1>1, <2>1 DEF InputRests, Open
<1>3. CASE Input
  BY <1>3, InputIs DEF InputRests, Open
<1>4. CASE Sync \/ \E c \in Collections : WriterFails(c) \/ WriterEnds(c)
  <2>1. UNCHANGED <<input, exit>>
    BY <1>4 DEF Sync, WriterFails, WriterEnds, process
  <2>2. QED
    BY <1>1, <2>1 DEF InputRests, Open
<1>5. CASE Exit
  <2>1. UNCHANGED input /\ (~Open \/ input.pc = "idle")
    BY <1>5 DEF Exit, Shutdown, Settle, ExitAbort, ExitJoin, ExitClear, CleanBegins, CleanEnds,
       Unlock, ExitDone, Open
  <2>2. QED
    BY <1>1, <2>1 DEF InputRests
<1>6. CASE Restart
  BY <1>6 DEF Restart, InputRests, Quiet
<1>7. QED
  BY <1>2, <1>3, <1>4, <1>5, <1>6 DEF Next

\* What a request saves is whole, if none runs during an exit.
LEMMA StepIntact ==
  ASSUME JInv, OrderlyExit, NEW w \in Workers, Step(w)
  PROVE  Open /\ \A d \in Collections : Published(d)' => disk'[d].intact
<1>1. IInv /\ TypeOK /\ ExitInv /\ worker[w].pc # "idle"
  BY StepKnown DEF JInv, IInv
<1>2. Open /\ ThreadInv(w)
  BY <1>1 DEF ExitInv, JInv, OpenInv
<1>3. PICK c \in Collections : c = worker[w].col
  BY <1>1, Known
<1>4. DirsOf(c) /\ (Published(c) => disk[c].intact)
  BY <1>1, <1>3, StepDirs DEF ExitInv
<1>5. Published(c)' => disk'[c].intact
  <2>1. CASE UNCHANGED disk
    BY <1>4, <2>1 DEF Published
  <2>2. CASE Rename(w)
    <3>1. disk[c].intact
      BY <1>2, <1>3, <2>2 DEF Rename, At, ThreadInv, ThreadAt, HoldsAt
    <3>2. QED
      BY <1>1, <1>3, <2>1, <2>2, <3>1, RenameIs DEF Edited
  <2>3. CASE UndoDiscard(w) \/ CancelDiscard(w)
    <3>1. DiscardOk(c) \/ DiscardFails(c)
      BY <1>1, <1>3, <2>3, UndoDiscardIs, CancelDiscardIs
    <3>2. QED
      BY <1>1, <2>1, <3>1, DiscardIs DEF Published
  <2>4. CASE Stage(w) \/ Session(w) \/ Manifest(w) \/ Unmark(w) \/ MoveToTrash(w)
    BY <1>1, <1>3, <1>4, <2>1, <2>4, DiskIs DEF Edited, Published
  <2>5. CASE \/ OpenBag(w) \/ Activate(w) \/ Begin(w) \/ Admit(w) \/ Arm(w) \/ WaitEnds(w)
             \/ Ready(w) \/ Undo(w) \/ UndoJoin(w) \/ Undone(w)
    BY <1>1, <1>3, <2>1, <2>5, OpenBagIs, ActivateIs, BeginIs, AdmitIs, ArmIs,
       WaitEndsIs, ReadyIs, UndoIs, UndoJoinIs, UndoneIs
  <2>6. CASE \/ Quiesce(w) \/ Verify(w) \/ CheckOwned(w) \/ Saved(w)
             \/ CancelAbort(w) \/ CancelJoin(w) \/ Cancelled(w)
    BY <1>1, <1>3, <2>1, <2>6, QuiesceIs, VerifyIs, CheckOwnedIs, SavedIs, CancelAbortIs,
       CancelJoinIs, CancelledIs
  <2>7. CASE RemoveTaskDir(w)
    BY <2>1, <2>7 DEF RemoveTaskDir
  <2>8. QED
    BY <2>2, <2>3, <2>4, <2>5, <2>6, <2>7 DEF Step
<1>6. ASSUME NEW d \in Collections, d # c
      PROVE  Published(d)' => disk'[d].intact
  BY <1>1, <1>4, <1>6 DEF ExitInv, DirsOf, Published
<1>7. QED
  BY <1>2, <1>5, <1>6

\* Bags that may be open in an exit.
ExitBag(c) ==
  ~Open /\ Writing(c) =>
    /\ c = active /\ exit.pc \in {"settle", "abort", "join", "raised"}
    /\ disk[c].where = "staging" /\ disk[c].intact

\* ExitInv, bag by bag.
LEMMA ExitBags ==
  ASSUME OrderlyExit
  PROVE  ExitInv <=> /\ ~Open => \A w \in Workers : worker[w].pc = "idle"
                     /\ \A c \in Collections : Published(c) => disk[c].intact
                     /\ \A c \in Collections : ExitBag(c)
                     /\ exit.pc = "join" => exit.col = active
BY DEF ExitInv, ExitBag

\* Shutdown, the timer and the writer threads keep what an orderly exit promises.
LEMMA ExitInvExit ==
  ASSUME JInv, OrderlyExit, Exit \/ Sync \/ \E c \in Collections : WriterFails(c) \/ WriterEnds(c)
  PROVE  ExitInv'
<1>1. /\ IInv /\ TypeOK /\ ExitInv /\ UNCHANGED worker
      /\ \A d \in Collections : Wanes(d)
  BY ExitIs DEF JInv, IInv
<1>2. \A d \in Collections : Published(d)' => disk'[d].intact
  BY <1>1 DEF Wanes, Stays, Published, ExitInv
<1>3. ASSUME UNCHANGED <<active, exit>>, \A d \in Collections : Writing(d)' => Stays(d)
      PROVE  ExitInv'
  BY <1>1, <1>2, <1>3 DEF ExitInv, Wanes, Stays, Writing, Open
<1>4. CASE Sync \/ \E c \in Collections : WriterFails(c)
  <2>1. UNCHANGED <<active, exit, disk>>
    BY <1>4 DEF Sync, WriterFails, process, files
  <2>2. QED
    BY <1>3, <2>1 DEF Stays
<1>5. ASSUME NEW c \in Collections, WriterEnds(c)
      PROVE  ExitInv'
  <2>1. UNCHANGED <<active, exit>>
    BY <1>5 DEF WriterEnds, service, process
  <2>2. QED
    BY <1>1, <1>3, <1>5, <2>1, EndIs DEF Stays
<1>6. CASE Shutdown
  <2>1. /\ Open /\ UNCHANGED <<active, writer, disk>> /\ exit'.pc \in {"settle", "abort"}
        /\ \A w \in Workers : worker[w].pc = "idle"
    BY <1>1, <1>6 DEF Shutdown, InFlight, At, bags, files, TypeOK, Exits
  <2>2. BagInv
    BY <2>1 DEF JInv, OpenInv
  <2>3. \A d \in Collections :
          Writing(d) => d = active /\ disk[d].where = "staging" /\ disk[d].intact
    BY <2>1, <2>2 DEF BagInv, BagAt, In
  <2>4. QED
    BY <1>1, <1>2, <2>1, <2>3 DEF ExitInv, Writing
<1>7. ASSUME ~Open, \A w \in Workers : worker[w].pc = "idle", \A d \in Collections : ExitBag(d)',
             exit'.pc = "join" => exit'.col = active'
      PROVE  ExitInv'
  BY <1>1, <1>2, <1>7, ExitBags DEF ExitInv, ExitBag, Writing, Published
<1>8. /\ \A d \in Collections : ExitBag(d)
      /\ ~Open => \A w \in Workers : worker[w].pc = "idle"
      /\ exit.pc = "join" => exit.col = active
  BY <1>1, ExitBags
<1>9. CASE Settle
  <2>1. /\ ~Open /\ exit.pc = "settle" /\ exit'.pc = "abort"
        /\ UNCHANGED <<active, writer, disk>>
    BY <1>1, <1>9 DEF Settle, Open, service, bags, files, TypeOK, Exits
  <2>2. QED
    BY <1>7, <1>8, <2>1 DEF ExitBag, Writing
<1>10. CASE ExitAbort
  <2>1. /\ ~Open /\ exit.pc = "abort" /\ UNCHANGED <<active, disk>>
        /\ \/ active = None /\ exit'.pc = "clear" /\ UNCHANGED writer
           \/ active # None /\ exit'.pc = "join" /\ exit'.col = active
    BY <1>1, <1>10 DEF ExitAbort, Open, service, files, TypeOK, Exits
  <2>2. \A d \in Collections : d # None
    BY DEF Collections, None
  <2>3. \A d \in Collections : Writing(d)' => Writing(d)
    BY <1>1 DEF Wanes, Writing
  <2>4. QED
    BY <1>7, <1>8, <2>1, <2>2, <2>3 DEF ExitBag
<1>11. CASE ExitJoin
  <2>1. /\ ~Open /\ exit.pc = "join" /\ UNCHANGED <<active, disk>>
        /\ \/ ~Writing(exit.col) /\ exit'.pc = "clear"
           \/ exit'.pc = "raised"
    BY <1>1, <1>11 DEF ExitJoin, Joined, Open, files, TypeOK, Exits, Writing
  <2>2. \A d \in Collections : Writing(d)' => Writing(d)
    BY <1>1 DEF Wanes, Writing
  <2>3. \A d \in Collections : Writing(d) => d = active /\ Writing(exit.col)
    BY <1>8, <2>1 DEF ExitBag, Writing
  <2>4. \A d \in Collections : ExitBag(d)'
    BY <1>8, <2>1, <2>2, <2>3 DEF ExitBag
  <2>5. ~Open /\ exit'.pc # "join" /\ \A w \in Workers : worker[w].pc = "idle"
    BY <1>8, <2>1
  <2>6. QED
    BY <1>7, <2>4, <2>5
<1>12. CASE \/ ExitClear \/ CleanEnds \/ Unlock \/ ExitDone
            \/ \E c \in Collections : CleanBegins(c)
  <2>1. /\ exit.pc \in {"clear", "clean", "rmtree", "unlocked"}
        /\ exit'.pc \in {"clean", "rmtree", "unlocked", "down"}
    <3>1. exit \in Exits
      BY <1>1 DEF TypeOK
    <3>2. \/ exit.pc = "clear" /\ exit' = [exit EXCEPT !.pc = "clean"]
          \/ exit.pc = "rmtree" /\ exit' = [pc |-> "clean", col |-> None]
          \/ exit.pc = "rmtree" /\ exit' = [pc |-> "down", col |-> None]
          \/ exit.pc = "clean" /\ exit' = [exit EXCEPT !.pc = "unlocked"]
          \/ exit.pc = "unlocked" /\ exit' = [exit EXCEPT !.pc = "down"]
          \/ exit.pc = "clean" /\ \E c \in Collections : exit' = [pc |-> "rmtree", col |-> c]
      BY <1>12, Zenon DEF ExitClear, CleanEnds, Unlock, ExitDone, CleanBegins
    <3>3. QED
      BY <3>1, <3>2 DEF Exits
  <2>2. \A d \in Collections : Writing(d)' => Writing(d)
    BY <1>1 DEF Wanes, Writing
  <2>3. QED
    BY <1>7, <1>8, <2>1, <2>2 DEF ExitBag, Open
<1>13. QED
  BY <1>4, <1>5, <1>6, <1>9, <1>10, <1>11, <1>12 DEF Exit

\* Every step keeps what an orderly exit promises.
LEMMA ExitInvNext ==
  ASSUME JInv, Next
  PROVE  ExitInv'
<1>1. SUFFICES ASSUME OrderlyExit
               PROVE  ExitInv'
  BY DEF ExitInv
<1>2. IInv /\ TypeOK /\ ExitInv
  BY DEF JInv, IInv
<1>3. ASSUME Open', \A d \in Collections : Published(d)' => disk'[d].intact
      PROVE  ExitInv'
  BY <1>3 DEF ExitInv, Open
<1>4. ASSUME NEW w \in Workers, Step(w)
      PROVE  ExitInv'
  <2>1. UNCHANGED exit
    BY <1>4, StepKnown DEF StartFrame
  <2>2. QED
    BY <1>1, <1>3, <1>4, <2>1, StepIntact DEF Open
<1>5. ASSUME NEW w \in Workers, Request(w)
      PROVE  ExitInv'
  <2>1. Open /\ UNCHANGED <<exit, disk>>
    BY <1>2, <1>5, RequestIs DEF RequestFrame
  <2>2. QED
    BY <1>1, <1>2, <1>3, <2>1 DEF ExitInv, Open, Published
<1>6. CASE Input
  BY <1>1, <1>2, <1>3, <1>6, InputIs DEF ExitInv, Open, Published
<1>7. CASE Restart
  <2>1. Open' /\ disk' = Recovered
    BY <1>7 DEF Restart, Running, Open
  <2>2. \A d \in Collections : Published(d)' => disk'[d].intact
    <3>1. disk \in [Collections -> Directories]
      BY <1>2 DEF TypeOK
    <3>2. ASSUME NEW d \in Collections, Published(d)'
          PROVE  disk'[d].intact
      <4>1. disk'[d] = IF Owned(d)
                       THEN [disk[d] EXCEPT !.where = "removed", !.marker = FALSE]
                       ELSE disk[d]
        BY <2>1 DEF Recovered
      <4>2. CASE Owned(d)
        <5>1. disk'[d] = [disk[d] EXCEPT !.where = "removed", !.marker = FALSE]
          BY <4>1, <4>2
        <5>2. disk'[d].where = "removed"
          BY <3>1, <5>1 DEF Directories
        <5>3. QED
          BY <3>2, <5>2 DEF Published
      <4>3. CASE ~Owned(d)
        BY <1>1, <1>2, <3>2, <4>1, <4>3 DEF ExitInv, Published
      <4>4. QED
        BY <4>2, <4>3
    <3>3. QED
      BY <3>2
  <2>3. QED
    BY <1>3, <2>1, <2>2
<1>8. QED
  BY <1>1, <1>4, <1>5, <1>6, <1>7, ExitInvExit DEF Next

-----------------------------------------------------------------------------
(* Every step keeps what is known while the service is open *)

\* The request of the lifecycle that runs is at step pc for c, or none runs.
Runs(pc, c) ==
  /\ \A w \in Workers : In(w, Lifecycle) => worker[w].pc = pc /\ worker[w].col = c
  /\ \/ pc = "idle"
     \/ pc \in Lifecycle /\ \E w \in Workers : worker[w].pc = pc /\ worker[w].col = c

\* What OpenInv says then of the state, of the admission and of the bag of d.
StateAt(pc) ==
  /\ state = "idle" => active = None
  /\ state \notin {"idle", "starting"} => active # None
  /\ state \in {"starting", "stopping", "saving", "cancelling"} => pc # "idle"
  /\ state = "recording" => admitting
  /\ state = "pending" => Vouched(active) /\ disk[active].intact

AdmitAt(pc) ==
  /\ admitting => /\ active # None /\ log[active] # <<>> /\ Sane(active)
                  /\ \/ state = "recording" \/ pc \in {"ready", "quiesce", "abort"}
                     \/ pc = "wait" /\ gate.is = "done"
  /\ gate.is # "none" => pc = "wait"

OpenAt(pc, c, d) ==
  /\ Writing(d) => /\ disk[d].where = "staging" /\ disk[d].intact
                   /\ d = active \/ (pc = "activate" /\ d = c)
  /\ disk[d].where = "staging" /\ disk[d].intact => d = active \/ (pc # "idle" /\ d = c)

LifeAt(pc, c) ==
  /\ ThreadAt(pc, c) /\ StateAt(pc) /\ AdmitAt(pc) /\ TfInv
  /\ \A d \in Collections : OpenAt(pc, c, d)

\* A thread outside the lifecycle is idle or deletes.
LEMMA Outside ==
  ASSUME NEW pc \in Steps, pc \notin Lifecycle
  PROVE  pc \in {"idle", "trash", "rmdir"}
BY DEF Steps, Lifecycle, Starting, Stopping, Saving, Cancelling

\* OpenInv says LifeAt of the one request that runs, or of none ...
LEMMA LifeNow ==
  ASSUME JInv, Open
  PROVE  \E pc \in Steps : \E c \in Handles :
           /\ Runs(pc, c) /\ LifeAt(pc, c) /\ Phase(pc, state)
           /\ pc # "idle" => c \in Collections /\ c <= issued /\ ReachedAt(pc, c)
<1>1. /\ IInv /\ TypeOK /\ Alone /\ Busy /\ Reached /\ StateInv /\ AdmitInv /\ BagInv /\ TfInv
      /\ \A w \in Workers : ThreadInv(w)
  BY DEF JInv, IInv, OpenInv
<1>2. PICK pc \in Steps, c \in Handles :
        /\ Runs(pc, c)
        /\ pc # "idle" => \E w \in Workers : worker[w].pc = pc /\ worker[w].col = c
  <2>1. CASE \E w \in Workers : In(w, Lifecycle)
    <3>1. PICK w \in Workers : In(w, Lifecycle)
      BY <2>1
    <3>2. worker[w].col \in Handles /\ worker[w].pc \in Steps
      BY <1>1 DEF TypeOK, Threads
    <3>3. Runs(worker[w].pc, worker[w].col)
      BY <1>1, <3>1 DEF Runs, In, Alone
    <3>4. QED
      BY <3>2, <3>3
  <2>2. CASE ~\E w \in Workers : In(w, Lifecycle)
    <3>1. Runs("idle", None) /\ None \in Handles /\ "idle" \in Steps
      BY <2>2 DEF Runs, Handles, Steps
    <3>2. QED
      BY <3>1
  <2>3. QED
    BY <2>1, <2>2
<1>3. pc = "idle" \/ pc \in Lifecycle
  BY <1>2 DEF Runs
<1>4. pc # "idle" => /\ c \in Collections /\ c <= issued /\ ReachedAt(pc, c) /\ ThreadAt(pc, c)
                     /\ Phase(pc, state)
  BY <1>1, <1>2, Known DEF Reached, ReachedBy, ThreadInv, Busy
<1>5. pc = "idle" => ThreadAt(pc, c) /\ Phase(pc, state)
  BY DEF ThreadAt, RoleAt, AdmitsAt, HoldsAt, Stopping, Saving, Cancelling, Starting, Phase
<1>6. /\ "wait" \in Lifecycle /\ {"ready", "quiesce", "abort"} \subseteq Lifecycle
      /\ "activate" \in Lifecycle
      /\ "idle" \notin Lifecycle
  BY DEF Lifecycle, Starting, Stopping, Saving, Cancelling
<1>7. StateAt(pc)
  <2>1. (\E w \in Workers : In(w, Lifecycle)) => pc # "idle"
    BY <1>2, <1>6 DEF Runs, In
  <2>2. QED
    BY <1>1, <2>1 DEF StateInv, StateAt
<1>8. AdmitAt(pc)
  BY <1>1, <1>2, <1>6 DEF AdmitInv, AdmitAt, Runs, In
<1>9. ASSUME NEW d \in Collections
      PROVE  OpenAt(pc, c, d)
  <2>1. BagAt(d)
    BY <1>1 DEF BagInv
  <2>2. Writing(d) => d = active \/ (pc = "activate" /\ d = c)
    BY <1>2, <1>6, <2>1 DEF BagAt, Runs, In
  <2>3. ASSUME NEW w \in Workers, worker[w].col = d, worker[w].pc # "idle",
               disk[d].where = "staging"
        PROVE  d = c /\ pc # "idle"
    <3>1. worker[w].pc \notin {"trash", "rmdir"}
      BY <1>1, <2>3 DEF Reached, ReachedBy, ReachedAt, Published
    <3>2. In(w, Lifecycle)
      BY <1>1, <2>3, <3>1, Outside DEF In, TypeOK, Threads
    <3>3. QED
      BY <1>2, <1>6, <2>3, <3>2 DEF Runs, In
  <2>4. QED
    BY <2>1, <2>2, <2>3 DEF OpenAt, BagAt
<1>10. QED
  BY <1>1, <1>2, <1>4, <1>5, <1>7, <1>8, <1>9 DEF LifeAt

\* ... and LifeAt of it says OpenInv: a step is looked at for one request only.
LEMMA LifeThen ==
  ASSUME TypeOK', NEW pc, NEW c, Runs(pc, c)', LifeAt(pc, c)'
  PROVE  OpenInv'
<1>1. \/ pc = "idle"
      \/ pc \in Lifecycle /\ \E w \in Workers : worker'[w].pc = pc /\ worker'[w].col = c
  BY DEF Runs
<1>2. ASSUME NEW w \in Workers
      PROVE  ThreadInv(w)'
  <2>1. CASE In(w, Lifecycle)'
    <3>1. worker'[w].pc = pc /\ worker'[w].col = c /\ ThreadAt(pc, c)'
      BY <2>1 DEF Runs, LifeAt, In
    <3>2. QED
      BY <3>1 DEF ThreadInv, ThreadAt, RoleAt, AdmitsAt, HoldsAt, Sane, Writing
  <2>2. CASE ~In(w, Lifecycle)'
    <3>1. worker'[w].pc \in {"idle", "trash", "rmdir"}
      BY <2>2, Outside DEF In, TypeOK, Threads
    <3>2. QED
      BY <3>1 DEF ThreadInv, ThreadAt, RoleAt, AdmitsAt, HoldsAt, Stopping, Saving, Cancelling
  <2>3. QED
    BY <2>1, <2>2
<1>3. StateInv'
  BY <1>1 DEF LifeAt, StateAt, StateInv, In
<1>4. AdmitInv'
  BY <1>1 DEF LifeAt, AdmitAt, AdmitInv, In
<1>5. ASSUME NEW d \in Collections
      PROVE  BagAt(d)'
  <2>1. OpenAt(pc, c, d)'
    BY DEF LifeAt
  <2>2. QED
    BY <1>1, <2>1 DEF OpenAt, BagAt, Writing, In
<1>6. TfInv'
  BY DEF LifeAt
<1>7. QED
  BY <1>2, <1>3, <1>4, <1>5, <1>6 DEF OpenInv, BagInv

\* What is known where a request stands.
Stands(pc, c) ==
  /\ c \in Collections /\ c # None
  /\ ReachedAt(pc, c) /\ LogAt(c) /\ DirAt(c) /\ ThreadAt(pc, c)
  /\ \A d \in Collections : OpenAt(pc, c, d)
  /\ TfInv /\ Phase(pc, state)
  /\ admitting => /\ pc \in {"ready", "quiesce", "abort"} \/ (pc = "wait" /\ gate.is = "done")
                  /\ active # None /\ log[active] # <<>> /\ Sane(active)
  /\ gate.is # "none" => pc = "wait"

\* A thread inside the lifecycle is that one request.
LEMMA LifeFacts ==
  ASSUME JInv, Open, NEW w \in Workers, worker[w].pc \in Lifecycle,
         NEW pc, pc = worker[w].pc, NEW c, c = worker[w].col
  PROVE  Stands(pc, c)
<1>1. PICK p \in Steps, d \in Handles :
        /\ Runs(p, d) /\ LifeAt(p, d) /\ Phase(p, state)
        /\ p # "idle" => d \in Collections /\ d <= issued /\ ReachedAt(p, d)
  BY LifeNow
<1>2. p = pc /\ d = c
  BY <1>1 DEF Runs, In
<1>3. pc # "idle" /\ (Phase(pc, state) => state # "recording")
  BY DEF Phase, Lifecycle, Starting, Stopping, Saving, Cancelling
<1>4. /\ c \in Collections /\ ReachedAt(pc, c) /\ LifeAt(pc, c) /\ Phase(pc, state)
      /\ Logs /\ Dirs
  BY <1>1, <1>2, <1>3 DEF JInv
<1>5. c # None
  BY <1>4 DEF Collections, None
<1>6. LogAt(c) /\ DirAt(c) /\ OpenAt(pc, c, c) /\ ThreadAt(pc, c) /\ TfInv /\ AdmitAt(pc)
      /\ \A e \in Collections : OpenAt(pc, c, e)
  BY <1>4 DEF LifeAt, Logs, Dirs
<1>7. QED
  BY <1>3, <1>4, <1>5, <1>6 DEF AdmitAt, Stands

\* What has to be shown of a step of a request.
Grows(pc, c) ==
  /\ ThreadAt(pc, c)' /\ StateAt(pc)' /\ AdmitAt(pc)' /\ OpenAt(pc, c, c)' /\ TfInv'
  /\ active' = active \/ active \in {None, c}
  /\ \A d \in Collections \ {c} : writer'[d] = writer[d]

\* A step that takes its request from one place to the next keeps OpenInv.
LEMMA LifeGoes ==
  ASSUME JInv, Open, NEW w \in Workers, Step(w), worker[w].pc \in Lifecycle,
         NEW c, c = worker[w].col,
         NEW pc \in Lifecycle \cup {"idle"}, Moves(w, pc), Grows(pc, c)
  PROVE  OpenInv'
<1>1. /\ c \in Collections /\ c # None
      /\ \A d \in Collections : OpenAt(worker[w].pc, c, d)
      /\ DirsOf(c)
  BY LifeFacts, StepDirs DEF Stands
<1>2. /\ IInv /\ Alone /\ TypeOK'
  BY NextGood DEF JInv, IInv, Good, Next
<1>3. Runs(pc, c)'
  <2>1. "idle" \notin Lifecycle
    BY DEF Lifecycle, Starting, Stopping, Saving, Cancelling
  <2>2. ASSUME NEW v \in Workers, v # w
        PROVE  worker'[v].pc \notin Lifecycle
    BY <1>2, <2>2 DEF Alone, Moves
  <2>3. worker'[w].pc = pc /\ (pc # "idle" => worker'[w].col = c)
    BY DEF Moves
  <2>4. QED
    BY <2>1, <2>2, <2>3 DEF Runs, In
<1>4. ASSUME NEW d \in Collections
      PROVE  OpenAt(pc, c, d)'
  <2>1. CASE d = c
    BY <2>1 DEF Grows, OpenAt, Writing
  <2>2. CASE d # c
    <3>1. OpenAt(worker[w].pc, c, d) /\ writer'[d] = writer[d] /\ disk'[d] = disk[d] /\ d # None
      BY <1>1, <2>2 DEF Grows, DirsOf, Collections, None
    <3>2. QED
      BY <2>2, <3>1 DEF Grows, OpenAt, Writing
  <2>3. QED
    BY <2>1, <2>2
<1>5. LifeAt(pc, c)'
  BY <1>4 DEF LifeAt, Grows
<1>6. QED
  BY <1>2, <1>3, <1>5, LifeThen
\* A removal that succeeds or fails leaves no whole directory in the staging area.
LEMMA DiscardEnds ==
  ASSUME TypeOK, Open, NEW c \in Collections, DirAt(c), DiscardOk(c) \/ DiscardFails(c)
  PROVE  /\ ~(disk'[c].where = "staging" /\ disk'[c].intact)
         /\ DiscardOk(c) => disk'[c].where # "staging"
<1>1. disk \in [Collections -> Directories] /\ Locked
  BY DEF TypeOK, Locked, Open
<1>2. disk' = Removed(c) => disk'[c].where = "removed"
  BY <1>1 DEF Removed, Directories
<1>3. CASE DiscardOk(c)
  BY <1>1, <1>2, <1>3 DEF DiscardOk
<1>4. CASE DiscardFails(c)
  <2>1. CASE disk[c].where = "staging" /\ ~disk[c].marker /\ UNCHANGED disk
    BY <2>1 DEF DirAt, Owned, DiscardOk
  <2>2. ASSUME NEW marker \in BOOLEAN, Owned(c),
               disk' = [disk EXCEPT ![c].intact = FALSE, ![c].marker = marker]
        PROVE  ~disk'[c].intact
    BY <1>1, <2>2 DEF Directories
  <2>3. ~(disk'[c].where = "staging" /\ disk'[c].intact)
    BY <1>1, <1>4, <2>1, <2>2 DEF DiscardFails
  <2>4. QED
    BY <1>3, <2>3
<1>5. QED
  BY <1>3, <1>4

\* Every step of start does.
LEMMA StartOpen ==
  ASSUME JInv, Open, NEW w \in Workers, Step(w), worker[w].pc \in Starting
  PROVE  OpenInv'
<1>1. IInv /\ TypeOK /\ worker[w].pc \in Lifecycle
  BY DEF JInv, IInv, Lifecycle
<1>2. PICK c \in Collections : c = worker[w].col
  BY <1>1, StepKnown
<1>3. PICK pc : pc = worker[w].pc
  OBVIOUS
<1>4. Stands(pc, c) /\ c # None
  BY <1>1, <1>2, <1>3, LifeFacts DEF Stands
<1>5. state = "starting"
  BY <1>3, <1>4 DEF Stands, Phase
<1>6. ASSUME NEW p \in Starting \cup {"idle"}, Moves(w, p), Grows(p, c)
      PROVE  OpenInv'
  BY <1>1, <1>2, <1>6, LifeGoes DEF Lifecycle
<1>7. CASE Stage(w)
  <2>1. disk[c].where = "none" /\ pc = "stage"
    BY <1>1, <1>2, <1>3, <1>7, StageIs DEF IInv, Unstaged
  <2>2. /\ writer[c] = NoWriter /\ ~admitting /\ gate.is = "none" /\ active = None /\ disk[c].intact
    BY <1>4, <2>1 DEF Stands, ReachedAt, ThreadAt, RoleAt, DirAt
  <2>3. UNCHANGED <<state, active, admitting, gate, writer, log>>
    BY <1>1, <1>2, <1>7, StageIs DEF ServiceFrame, bags
  <2>4. writer'[c].thread = "none"
    BY <2>2, <2>3 DEF NoWriter
  <2>5. Edited(c, "staging", TRUE, disk[c].session, disk[c].intact) => Grows("open", c)
    BY <1>4, <1>5, <2>2, <2>3, <2>4
    DEF Grows, ThreadAt, RoleAt, AdmitsAt, HoldsAt, StateAt, AdmitAt,
       OpenAt, TfInv, Edited, Stopping, Saving, Cancelling, Writing
  <2>6. Grows("undo", c)
    BY <1>4, <1>5, <2>2, <2>3, <2>4
    DEF Grows, ThreadAt, RoleAt, AdmitsAt, HoldsAt, StateAt, AdmitAt,
       OpenAt, TfInv, Stopping, Saving, Cancelling, Writing
  <2>7. QED
    BY <1>1, <1>2, <1>6, <1>7, <2>5, <2>6, StageIs DEF Starting
<1>8. CASE OpenBag(w)
  <2>1. /\ pc = "open" /\ writerError' = ""
        /\ UNCHANGED <<state, active, admitting, gate, log, disk>>
        /\ \/ Moves(w, "activate") /\ Opened(c)
           \/ Moves(w, "undo") /\ UNCHANGED writer
    BY <1>1, <1>2, <1>3, <1>8, OpenBagIs
  <2>2. /\ writer[c] = NoWriter /\ ~admitting /\ gate.is = "none" /\ active = None
        /\ disk[c].where = "staging" /\ disk[c].intact
    BY <1>4, <2>1 DEF Stands, ReachedAt, ThreadAt, RoleAt, HoldsAt
  <2>3. writer[c].thread = "none" /\ ~writer[c].closing /\ ~writer[c].failed
    BY <2>2 DEF NoWriter
  <2>4. Opened(c) => Grows("activate", c)
    BY <1>4, <1>5, <2>1, <2>2, <2>3
    DEF Grows, ThreadAt, RoleAt, AdmitsAt, HoldsAt, StateAt, AdmitAt,
       OpenAt, TfInv, Stopping, Saving, Cancelling, Writing, Opened, Sane
  <2>5. UNCHANGED writer => Grows("undo", c)
    BY <1>4, <1>5, <2>1, <2>2, <2>3
    DEF Grows, ThreadAt, RoleAt, AdmitsAt, HoldsAt, StateAt, AdmitAt,
       OpenAt, TfInv, Stopping, Saving, Cancelling, Writing
  <2>6. QED
    BY <1>6, <2>1, <2>4, <2>5 DEF Starting
<1>9. CASE Activate(w)
  <2>1. /\ pc = "activate" /\ active' = c
        /\ UNCHANGED <<state, admitting, writerError, gate, writer, log, disk>>
        /\ Moves(w, "arm") \/ Moves(w, "begin")
    BY <1>1, <1>2, <1>3, <1>9, ActivateIs
  <2>2. /\ ~admitting /\ gate.is = "none" /\ active = None /\ Sane(c)
        /\ disk[c].where = "staging" /\ disk[c].intact
    BY <1>4, <2>1 DEF Stands, ThreadAt, RoleAt, HoldsAt, OpenAt, Sane
  <2>3. Grows("arm", c)
    BY <1>4, <1>5, <2>1, <2>2
    DEF Grows, ThreadAt, RoleAt, AdmitsAt, HoldsAt, StateAt, AdmitAt,
       OpenAt, TfInv, Stopping, Saving, Cancelling, Writing, Sane
  <2>4. Grows("begin", c)
    BY <1>4, <1>5, <2>1, <2>2
    DEF Grows, ThreadAt, RoleAt, AdmitsAt, HoldsAt, StateAt, AdmitAt,
       OpenAt, TfInv, Stopping, Saving, Cancelling, Writing, Sane
  <2>5. QED
    BY <1>6, <2>1, <2>3, <2>4 DEF Starting
<1>10. CASE Begin(w)
  <2>1. /\ pc = "begin" /\ UNCHANGED <<state, active, admitting, gate, disk>>
        /\ \E k \in 0 .. Len(StartMessages) :
             /\ Offered(c, StartMessages, k, FALSE)
             /\ Moves(w, IF k = 0 THEN "undo" ELSE "admit")
    BY <1>1, <1>2, <1>3, <1>10, BeginIs
  <2>2. PICK k \in 0 .. Len(StartMessages) :
          /\ Offered(c, StartMessages, k, FALSE)
          /\ Moves(w, IF k = 0 THEN "undo" ELSE "admit")
    BY <2>1
  <2>3. /\ ~admitting /\ gate.is = "none" /\ active = c /\ Sane(c)
        /\ disk[c].where = "staging" /\ disk[c].intact
    BY <1>4, <2>1 DEF Stands, ThreadAt, RoleAt, HoldsAt, OpenAt, Sane
  <2>4. /\ \A d \in Collections \ {c} : writer'[d] = writer[d]
        /\ Grown(c, StartMessages, k, FALSE) /\ Flagged(c, StartMessages, k, FALSE)
    BY <1>1, <2>2, StartMessagesTyped, OfferIs DEF BagsOf
  <2>5. Sane(c)'
    BY <2>3, <2>4 DEF Sane, Writing, Flagged
  <2>6. k # 0 => log'[c] # <<>>
    <3>1. k # 0 => Len(log'[c]) # 0
      BY <2>4 DEF Grown
    <3>2. log'[c] = <<>> => Len(log'[c]) = 0
      OBVIOUS
    <3>3. QED
      BY <3>1, <3>2
  <2>7. Grows("undo", c)
    BY <1>4, <1>5, <2>1, <2>3, <2>4, <2>5 DEF Grows, ThreadAt, RoleAt, AdmitsAt, HoldsAt, StateAt,
       AdmitAt, OpenAt, TfInv, Stopping, Saving, Cancelling, Writing, Sane
  <2>8. k # 0 => Grows("admit", c)
    BY <1>4, <1>5, <2>1, <2>3, <2>4, <2>5, <2>6 DEF Grows, ThreadAt, RoleAt, AdmitsAt, HoldsAt,
       StateAt, AdmitAt, OpenAt, TfInv, Stopping, Saving, Cancelling, Writing, Sane
  <2>9. QED
    BY <1>6, <2>2, <2>7, <2>8 DEF Starting
<1>11. CASE Admit(w)
  <2>1. /\ pc = "admit" /\ admitting' = TRUE /\ Moves(w, "ready")
        /\ UNCHANGED <<state, active, writerError, gate, writer, log, disk>>
    BY <1>1, <1>2, <1>3, <1>11, AdmitIs
  <2>2. /\ gate.is = "none" /\ active = c /\ Sane(c) /\ log[c] # <<>> /\ ~KeyframeStart
        /\ disk[c].where = "staging" /\ disk[c].intact
    BY <1>4, <2>1 DEF Stands, ThreadAt, RoleAt, HoldsAt, ReachedAt, OpenAt, Sane
  <2>3. Grows("ready", c)
    BY <1>4, <1>5, <2>1, <2>2
    DEF Grows, ThreadAt, RoleAt, AdmitsAt, HoldsAt, StateAt, AdmitAt,
       OpenAt, TfInv, Stopping, Saving, Cancelling, Writing, Sane
  <2>4. QED
    BY <1>6, <2>1, <2>3 DEF Starting
<1>12. CASE Arm(w)
  <2>1. /\ pc = "arm" /\ gate' = [col |-> c, is |-> "armed"] /\ Moves(w, "wait")
        /\ UNCHANGED <<state, active, admitting, writerError, writer, log, disk>>
    BY <1>1, <1>2, <1>3, <1>12, ArmIs
  <2>2. /\ ~admitting /\ active = c /\ Sane(c) /\ log[c] = <<>>
        /\ disk[c].where = "staging" /\ disk[c].intact
    BY <1>4, <2>1 DEF Stands, ThreadAt, RoleAt, HoldsAt, ReachedAt, OpenAt, Sane
  <2>3. Grows("wait", c)
    BY <1>4, <1>5, <2>1, <2>2
    DEF Grows, ThreadAt, RoleAt, AdmitsAt, HoldsAt, StateAt, AdmitAt,
       OpenAt, TfInv, Stopping, Saving, Cancelling, Writing, Sane
  <2>4. QED
    BY <1>6, <2>1, <2>3 DEF Starting
<1>13. CASE WaitEnds(w)
  <2>1. /\ pc = "wait" /\ gate' = NoGate
        /\ Moves(w, IF gate.is = "done" THEN "ready" ELSE "undo")
        /\ UNCHANGED <<state, active, admitting, writerError, writer, log, disk>>
        /\ UNCHANGED <<tfCached, input>>
    BY <1>1, <1>2, <1>3, <1>13, WaitEndsIs DEF StartFrame
  <2>2. /\ active = c /\ Sane(c) /\ disk[c].where = "staging" /\ disk[c].intact
        /\ admitting <=> gate.is = "done"
        /\ admitting => log[c] # <<>>
    BY <1>4, <2>1 DEF Stands, ThreadAt, RoleAt, AdmitsAt, HoldsAt, OpenAt, Sane
  <2>3. gate'.is = "none"
    BY <2>1 DEF NoGate
  <2>4. TfInv'
    BY <1>4, <2>1 DEF Stands, TfInv
  <2>5. gate.is = "done" => Grows("ready", c)
    BY <1>4, <1>5, <2>1, <2>2, <2>3, <2>4 DEF Grows, ThreadAt, RoleAt, AdmitsAt, HoldsAt, StateAt,
       AdmitAt, OpenAt, Stopping, Saving, Cancelling, Writing, Sane
  <2>6. gate.is # "done" => Grows("undo", c)
    BY <1>4, <1>5, <2>1, <2>2, <2>3, <2>4 DEF Grows, ThreadAt, RoleAt, AdmitsAt, HoldsAt, StateAt,
       AdmitAt, OpenAt, Stopping, Saving, Cancelling, Writing, Sane
  <2>7. QED
    BY <1>6, <2>1, <2>5, <2>6 DEF Starting
<1>14. CASE Ready(w)
  <2>1. /\ pc = "ready" /\ state' = "recording" /\ Moves(w, "idle")
        /\ UNCHANGED <<active, admitting, writerError, gate, writer, log, disk>>
        /\ UNCHANGED <<tfCached, input>>
    BY <1>1, <1>2, <1>3, <1>14, ReadyIs DEF StartFrame
  <2>2. /\ active = c /\ Sane(c) /\ disk[c].where = "staging" /\ disk[c].intact
        /\ admitting /\ log[c] # <<>> /\ gate.is = "none"
    BY <1>4, <2>1 DEF Stands, ThreadAt, RoleAt, AdmitsAt, HoldsAt, OpenAt, Sane
  <2>3. TfInv'
    BY <1>4, <2>1 DEF Stands, TfInv
  <2>4. Grows("idle", c)
    BY <1>4, <1>5, <2>1, <2>2, <2>3 DEF Grows, ThreadAt, RoleAt, AdmitsAt, HoldsAt, StateAt,
       AdmitAt, OpenAt, Stopping, Saving, Cancelling, Writing, Sane
  <2>5. QED
    BY <1>6, <2>1, <2>4
<1>15. CASE Undo(w)
  <2>1. /\ pc = "undo" /\ admitting' = FALSE /\ UNCHANGED <<state, active, gate, disk>>
        /\ \/ writer[c].thread = "none" /\ Moves(w, "undiscard") /\ UNCHANGED writer
           \/ writer[c].thread # "none" /\ Moves(w, "unjoin") /\ Touched(c)
    BY <1>1, <1>2, <1>3, <1>15, UndoIs
  <2>2. /\ active \in {None, c} /\ gate.is = "none"
        /\ writer[c].thread # "none" => active = c
        /\ Writing(c) => disk[c].where = "staging" /\ disk[c].intact
    BY <1>4, <2>1 DEF Stands, ThreadAt, RoleAt, OpenAt
  <2>3. writer[c].thread = "none" /\ UNCHANGED writer => Grows("undiscard", c)
    BY <1>4, <1>5, <2>1, <2>2 DEF Grows, ThreadAt, RoleAt, AdmitsAt, HoldsAt, StateAt,
       AdmitAt, OpenAt, TfInv, Stopping, Saving, Cancelling, Writing
  <2>4. writer[c].thread # "none" /\ Touched(c) => Grows("unjoin", c)
    BY <1>4, <1>5, <2>1, <2>2 DEF Grows, ThreadAt, RoleAt, AdmitsAt, HoldsAt, StateAt,
       AdmitAt, OpenAt, TfInv, Stopping, Saving, Cancelling, Writing, Touched
  <2>5. QED
    BY <1>6, <2>1, <2>3, <2>4 DEF Starting
<1>16. CASE UndoJoin(w)
  <2>1. /\ pc = "unjoin" /\ Touched(c) /\ UNCHANGED <<active, admitting, gate, disk>>
        /\ \/ ~Writing(c) /\ Moves(w, "undiscard") /\ UNCHANGED <<state, writer>>
           \/ Writing(c) /\ Moves(w, "idle") /\ state' = "error"
    BY <1>1, <1>2, <1>3, <1>16, UndoJoinIs
  <2>2. /\ active = c /\ gate.is = "none" /\ ~admitting
        /\ Writing(c) => disk[c].where = "staging" /\ disk[c].intact
    BY <1>4, <2>1 DEF Stands, ThreadAt, RoleAt, OpenAt
  <2>3. ~Writing(c) /\ UNCHANGED <<state, writer>> => Grows("undiscard", c)
    BY <1>4, <1>5, <2>1, <2>2 DEF Grows, ThreadAt, RoleAt, AdmitsAt, HoldsAt, StateAt,
       AdmitAt, OpenAt, TfInv, Stopping, Saving, Cancelling, Writing
  <2>4. state' = "error" => Grows("idle", c)
    BY <1>4, <1>5, <2>1, <2>2 DEF Grows, ThreadAt, RoleAt, AdmitsAt, HoldsAt, StateAt,
       AdmitAt, OpenAt, TfInv, Stopping, Saving, Cancelling, Writing, Touched
  <2>5. QED
    BY <1>6, <2>1, <2>3, <2>4 DEF Starting
<1>17. CASE UndoDiscard(w)
  <2>1. /\ pc = "undiscard" /\ UNCHANGED <<state, active, admitting, gate, writer, log>>
        /\ Moves(w, "undone") /\ (DiscardOk(c) \/ DiscardFails(c))
    BY <1>1, <1>2, <1>3, <1>17, UndoDiscardIs DEF ServiceFrame, bags
  <2>2. active \in {None, c} /\ gate.is = "none" /\ ~admitting /\ ~Writing(c) /\ DirAt(c)
    BY <1>4, <2>1 DEF Stands, ThreadAt, RoleAt, ReachedAt
  <2>3. ~(disk'[c].where = "staging" /\ disk'[c].intact)
    BY <1>1, <2>1, <2>2, DiscardEnds
  <2>4. Grows("undone", c)
    BY <1>4, <1>5, <2>1, <2>2, <2>3 DEF Grows, ThreadAt, RoleAt, AdmitsAt, HoldsAt, StateAt,
       AdmitAt, OpenAt, TfInv, Stopping, Saving, Cancelling, Writing
  <2>5. QED
    BY <1>6, <2>1, <2>4 DEF Starting
<1>18. CASE Undone(w)
  <2>1. /\ pc = "undone" /\ admitting' = FALSE /\ active' = None /\ state' = "idle"
        /\ UNCHANGED <<gate, writer, disk>> /\ Moves(w, "idle")
    BY <1>1, <1>2, <1>3, <1>18, UndoneIs
  <2>2. /\ gate.is = "none" /\ active \in {None, c} /\ ~Writing(c)
        /\ ~(disk[c].where = "staging" /\ disk[c].intact)
    BY <1>4, <2>1 DEF Stands, ThreadAt, RoleAt, HoldsAt, ReachedAt
  <2>3. Grows("idle", c)
    BY <1>4, <1>5, <2>1, <2>2 DEF Grows, ThreadAt, RoleAt, AdmitsAt, HoldsAt, StateAt,
       AdmitAt, OpenAt, TfInv, Stopping, Saving, Cancelling, Writing
  <2>4. QED
    BY <1>6, <2>1, <2>3
<1>19. QED
  <2>1. /\ "quiesce" \notin Starting /\ "join" \notin Starting /\ "session" \notin Starting
        /\ Starting \cap (Saving \cup Cancelling \cup {"trash", "rmdir"}) = {}
    BY DEF Starting, Saving, Cancelling
  <2>2. QED
    BY <1>7, <1>8, <1>9, <1>10, <1>11, <1>12, <1>13, <1>14, <1>15, <1>16, <1>17, <1>18, <2>1
    DEF Step, Quiesce, Verify, Session, Manifest, CheckOwned, Rename, Unmark, Saved, CancelAbort,
        CancelJoin, CancelDiscard, Cancelled, MoveToTrash, RemoveTaskDir, At, Saving, Cancelling

\* Every step of stop and of save does.
LEMMA SaveOpen ==
  ASSUME JInv, Open, NEW w \in Workers, Step(w), worker[w].pc \in Stopping \cup Saving
  PROVE  OpenInv'
<1>1. IInv /\ TypeOK /\ worker[w].pc \in Lifecycle /\ Moved /\ Logs /\ Dirs
  BY DEF JInv, IInv, Lifecycle
<1>2. PICK c \in Collections : c = worker[w].col
  BY <1>1, StepKnown
<1>3. PICK pc : pc = worker[w].pc
  OBVIOUS
<1>4. Stands(pc, c) /\ c # None
  BY <1>1, <1>2, <1>3, LifeFacts DEF Stands
<1>5. state \in {"stopping", "saving"} /\ active = c
  BY <1>3, <1>4 DEF Stands, Phase, ThreadAt, RoleAt
<1>6. ASSUME NEW p \in Stopping \cup Saving \cup {"idle"}, Moves(w, p), Grows(p, c)
      PROVE  OpenInv'
  BY <1>1, <1>2, <1>6, LifeGoes DEF Lifecycle
<1>7. CASE Quiesce(w)
  <2>1. /\ pc = "quiesce" /\ admitting' = FALSE /\ Moves(w, "join")
        /\ UNCHANGED <<state, active, gate, disk>>
        /\ \E ms \in Seq(Messages) : \E k \in 0 .. Len(ms) : Offered(c, ms, k, TRUE)
    BY <1>1, <1>2, <1>3, <1>7, QuiesceIs
  <2>2. gate.is = "none" /\ disk[c].where = "staging" /\ disk[c].intact
    BY <1>4, <2>1 DEF Stands, ThreadAt, HoldsAt, OpenAt, Sane
  <2>3. \A d \in Collections \ {c} : writer'[d] = writer[d]
    BY <1>1, <2>1, OfferIs DEF BagsOf
  <2>4. Grows("join", c)
    BY <1>4, <1>5, <2>1, <2>2, <2>3 DEF Grows, ThreadAt, RoleAt, AdmitsAt, HoldsAt, StateAt,
       AdmitAt, OpenAt, TfInv, Stopping, Saving, Cancelling, Writing
  <2>5. QED
    BY <1>6, <2>1, <2>4 DEF Stopping
<1>8. CASE Verify(w)
  <2>1. /\ pc = "join" /\ Touched(c) /\ UNCHANGED <<active, admitting, gate, disk>>
        /\ \/ Moves(w, "session") /\ UNCHANGED state
           \/ Moves(w, "idle") /\ state' = "error"
    BY <1>1, <1>2, <1>3, <1>8, VerifyIs
  <2>2. /\ gate.is = "none" /\ ~admitting /\ disk[c].intact
        /\ Writing(c) => disk[c].where = "staging"
    BY <1>4, <2>1 DEF Stands, ThreadAt, HoldsAt, OpenAt
  <2>3. UNCHANGED state => Grows("session", c)
    BY <1>4, <1>5, <2>1, <2>2 DEF Grows, ThreadAt, RoleAt, AdmitsAt, HoldsAt, StateAt,
       AdmitAt, OpenAt, TfInv, Stopping, Saving, Cancelling, Writing, Touched
  <2>4. state' = "error" => Grows("idle", c)
    BY <1>4, <1>5, <2>1, <2>2 DEF Grows, ThreadAt, RoleAt, AdmitsAt, HoldsAt, StateAt,
       AdmitAt, OpenAt, TfInv, Stopping, Saving, Cancelling, Writing, Touched
  <2>5. QED
    BY <1>6, <2>1, <2>3, <2>4 DEF Stopping
<1>9. CASE Session(w)
  <2>1. /\ pc = "session" /\ UNCHANGED <<active, admitting, gate, writer, log>>
        /\ \/ /\ Edited(c, "staging", disk[c].marker, "pending", disk[c].intact)
              /\ \/ state' = "saving" /\ Moves(w, "manifest")
                 \/ state' = "pending" /\ Moves(w, "idle")
           \/ state' = "error" /\ Moves(w, "idle") /\ UNCHANGED disk
    BY <1>1, <1>2, <1>3, <1>9, SessionIs
  <2>2. gate.is = "none" /\ ~admitting /\ disk[c].intact /\ Vouched(c) /\ ~Writing(c)
    BY <1>4, <2>1 DEF Stands, ThreadAt, HoldsAt, ReachedAt, Vouched, Writing
  <2>3. /\ disk'[c].intact /\ ~Writing(c)' /\ active' = c
        /\ \A d \in Collections \ {c} : writer'[d] = writer[d]
    BY <1>5, <2>1, <2>2 DEF Edited, Writing
  <2>4. disk'[c].bag = disk[c].bag
    BY <2>1 DEF Edited
  <2>5. Vouched(c)'
    BY <2>1, <2>2, <2>4, VouchedLasts
  <2>6. state' = "saving" => Grows("manifest", c)
    BY <1>4, <2>1, <2>2, <2>3 DEF Grows, ThreadAt, RoleAt, AdmitsAt, HoldsAt, StateAt,
       AdmitAt, OpenAt, TfInv, Stopping, Saving, Cancelling
  <2>7. state' \in {"pending", "error"} => Grows("idle", c)
    <3>1. Vouched(active)' /\ disk'[active'].intact
      BY <2>3, <2>5 DEF Vouched, WellFormed, HeadOk
    <3>2. QED
      BY <1>4, <1>5, <2>1, <2>2, <2>3, <3>1 DEF Grows, ThreadAt, RoleAt, AdmitsAt, HoldsAt, StateAt,
         AdmitAt, OpenAt, TfInv, Stopping, Saving, Cancelling
  <2>8. QED
    BY <1>6, <2>1, <2>6, <2>7 DEF Saving
<1>10. CASE Manifest(w) \/ CheckOwned(w)
  <2>1. /\ pc \in {"manifest", "check"} /\ UNCHANGED <<active, admitting, gate, writer, log>>
        /\ \/ Edited(c, "staging", disk[c].marker, "saved", disk[c].intact) \/ UNCHANGED disk
        /\ \/ UNCHANGED state /\ (Moves(w, "check") \/ Moves(w, "rename"))
           \/ state' = "error" /\ Moves(w, "idle")
    BY <1>1, <1>2, <1>3, <1>10, ManifestIs, CheckOwnedIs
  <2>2. gate.is = "none" /\ ~admitting /\ disk[c].intact /\ ~Writing(c)
    BY <1>4, <2>1 DEF Stands, ThreadAt, HoldsAt, ReachedAt, Vouched, Writing
  <2>3. /\ disk'[c].intact /\ ~Writing(c)' /\ active' = c
        /\ \A d \in Collections \ {c} : writer'[d] = writer[d]
    BY <1>5, <2>1, <2>2 DEF Edited, Writing
  <2>4. UNCHANGED state => Grows("check", c)
    BY <1>4, <1>5, <2>1, <2>2, <2>3 DEF Grows, ThreadAt, RoleAt, AdmitsAt, HoldsAt, StateAt,
       AdmitAt, OpenAt, TfInv, Stopping, Saving, Cancelling
  <2>5. UNCHANGED state => Grows("rename", c)
    BY <1>4, <1>5, <2>1, <2>2, <2>3 DEF Grows, ThreadAt, RoleAt, AdmitsAt, HoldsAt, StateAt,
       AdmitAt, OpenAt, TfInv, Stopping, Saving, Cancelling
  <2>6. state' = "error" => Grows("idle", c)
    BY <1>4, <1>5, <2>1, <2>2, <2>3 DEF Grows, ThreadAt, RoleAt, AdmitsAt, HoldsAt, StateAt,
       AdmitAt, OpenAt, TfInv, Stopping, Saving, Cancelling
  <2>7. QED
    BY <1>6, <2>1, <2>4, <2>5, <2>6 DEF Saving
<1>11. CASE Rename(w) \/ Unmark(w)
  <2>1. /\ pc \in {"rename", "unmark"} /\ UNCHANGED <<active, admitting, gate, writer, log>>
        /\ \/ UNCHANGED state /\ (Moves(w, "unmark") \/ Moves(w, "saved"))
           \/ state' = "error" /\ Moves(w, "idle")
    BY <1>1, <1>2, <1>3, <1>11, RenameIs, UnmarkIs
  <2>2. gate.is = "none" /\ ~admitting /\ ~Writing(c)
    <3>1. pc = "unmark" => Published(c)
      BY <1>1, <1>2, <1>3 DEF Moved, Published
    <3>2. QED
      BY <1>4, <2>1, <3>1 DEF Stands, ReachedAt, DirAt, Vouched, Writing
  <2>3. /\ ~Writing(c)' /\ active' = c /\ \A d \in Collections \ {c} : writer'[d] = writer[d]
    BY <1>5, <2>1, <2>2 DEF Writing
  <2>4. UNCHANGED state => Grows("unmark", c)
    BY <1>4, <1>5, <2>1, <2>2, <2>3 DEF Grows, ThreadAt, RoleAt, AdmitsAt, HoldsAt, StateAt,
       AdmitAt, OpenAt, TfInv, Stopping, Saving, Cancelling
  <2>5. UNCHANGED state => Grows("saved", c)
    BY <1>4, <1>5, <2>1, <2>2, <2>3 DEF Grows, ThreadAt, RoleAt, AdmitsAt, HoldsAt, StateAt,
       AdmitAt, OpenAt, TfInv, Stopping, Saving, Cancelling
  <2>6. state' = "error" => Grows("idle", c)
    BY <1>4, <1>5, <2>1, <2>2, <2>3 DEF Grows, ThreadAt, RoleAt, AdmitsAt, HoldsAt, StateAt,
       AdmitAt, OpenAt, TfInv, Stopping, Saving, Cancelling
  <2>7. QED
    BY <1>6, <2>1, <2>4, <2>5, <2>6 DEF Saving
<1>12. CASE Saved(w)
  <2>1. /\ pc = "saved" /\ active' = None /\ state' = "idle" /\ Moves(w, "idle")
        /\ UNCHANGED <<admitting, gate, writer, log, disk>>
    BY <1>1, <1>2, <1>3, <1>12, SavedIs
  <2>2. gate.is = "none" /\ ~admitting /\ Published(c) /\ ~Writing(c)
    BY <1>1, <1>2, <1>3, <1>4, <2>1 DEF Stands, Moved, DirAt, Published
  <2>3. Grows("idle", c)
    BY <1>4, <1>5, <2>1, <2>2 DEF Grows, ThreadAt, RoleAt, AdmitsAt, HoldsAt, StateAt,
       AdmitAt, OpenAt, TfInv, Stopping, Saving, Cancelling, Writing, Published
  <2>4. QED
    BY <1>6, <2>1, <2>3
<1>13. QED
  <2>1. (Stopping \cup Saving) \cap (Starting \cup Cancelling \cup {"trash", "rmdir"}) = {}
    BY DEF Starting, Stopping, Saving, Cancelling
  <2>2. QED
    BY <1>7, <1>8, <1>9, <1>10, <1>11, <1>12, <2>1
    DEF Step, Stage, OpenBag, Activate, Begin, Admit, Arm, WaitEnds, Ready, Undo, UndoJoin,
        UndoDiscard, Undone, CancelAbort, CancelJoin, CancelDiscard, Cancelled, MoveToTrash,
        RemoveTaskDir, At, Starting, Cancelling

\* Every step of cancel does.
LEMMA CancelOpen ==
  ASSUME JInv, Open, NEW w \in Workers, Step(w), worker[w].pc \in Cancelling
  PROVE  OpenInv'
<1>1. IInv /\ TypeOK /\ worker[w].pc \in Lifecycle
  BY DEF JInv, IInv, Lifecycle
<1>2. PICK c \in Collections : c = worker[w].col
  BY <1>1, StepKnown
<1>3. PICK pc : pc = worker[w].pc
  OBVIOUS
<1>4. Stands(pc, c) /\ c # None
  BY <1>1, <1>2, <1>3, LifeFacts DEF Stands
<1>5. state = "cancelling" /\ active = c
  BY <1>3, <1>4 DEF Stands, Phase, ThreadAt, RoleAt
<1>6. ASSUME NEW p \in Cancelling \cup {"idle"}, Moves(w, p), Grows(p, c)
      PROVE  OpenInv'
  BY <1>1, <1>2, <1>6, LifeGoes DEF Lifecycle
<1>7. CASE CancelAbort(w)
  <2>1. /\ pc = "abort" /\ admitting' = FALSE /\ Moves(w, "abortjoin") /\ Touched(c)
        /\ UNCHANGED <<state, active, writerError, gate, disk>>
    BY <1>1, <1>2, <1>3, <1>7, CancelAbortIs
  <2>2. /\ gate.is = "none"
        /\ Writing(c) => disk[c].where = "staging" /\ disk[c].intact
    BY <1>4, <2>1 DEF Stands, OpenAt
  <2>3. Grows("abortjoin", c)
    BY <1>4, <1>5, <2>1, <2>2 DEF Grows, ThreadAt, RoleAt, AdmitsAt, HoldsAt, StateAt,
       AdmitAt, OpenAt, TfInv, Stopping, Saving, Cancelling, Writing, Touched
  <2>4. QED
    BY <1>6, <2>1, <2>3 DEF Cancelling
<1>8. CASE CancelJoin(w)
  <2>1. /\ pc = "abortjoin" /\ Touched(c) /\ UNCHANGED <<active, admitting, gate, disk>>
        /\ \/ ~Writing(c) /\ Moves(w, "discard") /\ UNCHANGED <<state, writer>>
           \/ Writing(c) /\ Moves(w, "idle") /\ state' = "error"
    BY <1>1, <1>2, <1>3, <1>8, CancelJoinIs
  <2>2. /\ gate.is = "none" /\ ~admitting
        /\ Writing(c) => disk[c].where = "staging" /\ disk[c].intact
    BY <1>4, <2>1 DEF Stands, OpenAt
  <2>3. UNCHANGED state => Grows("discard", c)
    BY <1>4, <1>5, <2>1, <2>2 DEF Grows, ThreadAt, RoleAt, AdmitsAt, HoldsAt, StateAt,
       AdmitAt, OpenAt, TfInv, Stopping, Saving, Cancelling, Writing, Touched
  <2>4. state' = "error" => Grows("idle", c)
    BY <1>4, <1>5, <2>1, <2>2 DEF Grows, ThreadAt, RoleAt, AdmitsAt, HoldsAt, StateAt,
       AdmitAt, OpenAt, TfInv, Stopping, Saving, Cancelling, Writing, Touched
  <2>5. QED
    BY <1>6, <2>1, <2>3, <2>4 DEF Cancelling
<1>9. CASE CancelDiscard(w)
  <2>1. /\ pc = "discard" /\ UNCHANGED <<active, admitting, gate, writer, log>>
        /\ \/ DiscardOk(c) /\ Moves(w, "cancelled") /\ UNCHANGED state
           \/ Moves(w, "idle") /\ state' = "error"
        /\ DiscardOk(c) \/ DiscardFails(c)
    BY <1>1, <1>2, <1>3, <1>9, CancelDiscardIs
  <2>2. gate.is = "none" /\ ~admitting /\ ~Writing(c)
    BY <1>4, <2>1 DEF Stands, ReachedAt
  <2>3. DiscardOk(c) => disk'[c].where # "staging"
    BY <1>1, <1>4, <2>1, DiscardEnds DEF Stands
  <2>4. DiscardOk(c) /\ UNCHANGED state => Grows("cancelled", c)
    BY <1>4, <1>5, <2>1, <2>2, <2>3 DEF Grows, ThreadAt, RoleAt, AdmitsAt, HoldsAt, StateAt,
       AdmitAt, OpenAt, TfInv, Stopping, Saving, Cancelling, Writing
  <2>5. state' = "error" => Grows("idle", c)
    BY <1>4, <1>5, <2>1, <2>2 DEF Grows, ThreadAt, RoleAt, AdmitsAt, HoldsAt, StateAt,
       AdmitAt, OpenAt, TfInv, Stopping, Saving, Cancelling, Writing
  <2>6. QED
    BY <1>6, <2>1, <2>4, <2>5 DEF Cancelling
<1>10. CASE Cancelled(w)
  <2>1. /\ pc = "cancelled" /\ active' = None /\ state' = "idle" /\ Moves(w, "idle")
        /\ UNCHANGED <<admitting, gate, writer, disk>>
    BY <1>1, <1>2, <1>3, <1>10, CancelledIs
  <2>2. gate.is = "none" /\ ~admitting /\ ~Writing(c) /\ disk[c].where # "staging"
    BY <1>4, <2>1 DEF Stands, ReachedAt, ThreadAt, HoldsAt
  <2>3. Grows("idle", c)
    BY <1>4, <1>5, <2>1, <2>2 DEF Grows, ThreadAt, RoleAt, AdmitsAt, HoldsAt, StateAt,
       AdmitAt, OpenAt, TfInv, Stopping, Saving, Cancelling, Writing
  <2>4. QED
    BY <1>6, <2>1, <2>3
<1>11. QED
  <2>1. Cancelling \cap (Starting \cup Stopping \cup Saving \cup {"trash", "rmdir"}) = {}
    BY DEF Starting, Stopping, Saving, Cancelling
  <2>2. QED
    BY <1>7, <1>8, <1>9, <1>10, <2>1
    DEF Step, Stage, OpenBag, Activate, Begin, Admit, Arm, WaitEnds, Ready, Undo, UndoJoin,
        UndoDiscard, Undone, Quiesce, Verify, Session, Manifest, CheckOwned, Rename, Unmark, Saved,
        MoveToTrash, RemoveTaskDir, At, Starting, Stopping, Saving

\* What LifeAt says, spread out.
LEMMA LifeStays ==
  ASSUME NEW pc, NEW c \in Handles,
         LifeAt(pc, c), pc # "idle" => c \in Collections,
         UNCHANGED <<state, active, admitting, gate, log>>,
         \A d \in Collections :
           /\ writer'[d].thread = writer[d].thread \/ (Writing(d) /\ ~Sane(d))
           /\ writer'[d].thread \in {"dead", writer[d].thread}
           /\ Sane(d) => Sane(d)'
           /\ disk'[d].where = disk[d].where \/ (disk[d].where = "task" /\ disk'[d].where = "trash")
           /\ disk'[d].intact = disk[d].intact
           /\ disk[d].bag = "complete" => disk'[d].bag = "complete",
         TfInv', active \in Handles
  PROVE  LifeAt(pc, c)'
<1>1. ASSUME NEW d \in Collections, Vouched(d)
      PROVE  Vouched(d)'
  BY <1>1, VouchedLasts DEF Vouched
<1>2. pc # "idle" => ThreadAt(pc, c)'
  <2>1. SUFFICES ASSUME pc # "idle"
                 PROVE  ThreadAt(pc, c)'
    OBVIOUS
  <2>2. c \in Collections /\ ThreadAt(pc, c)
    BY <2>1 DEF LifeAt
  <2>3. RoleAt(pc, c)'
    BY <2>2 DEF ThreadAt, RoleAt, Writing
  <2>4. AdmitsAt(pc, c)'
    BY <2>2 DEF ThreadAt, AdmitsAt
  <2>5. HoldsAt(pc, c)'
    BY <2>2 DEF ThreadAt, HoldsAt
  <2>6. QED
    BY <2>3, <2>4, <2>5 DEF ThreadAt
<1>3. pc = "idle" => ThreadAt(pc, c)'
  BY DEF ThreadAt, RoleAt, AdmitsAt, HoldsAt, Stopping, Saving, Cancelling
<1>4. active # None => active \in Collections
  BY DEF Handles
<1>5. StateAt(pc)'
  <2>1. state = "pending" => Vouched(active)' /\ disk'[active].intact
    BY <1>1, <1>4 DEF LifeAt, StateAt
  <2>2. state = "pending" => Vouched(active)' /\ disk'[active'].intact
    BY <2>1
  <2>3. QED
    BY <2>2 DEF LifeAt, StateAt, Vouched, WellFormed, HeadOk
<1>6. AdmitAt(pc)'
  BY <1>4 DEF LifeAt, AdmitAt, Sane, Writing
<1>7. ASSUME NEW d \in Collections
      PROVE  OpenAt(pc, c, d)'
  BY <1>7 DEF LifeAt, OpenAt, Writing
<1>8. QED
  BY <1>2, <1>3, <1>5, <1>6, <1>7 DEF LifeAt

\* The request that runs stays where it is when other threads move outside the lifecycle.
LEMMA RunsStays ==
  ASSUME NEW pc, NEW c, Runs(pc, c),
         \A v \in Workers :
           \/ worker'[v].pc = worker[v].pc /\ worker'[v].col = worker[v].col
           \/ worker[v].pc \notin Lifecycle /\ worker'[v].pc \notin Lifecycle
  PROVE  Runs(pc, c)'
BY DEF Runs, In

\* The steps of delete, beside any other request, keep OpenInv.
LEMMA DeleteOpen ==
  ASSUME JInv, Open, NEW w \in Workers, MoveToTrash(w) \/ RemoveTaskDir(w)
  PROVE  OpenInv'
<1>1. /\ IInv /\ TypeOK /\ TypeOK' /\ worker[w].pc # "idle"
  BY NextGood, StepKnown DEF JInv, IInv, Good, Next, Step
<1>2. PICK e \in Collections : e = worker[w].col
  BY <1>1, Known
<1>3. /\ worker[w].pc \in {"trash", "rmdir"} /\ ServiceFrame /\ UNCHANGED bags
      /\ \/ /\ disk[e].where = "task" /\ Moves(w, "rmdir")
            /\ Edited(e, "trash", disk[e].marker, disk[e].session, disk[e].intact)
         \/ Moves(w, "idle") /\ UNCHANGED disk
  BY <1>1, <1>2, DeleteIs
<1>4. PICK pc \in Steps, c \in Handles :
        /\ Runs(pc, c) /\ LifeAt(pc, c)
        /\ pc # "idle" => c \in Collections
  BY LifeNow
<1>5. {"idle", "trash", "rmdir"} \cap Lifecycle = {}
  BY DEF Lifecycle, Starting, Stopping, Saving, Cancelling
<1>6. Runs(pc, c)'
  BY <1>3, <1>4, <1>5, RunsStays DEF Moves
<1>7. ASSUME NEW d \in Collections
      PROVE  /\ \/ disk'[d].where = disk[d].where
                \/ disk[d].where = "task" /\ disk'[d].where = "trash"
             /\ disk'[d].intact = disk[d].intact /\ disk'[d].bag = disk[d].bag
             /\ writer'[d] = writer[d]
  BY <1>3, <1>7 DEF Edited, DirsOf, bags
<1>8. UNCHANGED <<state, active, admitting, gate, log, writer, writerError, tfCached, input>>
  BY <1>3 DEF ServiceFrame, StartFrame, bags
<1>9. TfInv'
  BY <1>4, <1>8 DEF LifeAt, TfInv
<1>10. \A d \in Collections : Sane(d) => Sane(d)'
  BY <1>8 DEF Sane, Writing
<1>11. active \in Handles
  BY <1>1 DEF TypeOK
<1>12. LifeAt(pc, c)'
  BY <1>4, <1>7, <1>8, <1>9, <1>10, <1>11, LifeStays
<1>13. QED
  BY <1>1, <1>6, <1>12, LifeThen

\* Accepting a request keeps OpenInv: the state it leaves is the lock of the lifecycle.
LEMMA RequestOpen ==
  ASSUME JInv, NEW w \in Workers, Request(w)
  PROVE  OpenInv'
<1>1. /\ IInv /\ TypeOK /\ TypeOK' /\ Open /\ worker[w].pc = "idle"
  BY NextGood, RequestIs DEF JInv, IInv, Good, Next
<1>2. PICK pc \in Steps, c \in Handles :
        /\ Runs(pc, c) /\ LifeAt(pc, c) /\ Phase(pc, state)
        /\ pc # "idle" => c \in Collections
  BY <1>1, LifeNow
<1>3. /\ RequestFrame /\ \A v \in Workers \ {w} : worker'[v] = worker[v]
  BY <1>1, RequestIs
<1>4. UNCHANGED <<active, admitting, writerError, gate, tfCached, input, writer, log, disk>>
  BY <1>3 DEF RequestFrame
<1>5. TfInv'
  BY <1>2, <1>4 DEF LifeAt, TfInv
<1>6. {"idle", "trash", "rmdir"} \cap Lifecycle = {}
  BY DEF Lifecycle, Starting, Stopping, Saving, Cancelling
<1>7. CASE UNCHANGED state /\ worker'[w].pc = "trash"
  <2>1. Runs(pc, c)'
    BY <1>1, <1>2, <1>3, <1>6, <1>7, RunsStays
  <2>2. active \in Handles /\ \A d \in Collections : Sane(d) => Sane(d)'
    BY <1>1, <1>4 DEF TypeOK, Sane, Writing
  <2>3. LifeAt(pc, c)'
    BY <1>2, <1>4, <1>5, <1>7, <2>2, LifeStays
  <2>4. QED
    BY <1>1, <2>1, <2>3, LifeThen
<1>8. ASSUME pc = "idle", NEW p \in Lifecycle, NEW e, worker'[w].pc = p, worker'[w].col = e,
             ThreadAt(p, e)', StateAt(p)', AdmitAt(p)',
             \A d \in Collections : Writing(d) => d = active
      PROVE  OpenInv'
  <2>1. Runs(p, e)'
    <3>1. \A v \in Workers : worker[v].pc \notin Lifecycle
      BY <1>2, <1>6, <1>8 DEF Runs, In
    <3>2. QED
      BY <1>3, <1>8, <3>1 DEF Runs, In
  <2>2. ASSUME NEW d \in Collections
        PROVE  OpenAt(p, e, d)'
    BY <1>2, <1>4, <1>6, <1>8, <2>2 DEF LifeAt, OpenAt, Writing
  <2>3. LifeAt(p, e)'
    BY <1>5, <1>8, <2>2 DEF LifeAt
  <2>4. QED
    BY <1>1, <2>1, <2>3, LifeThen
<1>9. ASSUME pc = "idle"
      PROVE  /\ \A d \in Collections : Writing(d) => d = active
             /\ gate.is = "none"
             /\ admitting => /\ active # None /\ log[active] # <<>> /\ Sane(active)
                             /\ state = "recording"
             /\ state = "idle" => active = None
             /\ state = "recording" => admitting
             /\ state = "pending" => disk[active].intact
  BY <1>2, <1>9 DEF LifeAt, OpenAt, AdmitAt, StateAt
<1>10. state \in {"idle", "recording", "pending", "error"} => pc = "idle"
  BY <1>2 DEF Runs, Phase, Lifecycle
<1>11. CASE state = "idle" /\ state' = "starting" /\ worker'[w].pc = "stage"
  <2>1. PICK e : e = worker'[w].col
    OBVIOUS
  <2>2. ThreadAt("stage", e)' /\ StateAt("stage")' /\ AdmitAt("stage")'
    BY <1>4, <1>9, <1>10, <1>11 DEF ThreadAt, RoleAt, AdmitsAt, HoldsAt, StateAt, AdmitAt, Stopping,
       Saving, Cancelling
  <2>3. QED
    BY <1>8, <1>9, <1>10, <1>11, <2>1, <2>2 DEF Lifecycle, Starting
<1>12. CASE /\ state = "recording" /\ state' = "stopping" /\ worker'[w].pc = "quiesce"
            /\ worker'[w].col = active /\ active # None
  <2>1. PICK e \in Collections : e = active
    BY <1>1, <1>12, Known
  <2>2. ThreadAt("quiesce", e)'
    BY <1>4, <1>9, <1>10, <1>12, <2>1
    DEF ThreadAt, RoleAt, AdmitsAt, HoldsAt, Stopping, Saving, Cancelling,
       Sane, Writing
  <2>3. StateAt("quiesce")' /\ AdmitAt("quiesce")'
    BY <1>4, <1>9, <1>10, <1>12, <2>1 DEF StateAt, AdmitAt, Sane, Writing
  <2>4. QED
    BY <1>4, <1>8, <1>9, <1>10, <1>12, <2>1, <2>2, <2>3 DEF Lifecycle, Stopping
<1>13. CASE /\ state = "pending" /\ state' = "saving" /\ worker'[w].pc = "manifest"
            /\ worker'[w].col = active /\ active # None
  <2>1. PICK e \in Collections : e = active
    BY <1>1, <1>13, Known
  <2>2. ThreadAt("manifest", e)'
    BY <1>4, <1>9, <1>10, <1>13, <2>1
    DEF ThreadAt, RoleAt, AdmitsAt, HoldsAt, Stopping, Saving, Cancelling
  <2>3. StateAt("manifest")' /\ AdmitAt("manifest")'
    BY <1>4, <1>9, <1>10, <1>13, <2>1 DEF StateAt, AdmitAt
  <2>4. QED
    BY <1>4, <1>8, <1>9, <1>10, <1>13, <2>1, <2>2, <2>3 DEF Lifecycle, Saving
<1>14. CASE /\ state \in {"recording", "pending", "error"} /\ state' = "cancelling"
            /\ worker'[w].pc = "abort" /\ worker'[w].col = active /\ active # None
  <2>1. PICK e \in Collections : e = active
    BY <1>1, <1>14, Known
  <2>2. ThreadAt("abort", e)'
    BY <1>4, <1>9, <1>10, <1>14, <2>1
    DEF ThreadAt, RoleAt, AdmitsAt, HoldsAt, Stopping, Saving, Cancelling
  <2>3. StateAt("abort")' /\ AdmitAt("abort")'
    BY <1>4, <1>9, <1>10, <1>14, <2>1 DEF StateAt, AdmitAt, Sane, Writing
  <2>4. QED
    BY <1>4, <1>8, <1>9, <1>10, <1>14, <2>1, <2>2, <2>3 DEF Lifecycle, Cancelling
<1>15. QED
  BY <1>1, <1>7, <1>11, <1>12, <1>13, <1>14, RequestIs

\* The timer and the writer threads keep OpenInv: a failure of a bag is reported.
LEMMA WriterOpen ==
  ASSUME JInv, Open, Sync \/ \E e \in Collections : WriterFails(e) \/ WriterEnds(e)
  PROVE  OpenInv'
<1>1. /\ IInv /\ TypeOK /\ TypeOK' /\ active \in Handles
  BY NextGood DEF JInv, IInv, Good, Next, TypeOK
<1>2. PICK pc \in Steps, c \in Handles :
        /\ Runs(pc, c) /\ LifeAt(pc, c) /\ Phase(pc, state)
        /\ pc # "idle" => c \in Collections
  BY LifeNow
<1>3. UNCHANGED worker
  BY DEF Sync, WriterFails, WriterEnds
<1>4. Runs(pc, c)'
  BY <1>2, <1>3, RunsStays
<1>5. CASE Sync
  <2>1. /\ state = "recording" /\ state' = "error" /\ admitting' = FALSE
        /\ UNCHANGED <<active, writerError, gate, writer, log, disk>>
    BY <1>5 DEF Sync, Syncable, bags, files
  <2>2. pc = "idle"
    BY <1>2, <2>1 DEF Runs, Phase, Lifecycle
  <2>3. StateAt("idle")' /\ AdmitAt("idle")' /\ TfInv'
    BY <1>2, <2>1, <2>2 DEF LifeAt, StateAt, AdmitAt, TfInv
  <2>4. ThreadAt("idle", c)'
    BY DEF ThreadAt, RoleAt, AdmitsAt, HoldsAt, Stopping, Saving, Cancelling
  <2>5. ASSUME NEW d \in Collections
        PROVE  OpenAt("idle", c, d)'
    BY <1>2, <2>1, <2>2 DEF LifeAt, OpenAt, Writing
  <2>6. LifeAt("idle", c)'
    BY <2>3, <2>4, <2>5 DEF LifeAt
  <2>7. QED
    BY <1>1, <1>4, <2>2, <2>6, LifeThen
<1>6. ASSUME NEW e \in Collections, WriterFails(e)
      PROVE  OpenInv'
  <2>1. /\ writer' = [writer EXCEPT ![e].failed = TRUE] /\ writerError' = Noted("write")
        /\ UNCHANGED <<state, active, admitting, gate, log, disk>>
    BY <1>6 DEF WriterFails, files
  <2>2. /\ \A d \in Collections \ {e} : writer'[d] = writer[d]
        /\ writer'[e].thread = writer[e].thread /\ writer'[e].closing = writer[e].closing
        /\ writerError' # ""
    BY <1>1, <2>1, FailIs DEF Noted
  <2>3. TfInv'
    BY <2>2 DEF TfInv
  <2>4. \A d \in Collections : /\ writer'[d].thread = writer[d].thread
                               /\ Sane(d) => Sane(d)'
    BY <2>2 DEF Sane, Writing
  <2>5. LifeAt(pc, c)'
    BY <1>1, <1>2, <2>1, <2>3, <2>4, LifeStays
  <2>6. QED
    BY <1>1, <1>4, <2>5, LifeThen
<1>7. ASSUME NEW e \in Collections, WriterEnds(e)
      PROVE  OpenInv'
  <2>1. UNCHANGED <<state, active, admitting, gate, log, writerError, tfCached, input>>
    BY <1>7 DEF WriterEnds, service, process, caches
  <2>2. /\ \A d \in Collections \ {e} : writer'[d] = writer[d] /\ disk'[d] = disk[d]
        /\ Writing(e) /\ writer[e].closing /\ writer'[e].thread = "dead" /\ Stays(e)
    BY <1>1, <1>7, EndIs
  <2>3. TfInv'
    BY <1>2, <2>1 DEF LifeAt, TfInv
  <2>4. \A d \in Collections :
          /\ writer'[d].thread = writer[d].thread \/ (Writing(d) /\ ~Sane(d))
          /\ writer'[d].thread \in {"dead", writer[d].thread}
          /\ Sane(d) => Sane(d)'
    BY <2>1, <2>2 DEF Sane, Writing
  <2>5. \A d \in Collections :
          /\ disk'[d].where = disk[d].where /\ disk'[d].intact = disk[d].intact
          /\ disk[d].bag = "complete" => disk'[d].bag = "complete"
    BY <2>2 DEF Stays
  <2>6. LifeAt(pc, c)'
    BY <1>1, <1>2, <2>1, <2>3, <2>4, <2>5, LifeStays
  <2>7. QED
    BY <1>1, <1>4, <2>6, LifeThen
<1>8. QED
  BY <1>5, <1>6, <1>7

\* After a restart the service knows of nothing and nothing is open.
LEMMA RestartOpen ==
  ASSUME JInv, Restart
  PROVE  OpenInv'
<1>1. IInv /\ TypeOK /\ TypeOK' /\ Dirs
  BY NextGood DEF JInv, IInv, Good, Next
<1>2. /\ state' = "idle" /\ active' = None /\ admitting' = FALSE /\ gate'.is = "none"
      /\ \A w \in Workers : worker'[w].pc = "idle"
      /\ \A d \in Collections : writer'[d].thread = "none"
  BY DEF Restart, NoGate, Idle, NoWriter
<1>3. Runs("idle", None)'
  <2>1. "idle" \notin Lifecycle
    BY DEF Lifecycle, Starting, Stopping, Saving, Cancelling
  <2>2. QED
    BY <1>2, <2>1 DEF Runs, In
<1>4. ASSUME NEW d \in Collections
      PROVE  OpenAt("idle", None, d)'
  <2>1. /\ disk \in [Collections -> Directories] /\ DirAt(d)
        /\ disk' = Recovered
    BY <1>1 DEF TypeOK, Dirs, Restart
  <2>2. disk'[d] = IF Owned(d) THEN [disk[d] EXCEPT !.where = "removed", !.marker = FALSE]
                               ELSE disk[d]
    BY <2>1 DEF Recovered
  <2>3. Owned(d) => disk'[d].where = "removed"
    BY <2>1, <2>2 DEF Directories
  <2>4. ~(disk'[d].where = "staging" /\ disk'[d].intact)
    BY <2>1, <2>2, <2>3 DEF DirAt, Owned
  <2>5. QED
    BY <1>2, <2>4 DEF OpenAt, Writing
<1>5. ThreadAt("idle", None)'
  BY DEF ThreadAt, RoleAt, AdmitsAt, HoldsAt, Stopping, Saving, Cancelling
<1>6. StateAt("idle")' /\ AdmitAt("idle")' /\ TfInv'
  BY <1>2 DEF StateAt, AdmitAt, TfInv
<1>7. LifeAt("idle", None)'
  BY <1>4, <1>5, <1>6 DEF LifeAt
<1>8. QED
  BY <1>1, <1>3, <1>7, LifeThen

\* Offering messages to the active collection keeps what is known of it.
LEMMA OfferOpen ==
  ASSUME JInv, Open, UNCHANGED <<disk, active, state>>,
         NEW pc \in Steps, NEW c \in Handles, LifeAt(pc, c), pc # "idle" => c \in Collections,
         active \in Collections, Sane(active), state # "pending",
         NEW ms \in Seq(Messages), NEW k \in 0 .. Len(ms), Offered(active, ms, k, FALSE),
         AdmitsAt(pc, c)', TfInv',
         admitting' => /\ log[active] # <<>> \/ k > 0
                       /\ \/ state = "recording" \/ pc \in {"ready", "quiesce", "abort"}
                          \/ pc = "wait" /\ gate'.is = "done",
         state = "recording" => admitting',
         gate'.is # "none" => pc = "wait"
  PROVE  LifeAt(pc, c)'
<1>1. TypeOK
  BY DEF JInv, IInv
<1>2. PICK a \in Collections : a = active
  OBVIOUS
<1>3. BagsOf(a) /\ Grown(a, ms, k, FALSE) /\ Flagged(a, ms, k, FALSE)
  BY <1>1, <1>2, OfferIs
<1>4. \A d \in Collections : /\ writer'[d].thread = writer[d].thread
                             /\ Sane(d) => Sane(d)'
  BY <1>3 DEF BagsOf, Flagged, Sane, Writing
<1>5. \A d \in Collections : log[d] # <<>> => log'[d] # <<>>
  BY <1>1, <1>2, OfferLasts DEF Lasts
<1>6. k > 0 => log'[a] # <<>>
  <2>1. k > 0 => Len(log'[a]) # 0
    BY <1>3 DEF Grown
  <2>2. log'[a] = <<>> => Len(log'[a]) = 0
    OBVIOUS
  <2>3. QED
    BY <2>1, <2>2
<1>7. ThreadAt(pc, c)'
  <2>1. RoleAt(pc, c)'
    BY <1>4 DEF LifeAt, ThreadAt, RoleAt, Stopping, Saving, Cancelling
  <2>2. HoldsAt(pc, c)'
    BY <1>4, <1>5 DEF LifeAt, ThreadAt, HoldsAt
  <2>3. QED
    BY <2>1, <2>2 DEF ThreadAt
<1>8. StateAt(pc)'
  BY <1>4 DEF LifeAt, StateAt
<1>9. AdmitAt(pc)'
  <2>1. admitting' => active' # None /\ log'[a] # <<>> /\ Sane(a)'
    BY <1>2, <1>4, <1>5, <1>6 DEF Collections, None
  <2>2. Sane(a)' => Sane(active)'
    BY <1>2 DEF Sane, Writing
  <2>3. QED
    BY <1>2, <2>1, <2>2 DEF AdmitAt
<1>10. ASSUME NEW d \in Collections
       PROVE  OpenAt(pc, c, d)'
  BY <1>4, <1>10 DEF LifeAt, OpenAt, Writing
<1>11. QED
  BY <1>7, <1>8, <1>9, <1>10 DEF LifeAt

\* A count that does not fall short of its bound is the bound.
LEMMA Whole ==
  ASSUME NEW n \in Nat, NEW k \in 0 .. n, ~(k < n)
  PROVE  k = n
OBVIOUS

\* A bag that is open and has no failure takes everything, or a failure is reported.
LEMMA OfferWhole ==
  ASSUME TypeOK, NEW c \in Collections, Sane(c), NEW ms \in Seq(Messages),
         NEW k \in 0 .. Len(ms), Offered(c, ms, k, FALSE), writerError' = ""
  PROVE  k = Len(ms) /\ writerError = ""
<1>1. Grown(c, ms, k, FALSE) /\ Flagged(c, ms, k, FALSE)
  BY OfferIs
<1>2. writerError = "" /\ ~(k < Len(ms) /\ Accepting(c))
  BY <1>1 DEF Flagged
<1>3. Accepting(c)
  BY <1>2 DEF Sane, Writing, Accepting
<1>4. Len(ms) \in Nat /\ k \in 0 .. Len(ms) /\ ~(k < Len(ms))
  BY <1>1, <1>2, <1>3 DEF Grown
<1>5. k = Len(ms)
  BY <1>4, Whole
<1>6. QED
  BY <1>2, <1>5

\* The keyframe that opens the gate puts START, the transform and itself into the bag.
LEMMA GateOpen ==
  ASSUME JInv, OpenGate
  PROVE  OpenInv'
<1>1. /\ IInv /\ TypeOK /\ TypeOK' /\ Open /\ gate.is = "armed" /\ input.pc = "idle"
      /\ UNCHANGED <<worker, disk, active, state, tfCached, input>>
  BY NextGood DEF JInv, IInv, Good, Next, Input, OpenGate, caches, process, files
<1>2. PICK k \in 0 .. Len(GateMessages) :
        /\ Offered(gate.col, GateMessages, k, FALSE)
        /\ gate' = [gate EXCEPT !.is = IF k = 0 THEN "failed" ELSE "done"]
        /\ admitting' = (k > 0 \/ admitting)
  BY Zenon DEF OpenGate, OfferFirst
<1>3. PICK w \in Workers :
        /\ worker[w].pc = "wait" /\ worker[w].col = gate.col /\ gate.col \in Collections
        /\ active = gate.col /\ log[active] = <<>> /\ ~admitting /\ Sane(active)
  BY <1>1, GateHeld
<1>4. PICK pc \in Steps, c \in Handles :
        /\ Runs(pc, c) /\ LifeAt(pc, c) /\ Phase(pc, state)
        /\ pc # "idle" => c \in Collections
  BY <1>1, LifeNow
<1>5. pc = "wait" /\ c = active
  <2>1. In(w, Lifecycle)
    BY <1>3 DEF In, Lifecycle, Starting
  <2>2. QED
    BY <1>3, <1>4, <2>1 DEF Runs
<1>6. state = "starting"
  BY <1>4, <1>5 DEF Phase, Starting
<1>7. gate'.col = gate.col /\ gate'.is = IF k = 0 THEN "failed" ELSE "done"
  BY <1>1, <1>2 DEF TypeOK, Gates
<1>8. k \in Nat /\ (k > 0 <=> k # 0) /\ GateMessages \in Seq(Messages)
  <2>1. Len(GateMessages) \in Nat
    BY GateMessagesTyped
  <2>2. QED
    BY <2>1, GateMessagesTyped
<1>9. admitting' <=> k > 0
  BY <1>2, <1>3
<1>10. Runs(pc, c)'
  BY <1>1, <1>4, RunsStays
<1>11. AdmitsAt(pc, c)'
  BY <1>3, <1>5, <1>7, <1>8, <1>9 DEF AdmitsAt
<1>12. TfInv'
  <2>1. SUFFICES ASSUME admitting', tfCached', writerError' = ""
                 PROVE  \E i \in 1 .. Len(log'[active']) : log'[active'][i].kind = "tf"
    BY DEF TfInv
  <2>2. PICK a \in Collections : a = active
    BY <1>3
  <2>3. Offered(a, GateMessages, k, FALSE) /\ Sane(a) /\ log[a] = <<>>
    BY <1>2, <1>3, <2>2
  <2>4. k = Len(GateMessages)
    BY <1>1, <1>8, <2>1, <2>3, OfferWhole
  <2>5. Grown(a, GateMessages, k, FALSE)
    BY <1>1, <1>8, <2>3, OfferIs
  <2>6. /\ Len(StartMessages) = 2 /\ StartMessages[2].kind = "tf"
        /\ GateMessages[2] = StartMessages[2] /\ k = 3
    <3>1. tfCached
      BY <1>1, <2>1
    <3>2. Len(StartMessages) = 2
      BY <3>1, StartIs
    <3>3. 2 \in 1 .. Len(StartMessages)
      BY <3>2
    <3>4. StartMessages[2].kind = "tf"
      BY <3>3, StartIs
    <3>5. GateMessages[2] = StartMessages[2] /\ Len(GateMessages) = Len(StartMessages) + 1
      BY <3>3, GateIs
    <3>6. QED
      BY <2>4, <3>2, <3>4, <3>5
  <2>7. Len(log[a]) = 0
    BY <2>3
  <2>8. Len(log'[a]) = 3 /\ log'[a][2] = GateMessages[2]
    BY <2>5, <2>6, <2>7 DEF Grown
  <2>9. 2 \in 1 .. Len(log'[a]) /\ log'[a][2].kind = "tf" /\ active' = a
    BY <1>1, <2>2, <2>6, <2>8
  <2>10. QED
    BY <2>9
<1>13. LifeAt(pc, c)'
  BY <1>1, <1>2, <1>3, <1>4, <1>5, <1>6, <1>7, <1>8, <1>9, <1>11, <1>12, OfferOpen
<1>14. QED
  BY <1>1, <1>10, <1>13, LifeThen

\* A message that is submitted to the active collection keeps OpenInv.
LEMMA SubmitOpen ==
  ASSUME JInv, Input, NEW m \in Messages, Submit(m), UNCHANGED <<gate, admitting, tfCached>>,
         input.pc = "tf" => m.kind = "tf", input'.pc # "tf"
  PROVE  OpenInv'
<1>1. /\ IInv /\ TypeOK /\ TypeOK' /\ Open
      /\ UNCHANGED <<worker, disk, active, state>>
  BY NextGood, InputIs DEF JInv, IInv, Good, Next
<1>2. PICK pc \in Steps, c \in Handles :
        /\ Runs(pc, c) /\ LifeAt(pc, c)
        /\ pc # "idle" => c \in Collections
  BY <1>1, LifeNow
<1>3. Runs(pc, c)'
  BY <1>1, <1>2, RunsStays
<1>4. CASE ~(admitting /\ active # None)
  <2>1. UNCHANGED <<writerError, writer, log>>
    BY <1>4 DEF Submit, bags
  <2>2. ~admitting' /\ active \in Handles
    BY <1>1, <1>2, <1>4 DEF LifeAt, AdmitAt, TypeOK
  <2>3. TfInv'
    BY <2>2 DEF TfInv
  <2>4. \A d \in Collections : Sane(d) => Sane(d)'
    BY <2>1 DEF Sane, Writing
  <2>5. LifeAt(pc, c)'
    BY <1>1, <1>2, <2>1, <2>2, <2>3, <2>4, LifeStays
  <2>6. QED
    BY <1>1, <1>3, <2>5, LifeThen
<1>5. CASE admitting /\ active # None
  <2>1. /\ active \in Collections /\ Sane(active) /\ log[active] # <<>> /\ gate.is # "armed"
        /\ \/ state = "recording" \/ pc \in {"ready", "quiesce", "abort"}
           \/ pc = "wait" /\ gate.is = "done"
        /\ gate.is # "none" => pc = "wait"
    BY <1>1, <1>2, <1>5, Known, GateHeld DEF LifeAt, AdmitAt
  <2>2. \E k \in 0 .. 1 : Offered(active, <<m>>, k, FALSE)
    BY <1>5 DEF Submit, OfferFirst
  <2>3. PICK ms \in Seq(Messages) : ms = <<m>> /\ Len(ms) = 1 /\ ms[1] = m
    <3>1. <<m>> \in Seq(Messages) /\ Len(<<m>>) = 1 /\ <<m>>[1] = m
      OBVIOUS
    <3>2. QED
      BY <3>1
  <2>4. PICK k \in 0 .. Len(ms) : Offered(active, ms, k, FALSE)
    BY <2>2, <2>3
  <2>5. PICK a \in Collections : a = active
    BY <2>1
  <2>6. Grown(a, ms, k, FALSE) /\ Offered(a, ms, k, FALSE) /\ Sane(a)
    BY <1>1, <2>1, <2>4, <2>5, OfferIs
  <2>7. TfInv'
    <3>1. SUFFICES ASSUME KeyframeStart, tfCached, writerError' = ""
                   PROVE  \E i \in 1 .. Len(log'[a]) : log'[a][i].kind = "tf"
      BY <1>1, <2>5 DEF TfInv
    <3>2. k = 1 /\ writerError = ""
      BY <1>1, <2>3, <2>6, <3>1, OfferWhole
    <3>3. PICK n \in Nat : n = Len(log[a]) /\ Len(log'[a]) = n + 1
      BY <2>3, <2>6, <3>2 DEF Grown
    <3>4. CASE input.pc = "tf"
      <4>1. 1 \in 1 .. k
        <5>1. 1 \in 1 .. 1
          OBVIOUS
        <5>2. QED
          BY <3>2, <5>1, Zenon
      <4>2. log'[a][n + 1] = ms[1]
        BY <2>6, <3>3, <4>1 DEF Grown
      <4>3. n + 1 \in 1 .. Len(log'[a])
        BY <3>3
      <4>4. QED
        BY <1>2, <2>3, <3>4, <4>2, <4>3
    <3>5. CASE input.pc # "tf"
      <4>1. PICK i \in 1 .. n : log[a][i].kind = "tf"
        BY <1>2, <1>5, <2>5, <3>1, <3>2, <3>3, <3>5 DEF LifeAt, TfInv
      <4>2. i \in 1 .. Len(log'[a])
        BY <3>3, <4>1
      <4>3. log'[a][i] = log[a][i]
        BY <2>6, <3>3, <4>1 DEF Grown
      <4>4. QED
        BY <4>1, <4>2, <4>3
    <3>6. QED
      BY <3>4, <3>5
  <2>8. AdmitsAt(pc, c)'
    BY <1>2, <2>1 DEF LifeAt, ThreadAt, AdmitsAt
  <2>9. state # "pending"
    <3>1. state = "pending" => ~Writing(active)
      BY <1>2 DEF LifeAt, StateAt, Vouched, Writing
    <3>2. QED
      BY <2>1, <3>1 DEF Sane
  <2>10. LifeAt(pc, c)'
    BY <1>1, <1>2, <1>5, <2>1, <2>4, <2>7, <2>8, <2>9, OfferOpen
  <2>11. QED
    BY <1>1, <1>3, <2>10, LifeThen
<1>6. QED
  BY <1>4, <1>5

\* Every step of the input thread keeps OpenInv.
LEMMA InputOpen ==
  ASSUME JInv, Input
  PROVE  OpenInv'
<1>1. IInv /\ TypeOK /\ TypeOK' /\ Open /\ input \in Inputs /\ active \in Handles
  BY NextGood, InputIs DEF JInv, IInv, Good, Next, TypeOK
<1>2. /\ Message("data") \in Messages /\ Message("tf") \in Messages
      /\ Message("tf").kind = "tf" /\ Timing(input.gen) \in Messages
  BY <1>1, MessageTyped DEF Timing, Messages, Inputs, Message
<1>3. CASE OpenGate
  BY <1>3, GateOpen
<1>4. CASE Data
  <2>1. /\ Submit(Message("data")) /\ input.pc = "idle"
        /\ UNCHANGED <<gate, admitting, tfCached, input>>
    BY <1>4 DEF Data, caches, process
  <2>2. QED
    BY <1>2, <2>1, SubmitOpen
<1>5. CASE TfSubmitted
  <2>1. /\ Submit(Message("tf")) /\ input' = Quiet
        /\ UNCHANGED <<gate, admitting, tfCached>>
    BY <1>5 DEF TfSubmitted, caches
  <2>2. QED
    BY <1>2, <2>1, SubmitOpen DEF Quiet
<1>6. CASE TimingSubmitted
  <2>1. /\ Submit(Timing(input.gen)) /\ input.pc = "timing" /\ input' = Quiet
        /\ UNCHANGED <<gate, admitting, tfCached>>
    BY <1>6 DEF TimingSubmitted, caches
  <2>2. QED
    BY <1>2, <2>1, SubmitOpen DEF Quiet
<1>7. CASE TfArrives \/ TimingArrives \/ TimingReported
  <2>1. PICK pc \in Steps, c \in Handles :
          /\ Runs(pc, c) /\ LifeAt(pc, c)
          /\ pc # "idle" => c \in Collections
    BY <1>1, LifeNow
  <2>2. UNCHANGED <<worker, state, active, admitting, gate, writer, log, disk>>
    BY <1>7 DEF TfArrives, TimingArrives, TimingReported, bags, files
  <2>3. writerError' = writerError \/ writerError' # ""
    BY <1>7 DEF TfArrives, TimingArrives, TimingReported, Noted
  <2>4. TfInv'
    <3>1. TfArrives => input'.pc = "tf"
      BY DEF TfArrives, Quiet
    <3>2. TimingArrives => input.pc = "idle" /\ UNCHANGED <<tfCached, writerError>>
      BY DEF TimingArrives
    <3>3. TimingReported => writerError' # ""
      BY DEF TimingReported, Noted
    <3>4. QED
      BY <1>7, <2>1, <2>2, <3>1, <3>2, <3>3 DEF LifeAt, TfInv
  <2>5. \A d \in Collections : Sane(d) => Sane(d)'
    BY <2>2, <2>3 DEF Sane, Writing
  <2>6. LifeAt(pc, c)'
    BY <1>1, <2>1, <2>2, <2>4, <2>5, LifeStays
  <2>7. Runs(pc, c)'
    BY <2>1, <2>2, RunsStays
  <2>8. QED
    BY <1>1, <2>6, <2>7, LifeThen
<1>8. QED
  BY <1>3, <1>4, <1>5, <1>6, <1>7 DEF Input

\* Every step keeps what is known while the service is open.
LEMMA OpenInvNext ==
  ASSUME JInv, Next
  PROVE  OpenInv'
<1>1. IInv /\ TypeOK
  BY DEF JInv, IInv
<1>2. Open' \/ OpenInv'
  BY DEF OpenInv
<1>3. CASE Restart
  BY <1>3, RestartOpen
<1>4. CASE Exit
  <2>1. exit'.pc # "no"
    <3>1. exit \in Exits
      BY <1>1 DEF TypeOK
    <3>2. \/ \E pc \in ExitSteps \ {"no"} : exit' = [exit EXCEPT !.pc = pc]
          \/ \E pc \in ExitSteps \ {"no"} : \E c : exit' = [pc |-> pc, col |-> c]
      BY <1>4 DEF Exit, Shutdown, Settle, ExitAbort, ExitJoin, ExitClear, CleanBegins, CleanEnds,
         Unlock, ExitDone, ExitSteps
    <3>3. QED
      BY <3>1, <3>2 DEF Exits
  <2>2. QED
    BY <1>2, <2>1 DEF Open
<1>5. CASE Input
  BY <1>5, InputOpen
<1>6. ASSUME NEW w \in Workers, Request(w)
      PROVE  OpenInv'
  BY <1>6, RequestOpen
<1>7. CASE Sync \/ \E c \in Collections : WriterFails(c) \/ WriterEnds(c)
  <2>1. UNCHANGED exit
    BY <1>7 DEF Sync, WriterFails, WriterEnds, process
  <2>2. QED
    BY <1>2, <1>7, <2>1, WriterOpen DEF Open
<1>8. ASSUME NEW w \in Workers, Step(w)
      PROVE  OpenInv'
  <2>1. /\ UNCHANGED exit /\ worker[w].pc # "idle" /\ worker[w].pc \in Steps
    BY <1>1, <1>8, StepKnown DEF StartFrame, TypeOK, Threads
  <2>2. CASE ~Open
    BY <1>2, <2>1, <2>2 DEF Open
  <2>3. CASE Open /\ worker[w].pc \in Lifecycle
    BY <1>8, <2>3, StartOpen, SaveOpen, CancelOpen DEF Lifecycle
  <2>4. CASE Open /\ worker[w].pc \notin Lifecycle
    <3>1. worker[w].pc \in {"trash", "rmdir"}
      BY <2>1, <2>4, Outside
    <3>2. MoveToTrash(w) \/ RemoveTaskDir(w)
      BY <1>8, <3>1
      DEF Step, Stage, OpenBag, Activate, Begin, Admit, Arm, WaitEnds, Ready, Undo, UndoJoin,
          UndoDiscard, Undone, Quiesce, Verify, Session, Manifest, CheckOwned, Rename, Unmark,
          Saved,
          CancelAbort, CancelJoin, CancelDiscard, Cancelled, At
    <3>3. QED
      BY <2>4, <3>2, DeleteOpen
  <2>5. QED
    BY <2>2, <2>3, <2>4
<1>9. QED
  BY <1>3, <1>4, <1>5, <1>6, <1>7, <1>8 DEF Next

-----------------------------------------------------------------------------
(* The theorems *)

\* The invariant holds when the service starts for the first time.
LEMMA InitSafe ==
  ASSUME Init
  PROVE  JInv
<1>1. IInv /\ TypeOK
  BY InitInvariant DEF IInv
<1>2. /\ \A c \in Collections : writer[c] = NoWriter /\ log[c] = <<>> /\ disk[c] = NoDir
      /\ \A w \in Workers : worker[w] = Idle
      /\ exit = Running /\ input = Quiet /\ state = "idle" /\ active = None /\ ~admitting
      /\ gate = NoGate
  BY DEF Init
<1>3. Open /\ input.pc = "idle" /\ gate.is = "none"
  BY <1>2 DEF Open, Running, Quiet, NoGate
<1>4. ASSUME NEW c \in Collections
      PROVE  ~Writing(c) /\ disk[c].where = "none" /\ disk[c].intact /\ LogAt(c) /\ DirAt(c)
  <2>1. /\ ~Writing(c) /\ disk[c].where = "none" /\ disk[c].intact /\ ~Published(c)
        /\ writer[c] = NoWriter /\ log[c] = <<>> /\ Len(log[c]) = 0
        /\ writer[c].thread = "none"
    BY <1>2 DEF Writing, Published, NoWriter, NoDir
  <2>2. Shape(c)
    BY <2>1 DEF Shape
  <2>3. QED
    BY <2>1, <2>2 DEF LogAt, DirAt
<1>5. \A w \in Workers : worker[w].pc = "idle"
  BY <1>2 DEF Idle
<1>6. Reached
  BY <1>5 DEF Reached, ReachedBy, ReachedAt
<1>7. \A w \in Workers : ThreadInv(w)
  BY <1>5 DEF ThreadInv, ThreadAt, RoleAt, AdmitsAt, HoldsAt, Stopping, Saving, Cancelling
<1>8. StateInv /\ AdmitInv /\ BagInv /\ TfInv
  <2>1. StateInv
    BY <1>2 DEF StateInv
  <2>2. AdmitInv /\ TfInv
    BY <1>2, <1>3 DEF AdmitInv, TfInv
  <2>3. BagInv
    BY <1>4 DEF BagInv, BagAt
  <2>4. QED
    BY <2>1, <2>2, <2>3
<1>9. ExitInv
  BY <1>3, <1>4 DEF ExitInv, Open, Published
<1>10. QED
  BY <1>1, <1>3, <1>4, <1>6, <1>7, <1>8, <1>9 DEF JInv, Logs, Dirs, OpenInv, InputRests

\* Every step keeps the invariant.
LEMMA NextSafe == JInv /\ [Next]_vars => JInv'
<1> SUFFICES ASSUME JInv, [Next]_vars PROVE JInv'
  OBVIOUS
<1>1. IInv'
  BY NextGood DEF JInv, Good
<1>2. CASE Next
  BY <1>1, <1>2, LogsNext, DirsNext, ReachedNext, OpenInvNext, ExitInvNext, InputRestsNext DEF JInv
<1>3. CASE UNCHANGED vars
  <2>1. /\ UNCHANGED <<writer, log, disk, issued, worker, active, state, admitting, gate>>
        /\ UNCHANGED <<tfCached, input, exit, writerError>>
    BY <1>3 DEF vars, service, process, bags, files, caches
  <2>2. ASSUME NEW c \in Collections
        PROVE  LogAt(c)' /\ DirAt(c)'
    <3>1. LogAt(c) /\ DirAt(c)
      BY DEF JInv, Logs, Dirs
    <3>2. /\ Shape(c) = Shape(c)' /\ HeadOk(c) = HeadOk(c)'
          /\ WellFormed(c) = WellFormed(c)'
      BY <2>1, Zenon DEF Shape, HeadOk, WellFormed, Accepting
    <3>3. QED
      BY <2>1, <3>1, <3>2 DEF LogAt, DirAt, Published, Writing
  <2>3. ASSUME NEW w \in Workers
        PROVE  ReachedBy(w)'
    <3>1. PICK pc, c : pc = worker[w].pc /\ c = worker[w].col
      OBVIOUS
    <3>2. ReachedAt(pc, c)
      BY <3>1 DEF JInv, Reached, ReachedBy
    <3>3. ReachedAt(pc, c)'
      BY <2>1, <3>2 DEF ReachedAt, HeadOk, Vouched, WellFormed, Published, Writing
    <3>4. QED
      BY <2>1, <3>1, <3>3, NowReached
  <2>4. OpenInv'
    <3>1. ASSUME Open
          PROVE  \A w \in Workers : ThreadInv(w)'
      BY <2>1, <3>1, Zenon DEF JInv, OpenInv, ThreadInv, ThreadAt, RoleAt, AdmitsAt, HoldsAt, Sane,
         Writing
    <3>2. ASSUME Open
          PROVE  StateInv'
      BY <2>1, <3>2, Zenon DEF JInv, OpenInv, StateInv, In, Vouched, WellFormed, HeadOk
    <3>3. ASSUME Open
          PROVE  AdmitInv' /\ TfInv'
      BY <2>1, <3>3, Zenon DEF JInv, OpenInv, AdmitInv, In, Sane, Writing, TfInv
    <3>4. ASSUME Open
          PROVE  BagInv'
      BY <2>1, <3>4, Zenon DEF JInv, OpenInv, BagInv, BagAt, In, Writing
    <3>5. Open = Open'
      BY <2>1 DEF Open
    <3>6. QED
      BY <3>1, <3>2, <3>3, <3>4, <3>5 DEF OpenInv
  <2>5. ExitInv' /\ InputRests'
    BY <2>1 DEF JInv, ExitInv, InputRests, Open, Published, Writing
  <2>6. QED
    BY <1>1, <2>2, <2>3, <2>4, <2>5 DEF JInv, Logs, Dirs, Reached
<1>4. QED
  BY <1>2, <1>3

\* The inductive invariant: what the theorems below follow from.
THEOREM SafetyInvariant == Spec => []JInv
BY InitSafe, NextSafe, PTL DEF Spec

\* A published record is whole: START, STOP, a complete bag, all its files and a list that
\* says saved; for any faults, when the executors wait for the callbacks they run.
THEOREM SavedIsCompleteCorrect == OrderlyExit => (Spec => []SavedIsComplete)
<1> SUFFICES ASSUME OrderlyExit PROVE Spec => []SavedIsComplete
  OBVIOUS
<1>1. JInv => SavedIsComplete
  BY DEF JInv, Dirs, DirAt, ExitInv, SavedIsComplete
<1> QED BY <1>1, SafetyInvariant, PTL

\* Two bags are never open at once and a directory is left alone while a thread writes into
\* it, whatever times out; when the executors wait for the callbacks they run.
THEOREM OpenBagIsSafeCorrect == OrderlyExit => (Spec => []OpenBagIsSafe)
<1> SUFFICES ASSUME OrderlyExit PROVE Spec => []OpenBagIsSafe
  OBVIOUS
<1>1. ASSUME JInv, NEW c \in Collections, Writing(c)
      PROVE  disk[c].where = "staging" /\ disk[c].intact
  <2>1. CASE Open
    BY <1>1, <2>1 DEF JInv, OpenInv, BagInv, BagAt
  <2>2. CASE ~Open
    BY <1>1, <2>2 DEF JInv, ExitInv
  <2> QED BY <2>1, <2>2
<1>2. ASSUME JInv, NEW c \in Collections, NEW d \in Collections, Writing(c), Writing(d)
      PROVE  c = d
  <2>1. CASE ~Open
    BY <1>2, <2>1 DEF JInv, ExitInv
  <2>2. CASE Open
    <3>1. PICK pc \in Steps, e \in Handles : LifeAt(pc, e)
      BY <1>2, <2>2, LifeNow
    <3>2. /\ c = active \/ (pc = "activate" /\ c = e)
          /\ d = active \/ (pc = "activate" /\ d = e)
      BY <1>2, <3>1 DEF LifeAt, OpenAt
    <3>3. pc = "activate" => active = None
      BY <3>1 DEF LifeAt, ThreadAt, RoleAt
    <3>4. c # None /\ d # None
      BY DEF Collections, None
    <3> QED BY <3>2, <3>3, <3>4
  <2> QED BY <2>1, <2>2
<1>3. JInv => OpenBagIsSafe
  BY <1>1, <1>2 DEF OpenBagIsSafe, OneBagOpen, BagHasDirectory, Writing
<1> QED BY <1>3, SafetyInvariant, PTL

\* Nothing is forgotten in the staging area: a whole directory there belongs to the active
\* collection or to a request that runs.  Nothing is assumed of the faults or of the exit.
THEOREM StagingIsHeldCorrect == Spec => []StagingIsHeld
<1>1. JInv => StagingIsHeld
  BY DEF JInv, OpenInv, BagInv, BagAt, StagingIsHeld, At
<1> QED BY <1>1, SafetyInvariant, PTL

\* Between requests the operator can go on: the state, the active collection and the
\* admission agree, and what waits in ERROR has not been published; unless the marker of a
\* directory that was moved cannot be removed.
THEOREM SettledCorrect == "marker" \notin Faults => (Spec => []Settled)
<1> SUFFICES ASSUME Reliable PROVE Spec => []Settled
  BY DEF Reliable
<1>1. ASSUME JInv, Open, InFlight \subseteq {w \in Workers : Deleting(w)}
      PROVE  /\ state \in {"idle", "recording", "pending", "error"}
             /\ active = None <=> state = "idle"
             /\ admitting <=> state = "recording"
             /\ state = "error" => ~Published(active)
  <2>1. TypeOK /\ SavedByThread
    BY <1>1 DEF JInv, IInv
  <2>2. \A w \in Workers : worker[w].pc \in {"idle", "trash", "rmdir"}
    BY <1>1 DEF InFlight, Deleting, At
  <2>3. \A w \in Workers : ~In(w, Lifecycle)
    BY <2>2 DEF In, Lifecycle, Starting, Stopping, Saving, Cancelling
  <2>4. StateInv /\ AdmitInv
    BY <1>1 DEF JInv, OpenInv
  <2>5. state \in {"idle", "recording", "pending", "error"}
    BY <2>1, <2>3, <2>4 DEF TypeOK, States, StateInv
  <2>6. active = None <=> state = "idle"
    BY <2>4, <2>5 DEF StateInv
  <2>7. admitting <=> state = "recording"
    BY <2>2, <2>4 DEF StateInv, AdmitInv, In
  <2>8. state = "error" => ~Published(active)
    BY <2>1, <2>2, <2>6 DEF SavedByThread, Published
  <2> QED BY <2>5, <2>6, <2>7, <2>8
<1>2. JInv => Settled
  BY <1>1 DEF Settled
<1> QED BY <1>2, SafetyInvariant, PTL

\* A log that has a message of a kind holds at least one.
LEMMA HoldsSome ==
  ASSUME TypeOK, NEW c \in Collections, NEW i \in 1 .. Len(log[c])
  PROVE  Holds(c, log[c][i].kind) > 0
<1> DEFINE S == {j \in DOMAIN log[c] : log[c][j].kind = log[c][i].kind}
<1>1. log[c] \in Seq(Messages)
  BY DEF TypeOK
<1>2. PICK n \in Nat : n = Len(log[c]) /\ DOMAIN log[c] = 1 .. n
  BY <1>1
<1>3. IsFiniteSet(1 .. n) /\ S \subseteq 1 .. n /\ i \in S
  BY <1>2, FS_Interval
<1>4. IsFiniteSet(S)
  BY <1>3, FS_Subset
<1>5. Cardinality(S) \in Nat /\ Cardinality(S) # 0
  BY <1>3, <1>4, FS_CardinalityType, FS_EmptySet
<1> QED BY <1>5 DEF Holds

\* With a keyframe at the start, a saved bag begins with START, the transform and a keyframe,
\* and the transform that is cached is in every bag being recorded; for any faults and exits.
THEOREM BagOpensCompleteCorrect == KeyframeStart => (Spec => []BagOpensComplete)
<1> SUFFICES ASSUME KeyframeStart PROVE Spec => []BagOpensComplete
  OBVIOUS
<1>1. ASSUME JInv, NEW c \in Collections, Published(c)
      PROVE  \E i \in DOMAIN log[c] :
               /\ log[c][i].kind = "keyframe"
               /\ \A j \in 1..(i - 1) : log[c][j].kind \in {"START", "tf"}
  <2>1. HeadOk(c) /\ log[c] \in Seq(Messages)
    BY <1>1 DEF JInv, Dirs, DirAt, IInv, TypeOK
  <2>2. DOMAIN log[c] = 1 .. Len(log[c])
    BY <2>1
  <2> QED BY <2>1, <2>2 DEF HeadOk
<1>2. ASSUME JInv, state = "recording", Open, tfCached, input.pc # "tf", writerError = ""
      PROVE  Holds(active, "tf") > 0
  <2>1. TypeOK /\ StateInv /\ AdmitInv /\ TfInv
    BY <1>2 DEF JInv, IInv, OpenInv
  <2>2. admitting
    BY <1>2, <2>1 DEF StateInv
  <2>3. PICK c \in Collections : c = active
    BY <2>1, <2>2 DEF TypeOK, Handles, AdmitInv
  <2>4. PICK i \in 1 .. Len(log[c]) : log[c][i].kind = "tf"
    BY <1>2, <2>1, <2>2, <2>3 DEF TfInv
  <2> QED BY <2>1, <2>3, <2>4, HoldsSome
<1>3. JInv => BagOpensComplete
  BY <1>1, <1>2 DEF BagOpensComplete, KeyframeFirst, TfReplayed
<1> QED BY <1>3, SafetyInvariant, PTL
=============================================================================
