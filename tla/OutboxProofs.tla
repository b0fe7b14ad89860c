---------------------------- MODULE OutboxProofs ----------------------------
(***************************************************************************)
(* For any rows, workers and bounds: when batches end within five minutes  *)
(* and windows outlast deliveries, a notice is in the hands of one worker, *)
(* what is marked sent was sent and stays sent, and attempts and sends are *)
(* bounded by the faults.                                                  *)
(*                                                                         *)
(* All of it rests on one fact: the row of a delivery is gone, or still as *)
(* its worker picked it, and in nobody else's hands.                       *)
(***************************************************************************)
EXTENDS NotificationOutbox, TLAPS

\* Batches end within their five minutes, and windows outlast deliveries.
Prompt == ~SlowBatches /\ ~ReuseUnsettled

-----------------------------------------------------------------------------
(* Types.                                                                  *)

LEMMA NoRowIsTyped ==
    /\ NoRow.status = "absent" /\ NoRow.attempts = 0 /\ NoRow.version = 0
    /\ ~NoRow.due /\ ~NoRow.stale
  BY DEF NoRow

LEMMA TaskIsNotDone == \A t \in Task : t # Done
  BY DEF Task, Done

LEMMA RowFields ==
    ASSUME TypeOK, NEW k \in Rows
    PROVE  /\ row[k] \in Row \cup {NoRow}
           /\ row[k].attempts \in Nat
           /\ row[k].version \in Nat
           /\ row[k].status # "absent" => row[k] \in Row
           /\ row[k].status \in Open \cup Settled => row[k] \in Row
  BY OutboxAssumption DEF TypeOK, Row, NoRow, Open, Settled, Versions

LEMMA HandTyped ==
    ASSUME TypeOK, NEW w \in Workers, NEW k \in Rows
    PROVE  Delivering(w, k) <=> task[w][k] \in Task
  BY TaskIsNotDone DEF TypeOK, Delivering, Done

\* One hand is rewritten.
Rewrites(w, k, t) == task' = [task EXCEPT ![w] = [task[w] EXCEPT ![k] = t]]

LEMMA HandRewritten ==
    ASSUME TypeOK, NEW w \in Workers, NEW k \in Rows, NEW t \in Task \cup {Done},
           Rewrites(w, k, t)
    PROVE  /\ task' \in [Workers -> [Rows -> Task \cup {Done}]]
           /\ task'[w][k] = t
           /\ \A v \in Workers, j \in Rows : v # w \/ j # k => task'[v][j] = task[v][j]
  BY DEF TypeOK, Rewrites

\* What Decide leaves in the hand of w.
Decided(w, k, verdict) == [task[w][k] EXCEPT !.pc = "mark", !.verdict = verdict]

LEMMA DecidedFields ==
    ASSUME TypeOK, NEW w \in Workers, NEW k \in Rows, Delivering(w, k),
           NEW verdict \in {"sent", "rejected", "unavailable"}
    PROVE  /\ Decided(w, k, verdict) \in Task
           /\ Decided(w, k, verdict).version = task[w][k].version
           /\ Decided(w, k, verdict).attempts = task[w][k].attempts
           /\ Decided(w, k, verdict).verdict = verdict
           /\ Decided(w, k, verdict).pc = "mark"
<1>1. task[w][k] \in Task
  BY HandTyped
<1> QED
  BY <1>1 DEF Task, Decided

LEMMA DecideTyped ==
    ASSUME TypeOK, NEW w \in Workers, NEW k \in Rows, Delivering(w, k),
           NEW verdict \in {"sent", "rejected", "unavailable"},
           task' = [task EXCEPT ![w] = [task[w] EXCEPT ![k] = Decided(w, k, verdict)]]
    PROVE  /\ task' \in [Workers -> [Rows -> Task \cup {Done}]]
           /\ task'[w][k] \in Task
           /\ task'[w][k].version = task[w][k].version
           /\ task'[w][k].attempts = task[w][k].attempts
           /\ task'[w][k].verdict = verdict
           /\ task'[w][k].pc = "mark"
           /\ \A v \in Workers, j \in Rows : v # w \/ j # k => task'[v][j] = task[v][j]
<1> DEFINE t == Decided(w, k, verdict)
<1>1. /\ t \in Task /\ t.version = task[w][k].version /\ t.attempts = task[w][k].attempts
      /\ t.verdict = verdict /\ t.pc = "mark"
  BY DecidedFields
<1>2. Rewrites(w, k, t)
  BY DEF Rewrites
<1> HIDE DEF t
<1>3. t \in Task \cup {Done}
  BY <1>1
<1>4. /\ task' \in [Workers -> [Rows -> Task \cup {Done}]]
      /\ task'[w][k] = t
      /\ \A v \in Workers, j \in Rows : v # w \/ j # k => task'[v][j] = task[v][j]
  BY <1>2, <1>3, HandRewritten
<1> QED
  BY <1>1, <1>4

-----------------------------------------------------------------------------
(* The invariant, row by row.                                              *)

\* A delivery that marks its row has a verdict.
Judged == \A w \in Workers, k \in Rows :
              task[w][k].pc = "mark" <=> task[w][k].verdict # "none"

Typed == TypeOK /\ Judged

\* The row of a delivery is gone with its recipient, or as it was picked.
AsPicked(w, k) ==
    \/ row[k] = NoRow /\ k \notin account
    \/ /\ row[k].status = "processing" /\ ~row[k].stale
       /\ row[k].version = task[w][k].version
       /\ row[k].attempts = task[w][k].attempts

\* How often the notice in the hands of w was sent.
SentByHand(w, k) ==
    LET sent == pushes[k][task[w][k].version] IN
    IF task[w][k].verdict = "sent" THEN sent > 0 ELSE sent <= faults

HandOK(w, k) ==
    Delivering(w, k) =>
        /\ \A v \in Workers : Delivering(v, k) => v = w
        /\ AsPicked(w, k)
        /\ task[w][k].version <= enqueues[k]
        /\ SentByHand(w, k)

\* A row that may be picked has an attempt left for each fault.
Pickable(k) ==
    row[k].status \in Open /\ ~InHand(k) =>
        /\ row[k].attempts < MaxAttempts + faults
        /\ pushes[k][row[k].version] <= faults

StoredOK(k) ==
    /\ row[k].version <= enqueues[k]
    /\ row[k].attempts <= MaxAttempts + faults
    /\ row[k].status = "sent" => pushes[k][row[k].version] > 0
    /\ Pickable(k)

PushesOK(k) ==
    \A v \in Versions : /\ pushes[k][v] <= 1 + faults
                        /\ v > enqueues[k] => pushes[k][v] = 0

RowOK(k) == (\A w \in Workers : HandOK(w, k)) /\ StoredOK(k) /\ PushesOK(k)

OutboxInv == Typed /\ \A k \in Rows : RowOK(k)

-----------------------------------------------------------------------------
(* Types are kept, whatever the constants say.                             *)

LEMMA InitTyped == Init => Typed
<1> SUFFICES ASSUME Init PROVE Typed
  OBVIOUS
<1>1. /\ \A w \in Workers, k \in Rows : task[w][k] = Done
      /\ Done.pc = "done" /\ Done.verdict = "none"
  BY DEF Init, Done
<1>2. Judged
  BY <1>1 DEF Judged
<1>3. TypeOK
  BY OutboxAssumption DEF Init, TypeOK, Versions
<1> QED
  BY <1>2, <1>3 DEF Typed

\* A row is rewritten, and nothing else of the worker's state.
LEMMA RowWritten ==
    ASSUME Typed, NEW k \in Rows, NEW r \in Row \cup {NoRow},
           row' = [row EXCEPT ![k] = r], UNCHANGED <<task, pushes>>,
           account' \subseteq Rows, allowed' \in [Rows -> BOOLEAN],
           enqueues' \in [Rows -> 0..MaxVersions], faults' \in 0..MaxFaults
    PROVE  Typed'
  BY DEF Typed, TypeOK, Judged

LEMMA EnqueueTyped == \A k \in Rows : Typed /\ Enqueue(k) => Typed'
<1> SUFFICES ASSUME NEW k \in Rows, Typed, Enqueue(k) PROVE Typed'
  OBVIOUS
<1> DEFINE r == [status |-> "pending", attempts |-> 0, version |-> enqueues[k] + 1,
                 due |-> TRUE, stale |-> FALSE]
<1>1. enqueues[k] + 1 \in Versions
  BY OutboxAssumption DEF Typed, TypeOK, Enqueue, Versions
<1>2. r \in Row
  BY <1>1 DEF Row, Open
<1>3. enqueues' \in [Rows -> 0..MaxVersions]
  BY <1>1, OutboxAssumption DEF Typed, TypeOK, Enqueue, Versions
<1>4. row' = [row EXCEPT ![k] = r]
  BY DEF Enqueue
<1> HIDE DEF r
<1> QED
  BY <1>2, <1>3, <1>4, RowWritten DEF Enqueue, Typed, TypeOK

LEMMA ClockTyped ==
    \A k \in Rows : Typed /\ (BecomesDue(k) \/ LockAges(k)) => Typed'
<1> SUFFICES ASSUME NEW k \in Rows, Typed PROVE BecomesDue(k) \/ LockAges(k) => Typed'
  OBVIOUS
<1>1. CASE BecomesDue(k)
  <2> DEFINE r == [row[k] EXCEPT !.due = TRUE]
  <2>1. row[k] \in Row
    BY <1>1, RowFields DEF Typed, BecomesDue
  <2>2. r \in Row
    BY <2>1 DEF Row
  <2>3. row' = [row EXCEPT ![k] = r]
    BY <1>1 DEF BecomesDue
  <2> HIDE DEF r
  <2> QED
    BY <1>1, <2>2, <2>3, RowWritten DEF BecomesDue, Typed, TypeOK
<1>2. CASE LockAges(k)
  <2> DEFINE r == [row[k] EXCEPT !.stale = TRUE]
  <2>1. row[k] \in Row
    BY <1>2, RowFields DEF Typed, LockAges
  <2>2. r \in Row
    BY <2>1 DEF Row
  <2>3. row' = [row EXCEPT ![k] = r]
    BY <1>2 DEF LockAges
  <2>4. faults' \in 0..MaxFaults
    BY <1>2, OutboxAssumption DEF LockAges, Fault, Typed, TypeOK
  <2> HIDE DEF r
  <2> QED
    BY <1>2, <2>2, <2>3, <2>4, RowWritten DEF LockAges, Typed, TypeOK
<1> QED
  BY <1>1, <1>2

LEMMA OutsideTyped ==
    \A k \in Rows : Typed /\ (ContactChanges(k) \/ DeleteRecipient(k)) => Typed'
<1> SUFFICES ASSUME NEW k \in Rows, Typed
             PROVE  ContactChanges(k) \/ DeleteRecipient(k) => Typed'
  OBVIOUS
<1>1. CASE ContactChanges(k)
  BY <1>1 DEF ContactChanges, Typed, TypeOK, Judged
<1>2. CASE DeleteRecipient(k)
  BY <1>2, RowWritten DEF DeleteRecipient, Typed, TypeOK
<1> QED
  BY <1>1, <1>2

\* What Pick makes of row k, and of the worker's hand.
Picked(k) == [row[k] EXCEPT !.status = "processing", !.attempts = @ + 1, !.stale = FALSE]
InTheBatch(k) == [pc |-> "picked", version |-> row[k].version,
                  attempts |-> row[k].attempts + 1, verdict |-> "none"]

LEMMA BatchIsReady ==
    ASSUME Typed, NEW k \in Batch
    PROVE  k \in Rows /\ Ready(k) /\ row[k] \in Row
<1>1. k \in Rows /\ Ready(k)
  BY DEF Batch
<1>2. row[k].status # "absent"
  BY <1>1 DEF Ready
<1> QED
  BY <1>1, <1>2, RowFields DEF Typed

LEMMA PickedFields ==
    ASSUME NEW k, row[k] \in Row
    PROVE  /\ Picked(k) \in Row
           /\ Picked(k).status = "processing" /\ ~Picked(k).stale
           /\ Picked(k).attempts = row[k].attempts + 1
           /\ Picked(k).version = row[k].version
           /\ InTheBatch(k) \in Task
           /\ InTheBatch(k).version = row[k].version
           /\ InTheBatch(k).attempts = row[k].attempts + 1
           /\ InTheBatch(k).pc = "picked" /\ InTheBatch(k).verdict = "none"
<1>1. row[k].attempts + 1 \in Nat /\ row[k].version \in Versions
  BY DEF Row
<1> QED
  BY <1>1 DEF Row, Open, Picked, InTheBatch, Task

LEMMA PickTyped == \A w \in Workers : Typed /\ Pick(w) => Typed'
<1> SUFFICES ASSUME NEW w \in Workers, Typed, Pick(w) PROVE Typed'
  OBVIOUS
<1>1. PICK purged \in SUBSET {k \in Rows : row[k].status \in Settled /\ ~InHand(k)} :
         row' = [k \in Rows |-> CASE k \in purged -> NoRow
                                  [] k \in Batch -> Picked(k)
                                  [] OTHER -> row[k]]
  BY DEF Pick, Picked
<1>2. task' = [task EXCEPT ![w] = [k \in Rows |->
                 IF k \in Batch THEN InTheBatch(k) ELSE Done]]
  BY DEF Pick, InTheBatch
<1>3. \A k \in Batch : row[k] \in Row
  BY BatchIsReady
<1>4. \A k \in Batch : Picked(k) \in Row /\ InTheBatch(k) \in Task
                       /\ InTheBatch(k).pc = "picked" /\ InTheBatch(k).verdict = "none"
  BY <1>3, PickedFields
<1>5. \A k \in Rows : row'[k] = NoRow \/ row'[k] = row[k] \/ (k \in Batch /\ row'[k] = Picked(k))
  BY <1>1
<1>6. row' \in [Rows -> Row \cup {NoRow}]
  BY <1>1, <1>4, <1>5 DEF Typed, TypeOK
<1>7. /\ task' \in [Workers -> [Rows -> Task \cup {Done}]]
      /\ \A k \in Rows : task'[w][k] = IF k \in Batch THEN InTheBatch(k) ELSE Done
      /\ \A v \in Workers, k \in Rows : v # w => task'[v][k] = task[v][k]
  BY <1>2, <1>4 DEF Typed, TypeOK
<1>8. Done.pc = "done" /\ Done.verdict = "none"
  BY DEF Done
<1>9. Judged'
  <2> SUFFICES ASSUME NEW v \in Workers, NEW k \in Rows
               PROVE  task'[v][k].pc = "mark" <=> task'[v][k].verdict # "none"
    BY DEF Judged
  <2>1. CASE v # w
    BY <2>1, <1>7 DEF Typed, Judged
  <2>2. CASE v = w
    BY <2>2, <1>4, <1>7, <1>8
  <2> QED
    BY <2>1, <2>2
<1> QED
  BY <1>6, <1>7, <1>9 DEF Pick, Typed, TypeOK

\* A delivery is over: its hand is empty, and its row as r says.
LEMMA HandEmptied ==
    ASSUME Typed, NEW w \in Workers, NEW k \in Rows, task' = [task EXCEPT ![w][k] = Done]
    PROVE  /\ task' \in [Workers -> [Rows -> Task \cup {Done}]]
           /\ Judged'
           /\ task'[w][k] = Done
           /\ \A v \in Workers, j \in Rows : v # w \/ j # k => task'[v][j] = task[v][j]
<1>1. Done.pc = "done" /\ Done.verdict = "none"
  BY DEF Done
<1>2. /\ task' \in [Workers -> [Rows -> Task \cup {Done}]]
      /\ task'[w][k] = Done
      /\ \A v \in Workers, j \in Rows : v # w \/ j # k => task'[v][j] = task[v][j]
  BY DEF Typed, TypeOK
<1> QED
  BY <1>1, <1>2 DEF Typed, Judged

\* A delivery under way is not Done.
LEMMA AtWork ==
    ASSUME Typed, NEW w \in Workers, NEW k \in Rows, task[w][k].pc \in {"picked", "send", "mark"}
    PROVE  Delivering(w, k) /\ task[w][k] \in Task
  BY HandTyped DEF Typed, Delivering, Done

LEMMA DecidedTyped ==
    ASSUME Typed, NEW w \in Workers, NEW k \in Rows, Delivering(w, k),
           NEW verdict \in {"sent", "rejected", "unavailable"}, Decide(w, k, verdict)
    PROVE  task' \in [Workers -> [Rows -> Task \cup {Done}]] /\ Judged'
<1> DEFINE t == Decided(w, k, verdict)
<1>1. TypeOK
  BY DEF Typed
<1>2. t \in Task /\ t.verdict = verdict /\ t.pc = "mark"
  BY <1>1, DecidedFields
<1>3. Rewrites(w, k, t)
  BY <1>1 DEF Decide, Decided, TypeOK, Rewrites
<1> HIDE DEF t
<1>4. t \in Task \cup {Done}
  BY <1>2
<1>5. /\ task' \in [Workers -> [Rows -> Task \cup {Done}]]
      /\ task'[w][k] = t
      /\ \A v \in Workers, j \in Rows : v # w \/ j # k => task'[v][j] = task[v][j]
  BY <1>1, <1>3, <1>4, HandRewritten
<1> QED
  BY <1>2, <1>5 DEF Typed, Judged

\* The contact check lets a delivery go on.
LEMMA PassTyped ==
    ASSUME Typed, NEW w \in Workers, NEW k \in Rows, task[w][k].pc = "picked",
           task' = [task EXCEPT ![w][k].pc = "send"]
    PROVE  /\ task' \in [Workers -> [Rows -> Task \cup {Done}]]
           /\ Judged'
           /\ task'[w][k] \in Task
           /\ task'[w][k].version = task[w][k].version
           /\ task'[w][k].attempts = task[w][k].attempts
           /\ task'[w][k].verdict = task[w][k].verdict
           /\ task'[w][k].pc = "send"
           /\ \A v \in Workers, j \in Rows : v # w \/ j # k => task'[v][j] = task[v][j]
<1> DEFINE t == [task[w][k] EXCEPT !.pc = "send"]
<1>1. task \in [Workers -> [Rows -> Task \cup {Done}]] /\ task[w][k] \in Task
  BY AtWork DEF Typed, TypeOK
<1>2. t \in Task /\ t.version = task[w][k].version /\ t.attempts = task[w][k].attempts
      /\ t.verdict = task[w][k].verdict /\ t.pc = "send"
  BY <1>1 DEF Task
<1>3. task' = [task EXCEPT ![w] = [task[w] EXCEPT ![k] = t]]
  BY <1>1
<1> HIDE DEF t
<1>4. /\ task' \in [Workers -> [Rows -> Task \cup {Done}]]
      /\ task'[w][k] = t
      /\ \A v \in Workers, j \in Rows : v # w \/ j # k => task'[v][j] = task[v][j]
  BY <1>1, <1>2, <1>3
<1>5. Judged'
  BY <1>2, <1>4 DEF Typed, Judged
<1> QED
  BY <1>2, <1>4, <1>5 DEF t

LEMMA CheckTyped == \A w \in Workers, k \in Rows : Typed /\ Check(w, k) => Typed'
<1> SUFFICES ASSUME NEW w \in Workers, NEW k \in Rows, Typed, Check(w, k) PROVE Typed'
  OBVIOUS
<1>1. task[w][k].pc = "picked" /\ Delivering(w, k)
  BY AtWork DEF Check
<1>2. task' \in [Workers -> [Rows -> Task \cup {Done}]] /\ Judged'
  <2>1. CASE task' = [task EXCEPT ![w][k].pc = "send"]
    BY <1>1, <2>1, PassTyped
  <2>2. CASE Decide(w, k, "unavailable") \/ Decide(w, k, "rejected")
    BY <1>1, <2>2, DecidedTyped
  <2> QED
    BY <2>1, <2>2 DEF Check
<1> QED
  BY <1>2 DEF Check, Typed, TypeOK

LEMMA SendTyped == \A w \in Workers, k \in Rows : Typed /\ Send(w, k) => Typed'
<1> SUFFICES ASSUME NEW w \in Workers, NEW k \in Rows, Typed, Send(w, k) PROVE Typed'
  OBVIOUS
<1>1. Delivering(w, k) /\ task[w][k] \in Task
  BY AtWork DEF Send
<1>2. task' \in [Workers -> [Rows -> Task \cup {Done}]] /\ Judged'
  <2>1. Decide(w, k, "sent") \/ Decide(w, k, "rejected")
    BY DEF Send
  <2> QED
    BY <1>1, <2>1, DecidedTyped
<1>3. pushes' \in [Rows -> [Versions -> Nat]]
  <2> DEFINE version == task[w][k].version
             of == [pushes[k] EXCEPT ![version] = pushes[k][version] + 1]
  <2>1. version \in Versions /\ pushes \in [Rows -> [Versions -> Nat]]
    BY <1>1 DEF Task, Typed, TypeOK
  <2>2. pushes' = [pushes EXCEPT ![k] = of] \/ pushes' = pushes
    BY <2>1 DEF Send
  <2> HIDE DEF version
  <2>3. pushes[k] \in [Versions -> Nat] /\ pushes[k][version] \in Nat
    BY <2>1
  <2>4. pushes[k][version] + 1 \in Nat
    BY <2>3
  <2>5. of \in [Versions -> Nat]
    BY <2>3, <2>4
  <2> HIDE DEF of
  <2> QED
    BY <2>1, <2>2, <2>5
<1> QED
  BY <1>2, <1>3 DEF Send, Typed, TypeOK

\* What Mark writes.
LEMMA MarkedFields ==
    ASSUME Typed, NEW w \in Workers, NEW k \in Rows, Mark(w, k), row[k] # NoRow
    PROVE  /\ row[k] \in Row
           /\ row'[k] \in Row
           /\ row'[k].status = StatusAfter(task[w][k])
           /\ row'[k].status \in {"sent", "dead", "retry"}
           /\ row'[k].version = row[k].version
           /\ row'[k].attempts = row[k].attempts
<1> DEFINE t == task[w][k]
           r == [row[k] EXCEPT !.status = StatusAfter(t), !.stale = FALSE,
                               !.due = @ /\ t.verdict # "rejected"]
<1>1. row[k] \in Row
  BY DEF Typed, TypeOK
<1>2. t \in Task /\ t.verdict \in {"sent", "rejected", "unavailable"}
  BY AtWork DEF Mark, Typed, Judged, Task
<1>3. StatusAfter(t) \in {"sent", "dead", "retry"}
  BY <1>2 DEF StatusAfter
<1>4. r \in Row /\ r.status = StatusAfter(t) /\ r.version = row[k].version
      /\ r.attempts = row[k].attempts
  BY <1>1, <1>3 DEF Row, Open, Settled
<1>5. row'[k] = r
  BY DEF Mark, Updated, Typed, TypeOK
<1> QED
  BY <1>1, <1>3, <1>4, <1>5

LEMMA MarkTyped == \A w \in Workers, k \in Rows : Typed /\ Mark(w, k) => Typed'
<1> SUFFICES ASSUME NEW w \in Workers, NEW k \in Rows, Typed, Mark(w, k) PROVE Typed'
  OBVIOUS
<1>1. row'[k] \in Row \cup {NoRow}
  <2>1. CASE row[k] # NoRow
    BY <2>1, MarkedFields
  <2>2. CASE row[k] = NoRow
    BY <2>2 DEF Mark, Updated, Typed, TypeOK
  <2> QED
    BY <2>1, <2>2
<1>2. row' \in [Rows -> Row \cup {NoRow}]
  BY <1>1 DEF Mark, Typed, TypeOK
<1>3. task' \in [Workers -> [Rows -> Task \cup {Done}]] /\ Judged'
  BY HandEmptied DEF Mark
<1> QED
  BY <1>2, <1>3 DEF Mark, Typed, TypeOK

LEMMA FaultTyped ==
    ASSUME Typed, Fault
    PROVE  faults' \in 0..MaxFaults /\ faults' = faults + 1
  BY OutboxAssumption DEF Typed, TypeOK, Fault

LEMMA MarkFailsTyped == \A w \in Workers, k \in Rows : Typed /\ MarkFails(w, k) => Typed'
<1> SUFFICES ASSUME NEW w \in Workers, NEW k \in Rows, Typed, MarkFails(w, k) PROVE Typed'
  OBVIOUS
<1>1. task' \in [Workers -> [Rows -> Task \cup {Done}]] /\ Judged'
  BY HandEmptied DEF MarkFails
<1>2. faults' \in 0..MaxFaults
  BY FaultTyped DEF MarkFails
<1> QED
  BY <1>1, <1>2 DEF MarkFails, Typed, TypeOK

LEMMA CrashTyped == \A w \in Workers : Typed /\ Crash(w) => Typed'
<1> SUFFICES ASSUME NEW w \in Workers, Typed, Crash(w) PROVE Typed'
  OBVIOUS
<1>1. Done.pc = "done" /\ Done.verdict = "none"
  BY DEF Done
<1>2. /\ task' \in [Workers -> [Rows -> Task \cup {Done}]]
      /\ \A k \in Rows : task'[w][k] = Done
      /\ \A v \in Workers, k \in Rows : v # w => task'[v][k] = task[v][k]
  BY DEF Crash, Typed, TypeOK
<1>3. Judged'
  BY <1>1, <1>2 DEF Typed, Judged
<1>4. faults' \in 0..MaxFaults
  BY FaultTyped DEF Crash
<1> QED
  BY <1>2, <1>3, <1>4 DEF Crash, Typed, TypeOK

LEMMA NextTyped == Typed /\ [Next]_vars => Typed'
<1> SUFFICES ASSUME Typed, [Next]_vars PROVE Typed'
  OBVIOUS
<1>1. CASE UNCHANGED vars
  BY <1>1 DEF vars, Typed, TypeOK, Judged
<1>2. CASE \E k \in Rows : \/ Enqueue(k) \/ BecomesDue(k) \/ LockAges(k)
                           \/ ContactChanges(k) \/ DeleteRecipient(k)
  BY <1>2, EnqueueTyped, ClockTyped, OutsideTyped
<1>3. CASE \E w \in Workers : Pick(w) \/ Crash(w)
  BY <1>3, PickTyped, CrashTyped
<1>4. CASE \E w \in Workers, k \in Rows : Deliver(w, k) \/ MarkFails(w, k)
  BY <1>4, CheckTyped, SendTyped, MarkTyped, MarkFailsTyped DEF Deliver
<1> QED
  BY <1>1, <1>2, <1>3, <1>4 DEF Next

\* The variables have their types, and a delivery that marks its row has a
\* verdict to write: the CASE of deliver_row on the outcome covers it. This
\* holds also when batches are slow and windows short.
THEOREM OutboxTyped == Spec => []TypeOK
<1>1. Typed => TypeOK
  BY DEF Typed
<1> QED
  BY <1>1, InitTyped, NextTyped, PTL DEF Spec

-----------------------------------------------------------------------------
(* The invariant is kept while batches are prompt.                         *)

LEMMA Numbers ==
    ASSUME Typed, NEW k \in Rows
    PROVE  /\ faults \in Nat
           /\ enqueues[k] \in Nat
           /\ row[k].attempts \in Nat /\ row[k].version \in Nat
           /\ \A v \in Versions : v \in Nat /\ pushes[k][v] \in Nat
           /\ row[k].status # "absent" => row[k].version \in Versions
           /\ \A w \in Workers : Delivering(w, k) =>
                 /\ task[w][k] \in Task
                 /\ task[w][k].version \in Versions
                 /\ task[w][k].attempts \in Nat
<1>1. TypeOK
  BY DEF Typed
<1>2. /\ row[k].attempts \in Nat /\ row[k].version \in Nat
      /\ row[k].status # "absent" => row[k].version \in Versions
  BY <1>1, RowFields DEF Row
<1>3. \A w \in Workers : Delivering(w, k) =>
          /\ task[w][k] \in Task
          /\ task[w][k].version \in Versions
          /\ task[w][k].attempts \in Nat
  BY <1>1, HandTyped DEF Task
<1> QED
  BY <1>1, <1>2, <1>3, OutboxAssumption DEF TypeOK, Versions

LEMMA InitOK == Init => OutboxInv
<1> SUFFICES ASSUME Init PROVE OutboxInv
  OBVIOUS
<1>1. Typed
  BY InitTyped
<1>2. \A k \in Rows, w \in Workers : ~Delivering(w, k)
  BY DEF Init, Delivering
<1>3. \A k \in Rows : StoredOK(k) /\ PushesOK(k)
  BY NoRowIsTyped, OutboxAssumption DEF Init, StoredOK, Pickable, PushesOK, Open, Versions
<1> QED
  BY <1>1, <1>2, <1>3 DEF OutboxInv, RowOK, HandOK

\* A row that a step leaves alone, but for a fault elsewhere.
LEMMA RowLeftAlone ==
    ASSUME Typed, Typed', NEW k \in Rows, RowOK(k),
           row'[k] = row[k], enqueues'[k] = enqueues[k], pushes'[k] = pushes[k],
           \A w \in Workers : task'[w][k] = task[w][k],
           k \in account' => k \in account, faults' >= faults
    PROVE  RowOK(k)'
<1>1. /\ faults \in Nat /\ faults' \in Nat
      /\ enqueues[k] \in Nat /\ row[k].attempts \in Nat /\ row[k].version \in Nat
      /\ \A v \in Versions : v \in Nat /\ pushes[k][v] \in Nat
      /\ row[k].status # "absent" => row[k].version \in Versions
      /\ \A w \in Workers : Delivering(w, k) => task[w][k].version \in Versions
  BY Numbers DEF Typed, TypeOK
<1>2. (\A w \in Workers : Delivering(w, k)' = Delivering(w, k)) /\ InHand(k)' = InHand(k)
  BY DEF Delivering, InHand
<1>3. \A w \in Workers : HandOK(w, k)'
  BY <1>1, <1>2 DEF RowOK, HandOK, AsPicked, SentByHand
<1>4. StoredOK(k)'
  BY <1>1, <1>2, OutboxAssumption DEF RowOK, StoredOK, Pickable, Open
<1>5. PushesOK(k)'
  BY <1>1 DEF RowOK, PushesOK
<1> QED
  BY <1>3, <1>4, <1>5 DEF RowOK

\* The steps of one row leave the others alone.
LEMMA OneRow ==
    ASSUME OutboxInv, Typed', NEW k \in Rows, RowOK(k)', faults' >= faults,
           \A j \in Rows : j # k =>
               /\ row'[j] = row[j] /\ enqueues'[j] = enqueues[j] /\ pushes'[j] = pushes[j]
               /\ \A w \in Workers : task'[w][j] = task[w][j]
               /\ j \in account' => j \in account
    PROVE  OutboxInv'
<1>1. \A j \in Rows : j # k => RowOK(j)'
  BY RowLeftAlone DEF OutboxInv
<1> QED
  BY <1>1 DEF OutboxInv

\* A row that is not being processed, or whose lock is stale, is in no hands.
LEMMA IdleRow ==
    ASSUME NEW k \in Rows, RowOK(k), row[k] # NoRow \/ k \in account,
           row[k].status # "processing" \/ row[k].stale
    PROVE  ~InHand(k)
  BY DEF RowOK, HandOK, AsPicked, InHand

LEMMA EnqueueOK ==
    \A k \in Rows : Prompt /\ OutboxInv /\ Typed' /\ Enqueue(k) => OutboxInv'
<1> SUFFICES ASSUME NEW k \in Rows, Prompt, OutboxInv, Typed', Enqueue(k) PROVE OutboxInv'
  OBVIOUS
<1>1. RowOK(k) /\ Typed
  BY DEF OutboxInv
<1>2. row[k].status \notin Open /\ k \in account
  BY DEF Enqueue, Prompt
<1>3. ~InHand(k)
  BY <1>1, <1>2, IdleRow DEF Open
<1>4. \A w \in Workers : ~Delivering(w, k)'
  BY <1>3 DEF Enqueue, InHand, Delivering
<1>5. /\ row'[k].status = "pending" /\ row'[k].attempts = 0
      /\ row'[k].version = enqueues[k] + 1 /\ enqueues'[k] = enqueues[k] + 1
  BY <1>1 DEF Enqueue, Typed, TypeOK
<1>6. enqueues[k] \in Nat /\ enqueues[k] + 1 \in Versions /\ faults \in Nat
  BY <1>1, OutboxAssumption DEF Enqueue, Typed, TypeOK, Versions
<1>7. /\ pushes' = pushes /\ faults' = faults
      /\ \A v \in Versions : v \in Nat /\ pushes[k][v] \in Nat
  BY <1>1, Numbers DEF Enqueue
<1>8. StoredOK(k)'
  BY <1>1, <1>5, <1>6, <1>7, OutboxAssumption DEF RowOK, StoredOK, Pickable, PushesOK
<1>9. PushesOK(k)'
  BY <1>1, <1>5, <1>6, <1>7 DEF RowOK, PushesOK
<1>10. RowOK(k)'
  BY <1>4, <1>8, <1>9 DEF RowOK, HandOK
<1> QED
  BY <1>1, <1>6, <1>10, OneRow DEF Enqueue, Typed, TypeOK

\* Time goes by for a row in no hands.
LEMMA IdleRowAges ==
    ASSUME NEW k \in Rows, Typed, RowOK(k), ~InHand(k),
           row'[k].status = row[k].status, row'[k].version = row[k].version,
           row'[k].attempts = row[k].attempts, UNCHANGED <<task, enqueues, pushes, faults>>
    PROVE  RowOK(k)'
<1>1. ~InHand(k)' /\ \A w \in Workers : ~Delivering(w, k)'
  BY DEF InHand, Delivering
<1> QED
  BY <1>1 DEF RowOK, HandOK, StoredOK, Pickable, PushesOK

LEMMA ClockOK ==
    \A k \in Rows : Prompt /\ OutboxInv /\ Typed' /\ (BecomesDue(k) \/ LockAges(k)) => OutboxInv'
<1> SUFFICES ASSUME NEW k \in Rows, Prompt, OutboxInv, Typed', BecomesDue(k) \/ LockAges(k)
             PROVE  OutboxInv'
  OBVIOUS
<1>1. RowOK(k) /\ Typed
  BY DEF OutboxInv
<1>2. /\ row[k].status # "absent"
      /\ UNCHANGED <<task, account, enqueues, pushes, faults>>
      /\ ~InHand(k)
  <2>1. CASE BecomesDue(k)
    BY <1>1, <2>1, IdleRow, NoRowIsTyped DEF BecomesDue
  <2>2. CASE LockAges(k)
    BY <2>2 DEF LockAges, Prompt
  <2> QED
    BY <2>1, <2>2
<1>3. row[k] \in Row /\ row \in [Rows -> Row \cup {NoRow}]
  BY <1>1, <1>2, RowFields DEF Typed, TypeOK
<1>4. /\ row'[k].status = row[k].status /\ row'[k].version = row[k].version
      /\ row'[k].attempts = row[k].attempts
      /\ \A j \in Rows : j # k => row'[j] = row[j]
  BY <1>3 DEF BecomesDue, LockAges, Row
<1>5. RowOK(k)'
  BY <1>1, <1>2, <1>4, IdleRowAges
<1> QED
  BY <1>1, <1>2, <1>4, <1>5, OneRow DEF Typed, TypeOK

LEMMA ContactChangesOK ==
    \A k \in Rows : OutboxInv /\ Typed' /\ ContactChanges(k) => OutboxInv'
<1> SUFFICES ASSUME NEW k \in Rows, OutboxInv, Typed', ContactChanges(k) PROVE OutboxInv'
  OBVIOUS
<1>1. faults' >= faults
  BY DEF ContactChanges, OutboxInv, Typed, TypeOK
<1>2. \A j \in Rows : RowOK(j)'
  BY <1>1, RowLeftAlone DEF ContactChanges, OutboxInv
<1> QED
  BY <1>2 DEF OutboxInv

LEMMA DeleteRecipientOK ==
    \A k \in Rows : OutboxInv /\ Typed' /\ DeleteRecipient(k) => OutboxInv'
<1> SUFFICES ASSUME NEW k \in Rows, OutboxInv, Typed', DeleteRecipient(k) PROVE OutboxInv'
  OBVIOUS
<1>1. RowOK(k) /\ Typed
  BY DEF OutboxInv
<1>2. row'[k] = NoRow /\ k \notin account'
  BY <1>1 DEF DeleteRecipient, Typed, TypeOK
<1>3. \A w \in Workers : HandOK(w, k)'
  BY <1>1, <1>2 DEF DeleteRecipient, RowOK, HandOK, AsPicked, SentByHand, Delivering
<1>4. StoredOK(k)'
  BY <1>1, <1>2, NoRowIsTyped, Numbers, OutboxAssumption
     DEF DeleteRecipient, StoredOK, Pickable, Open
<1>5. PushesOK(k)'
  BY <1>1 DEF DeleteRecipient, RowOK, PushesOK
<1>6. RowOK(k)'
  BY <1>3, <1>4, <1>5 DEF RowOK
<1> QED
  BY <1>1, <1>6, OneRow DEF DeleteRecipient, Typed, TypeOK

\* A row that a worker picks was in no hands, and had an attempt left.
LEMMA PickedOK ==
    ASSUME NEW w \in Workers, NEW k \in Rows, Typed, Typed', RowOK(k), k \in Batch,
           row'[k] = Picked(k), task'[w][k] = InTheBatch(k),
           \A v \in Workers : v # w => task'[v][k] = task[v][k],
           UNCHANGED <<account, enqueues, pushes, faults>>
    PROVE  RowOK(k)'
<1>1. Ready(k) /\ row[k] \in Row /\ row[k].status \in Open
  BY BatchIsReady DEF Ready, Open
<1>2. row[k] # NoRow
  BY <1>1, NoRowIsTyped DEF Open
<1>3. ~InHand(k)
  BY <1>1, <1>2, IdleRow DEF Ready
<1>4. \A v \in Workers : Delivering(v, k)' => v = w
  BY <1>3 DEF InHand, Delivering
<1>5. /\ row'[k].status = "processing" /\ ~row'[k].stale
      /\ row'[k].attempts = row[k].attempts + 1 /\ row'[k].version = row[k].version
      /\ task'[w][k].version = row[k].version /\ task'[w][k].attempts = row[k].attempts + 1
      /\ task'[w][k].verdict = "none"
      /\ task'[w][k] # Done
  BY <1>1, PickedFields, TaskIsNotDone
<1>6. InHand(k)' /\ Delivering(w, k)'
  BY <1>5 DEF InHand, Delivering
<1>7. row[k].attempts < MaxAttempts + faults /\ pushes[k][row[k].version] <= faults
  BY <1>1, <1>3 DEF RowOK, StoredOK, Pickable
<1>8. \A v \in Workers : HandOK(v, k)'
  BY <1>4, <1>5, <1>7 DEF RowOK, HandOK, AsPicked, SentByHand, StoredOK
<1>9. StoredOK(k)'
  BY <1>5, <1>6, <1>7, Numbers, OutboxAssumption DEF RowOK, StoredOK, Pickable
<1>10. PushesOK(k)'
  BY DEF RowOK, PushesOK
<1> QED
  BY <1>8, <1>9, <1>10 DEF RowOK

\* A settled row in no hands that is purged.
LEMMA PurgedOK ==
    ASSUME NEW k \in Rows, Typed, RowOK(k), ~InHand(k), row'[k] = NoRow,
           \A v \in Workers : task'[v][k] = task[v][k],
           UNCHANGED <<enqueues, pushes, faults>>
    PROVE  RowOK(k)'
<1>1. \A v \in Workers : ~Delivering(v, k)'
  BY DEF InHand, Delivering
<1>2. StoredOK(k)'
  BY NoRowIsTyped, Numbers, OutboxAssumption DEF StoredOK, Pickable, Open
<1> QED
  BY <1>1, <1>2 DEF RowOK, HandOK, PushesOK

LEMMA PickOK == \A w \in Workers : OutboxInv /\ Typed' /\ Pick(w) => OutboxInv'
<1> SUFFICES ASSUME NEW w \in Workers, OutboxInv, Typed', Pick(w), NEW k \in Rows
             PROVE  RowOK(k)'
  BY DEF OutboxInv
<1>1. RowOK(k) /\ Typed /\ UNCHANGED <<account, enqueues, pushes, faults>>
  BY DEF OutboxInv, Pick
<1>2. PICK purged \in SUBSET {j \in Rows : row[j].status \in Settled /\ ~InHand(j)} :
         row' = [j \in Rows |-> CASE j \in purged -> NoRow
                                  [] j \in Batch -> Picked(j)
                                  [] OTHER -> row[j]]
  BY DEF Pick, Picked
<1>3. task' = [task EXCEPT ![w] = [j \in Rows |->
                 IF j \in Batch THEN InTheBatch(j) ELSE Done]]
  BY DEF Pick, InTheBatch
<1>4. /\ task'[w][k] = IF k \in Batch THEN InTheBatch(k) ELSE Done
      /\ \A v \in Workers : v # w => task'[v][k] = task[v][k]
      /\ task[w][k] = Done
  <2>1. task[w][k] = Done
    BY DEF Pick, Delivering
  <2>2. task \in [Workers -> [Rows -> Task \cup {Done}]]
    BY <1>1 DEF Typed, TypeOK
  <2> QED
    BY <1>3, <2>1, <2>2
<1>5. CASE k \in Batch
  <2>1. row[k].status \notin Settled
    BY <1>1, <1>5, BatchIsReady DEF Ready, Settled
  <2>2. row'[k] = Picked(k)
    BY <1>2, <1>5, <2>1
  <2> QED
    BY <1>1, <1>4, <1>5, <2>2, PickedOK
<1>6. CASE k \notin Batch /\ k \in purged
  <2>1. row'[k] = NoRow /\ ~InHand(k)
    BY <1>2, <1>6
  <2>2. \A v \in Workers : task'[v][k] = task[v][k]
    BY <1>4, <1>6
  <2> QED
    BY <1>1, <2>1, <2>2, PurgedOK
<1>7. CASE k \notin Batch /\ k \notin purged
  <2>1. row'[k] = row[k]
    BY <1>2, <1>7
  <2>2. \A v \in Workers : task'[v][k] = task[v][k]
    BY <1>4, <1>7
  <2>3. faults' >= faults
    BY <1>1, Numbers
  <2> QED
    BY <1>1, <2>1, <2>2, <2>3, RowLeftAlone
<1> QED
  BY <1>5, <1>6, <1>7

\* A delivery goes on: the row stays as it is, and its hand keeps what it holds.
LEMMA HandKept ==
    ASSUME NEW w \in Workers, NEW k \in Rows, Typed, RowOK(k), Delivering(w, k),
           task'[w][k] # Done, task'[w][k].version = task[w][k].version,
           task'[w][k].attempts = task[w][k].attempts,
           \A v \in Workers : v # w => task'[v][k] = task[v][k],
           UNCHANGED <<row, account, enqueues, faults>>,
           SentByHand(w, k)', PushesOK(k)',
           row[k].status = "sent" => pushes'[k][row[k].version] > 0
    PROVE  RowOK(k)'
<1>1. \A v \in Workers : Delivering(v, k)' <=> v = w
  BY DEF RowOK, HandOK, Delivering
<1>2. \A v \in Workers : HandOK(v, k)'
  BY <1>1 DEF RowOK, HandOK, AsPicked
<1>3. InHand(k)'
  BY <1>1 DEF InHand
<1>4. StoredOK(k)'
  BY <1>3 DEF RowOK, StoredOK, Pickable
<1> QED
  BY <1>2, <1>4 DEF RowOK

LEMMA CheckOK == \A w \in Workers, k \in Rows : OutboxInv /\ Typed' /\ Check(w, k) => OutboxInv'
<1> SUFFICES ASSUME NEW w \in Workers, NEW k \in Rows, OutboxInv, Typed', Check(w, k)
             PROVE  OutboxInv'
  OBVIOUS
<1>1. RowOK(k) /\ Typed /\ TypeOK /\ Delivering(w, k) /\ task[w][k].verdict = "none"
  BY AtWork DEF OutboxInv, Check, Typed, Judged
<1>2. /\ task'[w][k] \in Task
      /\ task'[w][k].version = task[w][k].version
      /\ task'[w][k].attempts = task[w][k].attempts
      /\ task'[w][k].verdict # "sent"
      /\ \A v \in Workers, j \in Rows : v # w \/ j # k => task'[v][j] = task[v][j]
  <2>1. CASE task' = [task EXCEPT ![w][k].pc = "send"]
    <3>1. task[w][k].pc = "picked"
      BY DEF Check
    <3> QED
      BY <1>1, <2>1, <3>1, PassTyped
  <2>2. ASSUME NEW verdict \in {"rejected", "unavailable"}, Decide(w, k, verdict)
        PROVE  /\ task'[w][k] \in Task
               /\ task'[w][k].version = task[w][k].version
               /\ task'[w][k].attempts = task[w][k].attempts
               /\ task'[w][k].verdict # "sent"
               /\ \A v \in Workers, j \in Rows : v # w \/ j # k => task'[v][j] = task[v][j]
    <3> DEFINE t == Decided(w, k, verdict)
    <3>1. /\ t \in Task /\ t.version = task[w][k].version /\ t.attempts = task[w][k].attempts
          /\ t.verdict = verdict
      BY <1>1, DecidedFields
    <3>2. Rewrites(w, k, t)
      BY <1>1, <2>2 DEF Decide, Decided, TypeOK, Rewrites
    <3> HIDE DEF t
    <3>3. t \in Task \cup {Done}
      BY <3>1
    <3>4. /\ task'[w][k] = t
          /\ \A v \in Workers, j \in Rows : v # w \/ j # k => task'[v][j] = task[v][j]
      BY <1>1, <3>2, <3>3, HandRewritten
    <3> QED
      BY <3>1, <3>4
  <2>3. Decide(w, k, "unavailable") \/ Decide(w, k, "rejected")
           \/ task' = [task EXCEPT ![w][k].pc = "send"]
    BY DEF Check
  <2> QED
    BY <2>1, <2>2, <2>3 DEF Decide
<1>3. UNCHANGED <<row, account, allowed, enqueues, pushes, faults>>
  BY DEF Check
<1>4. SentByHand(w, k)'
  BY <1>1, <1>2, <1>3 DEF RowOK, HandOK, SentByHand
<1>5. PushesOK(k)' /\ (row[k].status = "sent" => pushes'[k][row[k].version] > 0)
  BY <1>1, <1>3 DEF RowOK, PushesOK, StoredOK
<1>6. RowOK(k)'
  BY <1>1, <1>2, <1>3, <1>4, <1>5, TaskIsNotDone, HandKept
<1> QED
  BY <1>1, <1>2, <1>3, <1>6, OneRow DEF Typed, TypeOK

\* One more send of the notice in hand, or none.
LEMMA SendCounts ==
    ASSUME NEW w \in Workers, NEW k \in Rows, Typed, Send(w, k)
    PROVE  \/ Decide(w, k, "rejected") /\ pushes' = pushes
           \/ /\ Decide(w, k, "sent")
              /\ pushes'[k][task[w][k].version] = pushes[k][task[w][k].version] + 1
              /\ \A v \in Versions : v # task[w][k].version => pushes'[k][v] = pushes[k][v]
              /\ \A j \in Rows : j # k => pushes'[j] = pushes[j]
<1> DEFINE version == task[w][k].version
           of == [pushes[k] EXCEPT ![version] = pushes[k][version] + 1]
<1>1. version \in Versions /\ pushes \in [Rows -> [Versions -> Nat]]
  BY AtWork DEF Send, Task, Typed, TypeOK
<1>2. CASE Decide(w, k, "sent") /\ pushes' = [pushes EXCEPT ![k] = of]
  <2>1. \A v \in Versions : of[v] = IF v = version THEN pushes[k][version] + 1 ELSE pushes[k][v]
    BY <1>1
  <2>2. pushes'[k] = of /\ \A j \in Rows : j # k => pushes'[j] = pushes[j]
    BY <1>1, <1>2
  <2> HIDE DEF of
  <2> QED
    BY <1>1, <1>2, <2>1, <2>2
<1> QED
  BY <1>1, <1>2 DEF Send

LEMMA SendOK == \A w \in Workers, k \in Rows : OutboxInv /\ Typed' /\ Send(w, k) => OutboxInv'
<1> SUFFICES ASSUME NEW w \in Workers, NEW k \in Rows, OutboxInv, Typed', Send(w, k)
             PROVE  OutboxInv'
  OBVIOUS
<1> DEFINE version == task[w][k].version
<1>1. RowOK(k) /\ Typed /\ TypeOK /\ Delivering(w, k) /\ task[w][k].verdict = "none"
  BY AtWork DEF OutboxInv, Send, Typed, Judged
<1>2. /\ version \in Versions /\ version \in Nat /\ version <= enqueues[k]
      /\ pushes[k][version] <= faults
      /\ faults \in Nat /\ enqueues[k] \in Nat
      /\ \A v \in Versions : v \in Nat /\ pushes[k][v] \in Nat
  BY <1>1, Numbers DEF RowOK, HandOK, SentByHand
<1>3. UNCHANGED <<row, account, allowed, enqueues, faults>>
  BY DEF Send
<1>4. CASE Decide(w, k, "rejected") /\ pushes' = pushes
  <2>1. /\ task'[w][k] \in Task
        /\ task'[w][k].version = task[w][k].version
        /\ task'[w][k].attempts = task[w][k].attempts
        /\ task'[w][k].verdict = "rejected"
        /\ \A v \in Workers, j \in Rows : v # w \/ j # k => task'[v][j] = task[v][j]
    <3>1. task' = [task EXCEPT ![w] = [task[w] EXCEPT ![k] = Decided(w, k, "rejected")]]
      BY <1>1, <1>4 DEF Decide, Decided, TypeOK
    <3> QED
      BY <1>1, <3>1, DecideTyped
  <2>2. SentByHand(w, k)' /\ PushesOK(k)'
        /\ (row[k].status = "sent" => pushes'[k][row[k].version] > 0)
    BY <1>1, <1>2, <1>3, <1>4, <2>1 DEF RowOK, PushesOK, StoredOK, SentByHand
  <2>3. RowOK(k)'
    BY <1>1, <1>3, <2>1, <2>2, TaskIsNotDone, HandKept
  <2> QED
    BY <1>1, <1>2, <1>3, <1>4, <2>1, <2>3, OneRow
<1>5. CASE /\ Decide(w, k, "sent")
           /\ pushes'[k][version] = pushes[k][version] + 1
           /\ \A v \in Versions : v # version => pushes'[k][v] = pushes[k][v]
           /\ \A j \in Rows : j # k => pushes'[j] = pushes[j]
  <2>1. /\ task'[w][k] \in Task
        /\ task'[w][k].version = version
        /\ task'[w][k].attempts = task[w][k].attempts
        /\ task'[w][k].verdict = "sent"
        /\ \A v \in Workers, j \in Rows : v # w \/ j # k => task'[v][j] = task[v][j]
    <3>1. task' = [task EXCEPT ![w] = [task[w] EXCEPT ![k] = Decided(w, k, "sent")]]
      BY <1>1, <1>5 DEF Decide, Decided, TypeOK
    <3> QED
      BY <1>1, <3>1, DecideTyped
  <2>2. SentByHand(w, k)'
    BY <1>2, <1>5, <2>1 DEF SentByHand
  <2>3. PushesOK(k)'
    BY <1>1, <1>2, <1>3, <1>5 DEF RowOK, PushesOK
  <2>4. row[k].status = "sent" => pushes'[k][row[k].version] > 0
    <3>1. row[k].status = "sent" => row[k].version \in Versions
      BY <1>1, Numbers
    <3> QED
      BY <1>1, <1>2, <1>5, <3>1 DEF RowOK, StoredOK
  <2>5. RowOK(k)'
    BY <1>1, <1>3, <2>1, <2>2, <2>3, <2>4, TaskIsNotDone, HandKept
  <2> QED
    BY <1>1, <1>2, <1>3, <1>5, <2>1, <2>5, OneRow
<1> QED
  BY <1>1, <1>4, <1>5, SendCounts

LEMMA MarkOK == \A w \in Workers, k \in Rows : OutboxInv /\ Typed' /\ Mark(w, k) => OutboxInv'
<1> SUFFICES ASSUME NEW w \in Workers, NEW k \in Rows, OutboxInv, Typed', Mark(w, k)
             PROVE  OutboxInv'
  OBVIOUS
<1> DEFINE t == task[w][k]
<1>1. RowOK(k) /\ Typed /\ Delivering(w, k) /\ t \in Task
      /\ t.verdict \in {"sent", "rejected", "unavailable"}
  BY AtWork DEF OutboxInv, Mark, Typed, Judged, Task
<1>2. /\ UNCHANGED <<account, allowed, enqueues, pushes, faults>>
      /\ \A j \in Rows : j # k => row'[j] = row[j]
  BY <1>1 DEF Mark, Typed, TypeOK
<1>3. /\ task'[w][k] = Done
      /\ \A v \in Workers, j \in Rows : v # w \/ j # k => task'[v][j] = task[v][j]
  BY <1>1, HandEmptied DEF Mark
<1>4. \A v \in Workers : ~Delivering(v, k)'
  BY <1>1, <1>3 DEF RowOK, HandOK, Delivering
<1>5. StoredOK(k)'
  <2>1. CASE row[k] = NoRow
    <3>1. row'[k] = NoRow
      BY <1>1, <2>1 DEF Mark, Updated, Typed, TypeOK
    <3> QED
      BY <1>1, <1>2, <3>1, NoRowIsTyped, Numbers, OutboxAssumption
         DEF StoredOK, Pickable, Open
  <2>2. CASE row[k] # NoRow
    <3>1. /\ row'[k].status = StatusAfter(t)
          /\ row'[k].version = row[k].version /\ row'[k].attempts = row[k].attempts
      BY <1>1, <2>2, MarkedFields
    <3>2. row[k].version = t.version /\ row[k].attempts = t.attempts /\ SentByHand(w, k)
      BY <1>1, <2>2 DEF RowOK, HandOK, AsPicked
    <3>3. /\ faults \in Nat /\ t.attempts \in Nat /\ MaxAttempts \in Nat
          /\ pushes[k][t.version] \in Nat
      BY <1>1, Numbers, OutboxAssumption
    <3>4. CASE t.verdict = "sent"
      <4>1. row'[k].status = "sent"
        BY <3>1, <3>4 DEF StatusAfter
      <4> QED
        BY <1>1, <1>2, <3>1, <3>2, <3>4, <4>1
           DEF RowOK, StoredOK, Pickable, SentByHand, Open
    <3>5. CASE t.verdict = "unavailable"
      <4>1. row'[k].status = "dead"
        BY <3>1, <3>5 DEF StatusAfter
      <4> QED
        BY <1>1, <1>2, <3>1, <4>1 DEF RowOK, StoredOK, Pickable, Open
    <3>6. CASE t.verdict = "rejected"
      <4>1. /\ row'[k].status \in {"dead", "retry"}
            /\ row'[k].status = "retry" => t.attempts < MaxAttempts
        BY <3>1, <3>3, <3>6 DEF StatusAfter
      <4>2. pushes[k][t.version] <= faults
        BY <3>2, <3>6 DEF SentByHand
      <4> QED
        BY <1>1, <1>2, <3>1, <3>2, <3>3, <4>1, <4>2 DEF RowOK, StoredOK, Pickable, Open
    <3> QED
      BY <1>1, <3>4, <3>5, <3>6
  <2> QED
    BY <2>1, <2>2
<1>6. RowOK(k)'
  BY <1>1, <1>2, <1>4, <1>5 DEF RowOK, HandOK, PushesOK
<1>7. faults' >= faults
  BY <1>1, <1>2, Numbers
<1> QED
  BY <1>2, <1>3, <1>6, <1>7, OneRow

\* A delivery that ends without marking its row is one fault.
LEMMA HandLost ==
    ASSUME NEW w \in Workers, NEW k \in Rows, Typed, Typed', RowOK(k), Delivering(w, k),
           task'[w][k] = Done, \A v \in Workers : v # w => task'[v][k] = task[v][k],
           UNCHANGED <<row, enqueues, pushes>>, faults' = faults + 1
    PROVE  RowOK(k)'
<1>1. \A v \in Workers : ~Delivering(v, k)'
  BY DEF RowOK, HandOK, Delivering
<1>2. /\ faults \in Nat /\ MaxAttempts \in Nat /\ row[k].attempts \in Nat
      /\ row[k].status # "absent" => row[k].version \in Versions
      /\ \A v \in Versions : pushes[k][v] \in Nat
  BY Numbers, OutboxAssumption
<1>3. StoredOK(k)'
  BY <1>2 DEF RowOK, StoredOK, PushesOK, Pickable, Open
<1>4. PushesOK(k)'
  BY <1>2 DEF RowOK, PushesOK
<1> QED
  BY <1>1, <1>3, <1>4 DEF RowOK, HandOK

LEMMA MarkFailsOK ==
    \A w \in Workers, k \in Rows : OutboxInv /\ Typed' /\ MarkFails(w, k) => OutboxInv'
<1> SUFFICES ASSUME NEW w \in Workers, NEW k \in Rows, OutboxInv, Typed', MarkFails(w, k)
             PROVE  OutboxInv'
  OBVIOUS
<1>1. RowOK(k) /\ Typed /\ Delivering(w, k)
  BY AtWork DEF OutboxInv, MarkFails
<1>2. /\ task'[w][k] = Done
      /\ \A v \in Workers, j \in Rows : v # w \/ j # k => task'[v][j] = task[v][j]
  BY <1>1, HandEmptied DEF MarkFails
<1>3. faults' = faults + 1 /\ faults' >= faults
  BY <1>1, FaultTyped, Numbers DEF MarkFails
<1>4. UNCHANGED <<row, account, allowed, enqueues, pushes>>
  BY DEF MarkFails
<1>5. RowOK(k)'
  BY <1>1, <1>2, <1>3, <1>4, HandLost
<1> QED
  BY <1>2, <1>3, <1>4, <1>5, OneRow

LEMMA CrashOK == \A w \in Workers : OutboxInv /\ Typed' /\ Crash(w) => OutboxInv'
<1> SUFFICES ASSUME NEW w \in Workers, OutboxInv, Typed', Crash(w), NEW k \in Rows
             PROVE  RowOK(k)'
  BY DEF OutboxInv
<1>1. RowOK(k) /\ Typed
  BY DEF OutboxInv
<1>2. /\ task'[w][k] = Done
      /\ \A v \in Workers : v # w => task'[v][k] = task[v][k]
  BY <1>1 DEF Crash, Typed, TypeOK
<1>3. faults' = faults + 1 /\ faults' >= faults
  BY <1>1, FaultTyped, Numbers DEF Crash
<1>4. UNCHANGED <<row, account, allowed, enqueues, pushes>>
  BY DEF Crash
<1>5. CASE Delivering(w, k)
  BY <1>1, <1>2, <1>3, <1>4, <1>5, HandLost
<1>6. CASE ~Delivering(w, k)
  <2>1. \A v \in Workers : task'[v][k] = task[v][k]
    BY <1>2, <1>6 DEF Delivering
  <2> QED
    BY <1>1, <1>3, <1>4, <2>1, RowLeftAlone
<1> QED
  BY <1>5, <1>6

LEMMA NextOK == Prompt /\ OutboxInv /\ [Next]_vars => OutboxInv'
<1> SUFFICES ASSUME Prompt, OutboxInv, [Next]_vars PROVE OutboxInv'
  OBVIOUS
<1>1. Typed'
  BY NextTyped DEF OutboxInv
<1>2. CASE UNCHANGED vars
  <2>1. faults' >= faults
    BY <1>2 DEF vars, OutboxInv, Typed, TypeOK
  <2>2. \A k \in Rows : RowOK(k)'
    BY <1>1, <1>2, <2>1, RowLeftAlone DEF vars, OutboxInv
  <2> QED
    BY <1>1, <2>2 DEF OutboxInv
<1>3. CASE \E k \in Rows : \/ Enqueue(k) \/ BecomesDue(k) \/ LockAges(k)
                           \/ ContactChanges(k) \/ DeleteRecipient(k)
  BY <1>1, <1>3, EnqueueOK, ClockOK, ContactChangesOK, DeleteRecipientOK
<1>4. CASE \E w \in Workers : Pick(w) \/ Crash(w)
  BY <1>1, <1>4, PickOK, CrashOK
<1>5. CASE \E w \in Workers, k \in Rows : Deliver(w, k) \/ MarkFails(w, k)
  BY <1>1, <1>5, CheckOK, SendOK, MarkOK, MarkFailsOK DEF Deliver
<1> QED
  BY <1>2, <1>3, <1>4, <1>5 DEF Next

-----------------------------------------------------------------------------
(* What the invariant says.                                                *)

LEMMA InvariantSays ==
    OutboxInv => OneDeliveryAtATime /\ NoDuplicateWithoutFault /\ AttemptsBounded /\ SentWasPushed
<1> SUFFICES ASSUME OutboxInv
             PROVE  OneDeliveryAtATime /\ NoDuplicateWithoutFault /\ AttemptsBounded
                    /\ SentWasPushed
  OBVIOUS
<1>1. OneDeliveryAtATime
  BY DEF OneDeliveryAtATime, OutboxInv, RowOK, HandOK
<1>2. NoDuplicateWithoutFault
  BY DEF NoDuplicateWithoutFault, OutboxInv, RowOK, PushesOK
<1>3. AttemptsBounded
  BY DEF AttemptsBounded, OutboxInv, RowOK, StoredOK
<1>4. SentWasPushed
  BY DEF SentWasPushed, OutboxInv, RowOK, StoredOK
<1> QED
  BY <1>1, <1>2, <1>3, <1>4

\* No step takes a sent notice back.
LEMMA SentKept ==
    ASSUME OutboxInv, [Next]_vars, NEW k \in Rows,
           row[k].status = "sent", row'[k].version = row[k].version
    PROVE  row'[k].status = "sent"
<1>1. RowOK(k) /\ Typed /\ row[k] # NoRow
  BY NoRowIsTyped DEF OutboxInv
<1>2. /\ row \in [Rows -> Row \cup {NoRow}]
      /\ row[k].version \in Nat /\ row[k].version # 0
      /\ row[k].version <= enqueues[k] /\ enqueues[k] \in Nat
  <2>1. row[k].version \in Versions /\ enqueues[k] \in Nat
    BY <1>1, Numbers
  <2>2. row[k].version \in Nat /\ row[k].version # 0
    BY <2>1, OutboxAssumption DEF Versions
  <2> QED
    BY <1>1, <2>1, <2>2 DEF RowOK, StoredOK, Typed, TypeOK
<1>3. CASE UNCHANGED vars
  BY <1>3 DEF vars
<1>4. ASSUME NEW j \in Rows, Enqueue(j)
      PROVE  row'[k].status = "sent"
  <2>1. j = k => row'[k].version = enqueues[k] + 1
    BY <1>2, <1>4 DEF Enqueue
  <2> QED
    BY <1>2, <1>4, <2>1 DEF Enqueue
<1>5. ASSUME NEW j \in Rows, BecomesDue(j) \/ LockAges(j)
      PROVE  row'[k].status = "sent"
  BY <1>2, <1>5 DEF BecomesDue, LockAges
<1>6. ASSUME NEW j \in Rows, ContactChanges(j) \/ DeleteRecipient(j)
      PROVE  row'[k].status = "sent"
  BY <1>2, <1>6, NoRowIsTyped DEF ContactChanges, DeleteRecipient
<1>7. ASSUME NEW w \in Workers, Pick(w)
      PROVE  row'[k].status = "sent"
  <2>1. k \notin Batch
    BY <1>1, BatchIsReady DEF Ready
  <2>2. row'[k] = NoRow \/ row'[k] = row[k]
    BY <1>7, <2>1 DEF Pick
  <2> QED
    BY <1>2, <2>2, NoRowIsTyped
<1>8. ASSUME NEW w \in Workers, NEW j \in Rows, Mark(w, j)
      PROVE  row'[k].status = "sent"
  <2>1. RowOK(j) /\ Delivering(w, j)
    BY <1>1, <1>8, AtWork DEF OutboxInv, Mark
  <2>2. j # k
    BY <1>1, <2>1 DEF RowOK, HandOK, AsPicked
  <2> QED
    BY <1>2, <1>8, <2>2 DEF Mark
<1>9. ASSUME NEW w \in Workers, NEW j \in Rows,
             Crash(w) \/ Check(w, j) \/ Send(w, j) \/ MarkFails(w, j)
      PROVE  row'[k].status = "sent"
  BY <1>9 DEF Crash, Check, Send, MarkFails
<1> QED
  BY <1>3, <1>4, <1>5, <1>6, <1>7, <1>8, <1>9 DEF Next, Deliver

\* The inductive invariant: while a row is in somebody's hands it is gone with
\* its recipient or as it was picked, and in no other hands; a row that may be
\* picked has been sent at most once for each fault.
THEOREM OutboxInductive == ASSUME Prompt PROVE Spec => []OutboxInv
<1>1. OutboxInv /\ [Next]_vars => OutboxInv'
  BY NextOK
<1> QED
  BY <1>1, InitOK, PTL DEF Spec

\* process_batch locks a row by its status and its timestamp, and holds no
\* database lock during a delivery. That is exclusive for any number of
\* workers, rows and retries, while batches are prompt.
THEOREM DeliveryIsExclusive == ASSUME Prompt PROVE Spec => []OneDeliveryAtATime
  BY OutboxInductive, InvariantSays, PTL

\* Enqueueing, retrying and reclaiming never send the same content again
\* unless a crash or a failed UPDATE hid that it had been sent.
THEOREM DuplicatesAreFaults == ASSUME Prompt PROVE Spec => []NoDuplicateWithoutFault
  BY OutboxInductive, InvariantSays, PTL

\* retry_row gives up in time, and a row that its last worker lost is
\* attempted once more for that fault only.
THEOREM AttemptsAreBounded == ASSUME Prompt PROVE Spec => []AttemptsBounded
  BY OutboxInductive, InvariantSays, PTL

\* deliver_row writes "sent" by id alone, and yet only for content that was
\* sent: the row still holds what its worker picked.
THEOREM SentIsTrue == ASSUME Prompt PROVE Spec => []SentWasPushed
  BY OutboxInductive, InvariantSays, PTL

\* A sent notice stays sent: no late worker overwrites the mark, and no batch
\* picks it again.
THEOREM SentStays == ASSUME Prompt PROVE Spec => SentIsTerminal
<1>1. OutboxInv /\ [Next]_vars =>
         [\A k \in Rows : row[k].status = "sent" /\ row'[k].version = row[k].version
                              => row'[k].status = "sent"]_vars
  BY SentKept
<1> QED
  BY <1>1, OutboxInductive, PTL DEF Spec, SentIsTerminal
=============================================================================
