------------------------- MODULE NotificationOutbox -------------------------
(***************************************************************************)
(* The notification outbox: rows that handlers enqueue, and the workers of *)
(* the API instances that pick, deliver and mark them.                     *)
(*                                                                         *)
(* A row is identified by its deduplication key.  Enqueueing under a key   *)
(* whose deduplication window is over rewrites the row: a new version of   *)
(* it.  process_batch locks rows for five minutes by a timestamp and not   *)
(* by a database lock, and each deliver_row marks its row by id when it is *)
(* done, whatever happened to the row in between.                          *)
(*                                                                         *)
(* Time is abstracted: due and stale say what the clock makes of           *)
(* available_at and locked_at, and become true on their own.               *)
(***************************************************************************)
EXTENDS Integers, FiniteSets

CONSTANTS
    Rows,            \* ids of outbox rows, one for each deduplication key
    Workers,         \* API instances, each with one outbox worker
    BatchSize,       \* LIMIT of a batch
    MaxAttempts,     \* attempts after which a rejected row is dead
    MaxVersions,     \* bound on how often a row is enqueued
    MaxFaults,       \* bound on crashes, failed UPDATEs and overlong batches
    SlowBatches,     \* TRUE when a batch may outlast its five minutes
    ReuseUnsettled   \* TRUE when a window may end before the row is settled

ASSUME OutboxAssumption ==
    /\ Rows \subseteq Nat
    /\ IsFiniteSet(Rows)
    /\ BatchSize \in Nat \ {0}
    /\ MaxAttempts \in Nat \ {0}
    /\ MaxVersions \in Nat \ {0}
    /\ MaxFaults \in Nat
    /\ SlowBatches \in BOOLEAN
    /\ ReuseUnsettled \in BOOLEAN

VARIABLES
    row,       \* notification_outbox
    task,      \* deliver_row of each worker and row, Done when not running
    account,   \* rows whose user still exists
    allowed,   \* what the contact check of a row answers
    enqueues,  \* how often each row was enqueued
    pushes,    \* how often each version of a row was sent with success
    faults     \* crashes, failed UPDATEs and overlong batches so far

vars == <<row, task, account, allowed, enqueues, pushes, faults>>

-----------------------------------------------------------------------------
Open     == {"pending", "processing", "retry"}
Settled  == {"sent", "dead"}
Versions == 1..MaxVersions

NoRow == [status |-> "absent", attempts |-> 0, version |-> 0,
          due |-> FALSE, stale |-> FALSE]

Row == [status   : Open \cup Settled,
        attempts : Nat,
        version  : Versions,     \* which enqueue wrote its content
        due      : BOOLEAN,      \* available_at <= NOW()
        stale    : BOOLEAN]      \* locked_at < NOW() - 5 minutes

Done == [pc |-> "done", version |-> 0, attempts |-> 0, verdict |-> "none"]

\* What deliver_row holds of its row, and what it will write to it.
Task == [pc       : {"picked", "send", "mark"},
         version  : Versions,
         attempts : Nat,
         verdict  : {"none", "sent", "rejected", "unavailable"}]

TypeOK ==
    /\ row \in [Rows -> Row \cup {NoRow}]
    /\ task \in [Workers -> [Rows -> Task \cup {Done}]]
    /\ account \subseteq Rows
    /\ allowed \in [Rows -> BOOLEAN]
    /\ enqueues \in [Rows -> 0..MaxVersions]
    /\ pushes \in [Rows -> [Versions -> Nat]]
    /\ faults \in 0..MaxFaults

Init ==
    /\ row = [k \in Rows |-> NoRow]
    /\ task = [w \in Workers |-> [k \in Rows |-> Done]]
    /\ account = Rows
    /\ allowed = [k \in Rows |-> TRUE]
    /\ enqueues = [k \in Rows |-> 0]
    /\ pushes = [k \in Rows |-> [v \in Versions |-> 0]]
    /\ faults = 0

Delivering(w, k) == task[w][k] # Done
InHand(k)        == \E w \in Workers : Delivering(w, k)

\* Something goes wrong that the code answers for later.
Fault ==
    /\ faults < MaxFaults
    /\ faults' = faults + 1

-----------------------------------------------------------------------------
\* notify_users and enqueue_notifications_tx: INSERT ... ON CONFLICT DO UPDATE
\* under the key of k, once its deduplication window is over.
Enqueue(k) ==
    /\ k \in account
    /\ enqueues[k] < MaxVersions
    /\ row[k].status \in Open => ReuseUnsettled
    /\ enqueues' = [enqueues EXCEPT ![k] = @ + 1]
    /\ row' = [row EXCEPT ![k] = [status |-> "pending", attempts |-> 0,
                                  version |-> enqueues[k] + 1,
                                  due |-> TRUE, stale |-> FALSE]]
    /\ UNCHANGED <<task, account, allowed, pushes, faults>>

\* The clock reaches available_at.
BecomesDue(k) ==
    /\ row[k].status = "retry"
    /\ ~row[k].due
    /\ row' = [row EXCEPT ![k].due = TRUE]
    /\ UNCHANGED <<task, account, allowed, enqueues, pushes, faults>>

\* Five minutes go by after a pick. A delivery that is still under way then is
\* a fault: one slow row is enough, since a batch is locked all at once.
LockAges(k) ==
    /\ row[k].status = "processing"
    /\ ~row[k].stale
    /\ IF InHand(k) THEN SlowBatches /\ Fault ELSE UNCHANGED faults
    /\ row' = [row EXCEPT ![k].stale = TRUE]
    /\ UNCHANGED <<task, account, allowed, enqueues, pushes>>

\* The friendship, block, invitation or poll behind the notice changes.
ContactChanges(k) ==
    /\ allowed' = [allowed EXCEPT ![k] = ~@]
    /\ UNCHANGED <<row, task, account, enqueues, pushes, faults>>

\* The recipient's account is deleted, and with it the row (ON DELETE CASCADE).
DeleteRecipient(k) ==
    /\ k \in account
    /\ account' = account \ {k}
    /\ row' = [row EXCEPT ![k] = NoRow]
    /\ UNCHANGED <<task, allowed, enqueues, pushes, faults>>

-----------------------------------------------------------------------------
\* Mutant: a row whose worker crashed is never picked again.
ReadyWithoutReclaim(k) == row[k].status \in {"pending", "retry"} /\ row[k].due

\* Mutant: the lock of a row that is being delivered is not looked at.
ReadyWithoutLock(k) ==
    \/ row[k].status \in {"pending", "retry"} /\ row[k].due
    \/ row[k].status = "processing"

Ready(k) ==
    \/ row[k].status \in {"pending", "retry"} /\ row[k].due
    \/ row[k].status = "processing" /\ row[k].stale

\* ORDER BY id LIMIT. Row locks last one statement: a row skipped because of
\* one is found by the next batch.
Batch == {k \in Rows : Ready(k) /\
              Cardinality({j \in Rows : Ready(j) /\ j < k}) < BatchSize}

\* One statement of process_batch purges settled rows (any that no delivery
\* has in hand: thirty days have passed) and takes a batch. The worker awaits
\* all deliveries of a batch before the next one.
Pick(w) ==
    /\ \A k \in Rows : ~Delivering(w, k)
    /\ \E purged \in SUBSET {k \in Rows : row[k].status \in Settled /\ ~InHand(k)} :
          /\ Batch \cup purged # {}
          /\ row' = [k \in Rows |->
                CASE k \in purged -> NoRow
                  [] k \in Batch ->
                       [row[k] EXCEPT !.status = "processing",
                                      !.attempts = @ + 1, !.stale = FALSE]
                  [] OTHER -> row[k]]
    /\ task' = [task EXCEPT ![w] = [k \in Rows |->
                  IF k \in Batch
                  THEN [pc |-> "picked", version |-> row[k].version,
                        attempts |-> row[k].attempts + 1, verdict |-> "none"]
                  ELSE Done]]
    /\ UNCHANGED <<account, allowed, enqueues, pushes, faults>>

Decide(w, k, verdict) ==
    task' = [task EXCEPT ![w][k].pc = "mark", ![w][k].verdict = verdict]

\* The contact check of deliver_row. A database error, here or when the
\* devices are looked up, is a rejection.
Check(w, k) ==
    /\ task[w][k].pc = "picked"
    /\ \/ allowed[k] /\ task' = [task EXCEPT ![w][k].pc = "send"]
       \/ ~allowed[k] /\ Decide(w, k, "unavailable")
       \/ Decide(w, k, "rejected")
    /\ UNCHANGED <<row, account, allowed, enqueues, pushes, faults>>

\* send_to_tokens_diagnosed: a completed outcome, or ProviderRejected.
Send(w, k) ==
    /\ task[w][k].pc = "send"
    /\ \/ /\ Decide(w, k, "sent")
          /\ pushes' = [pushes EXCEPT ![k][task[w][k].version] = @ + 1]
       \/ /\ Decide(w, k, "rejected")
          /\ UNCHANGED pushes
    /\ UNCHANGED <<row, account, allowed, enqueues, faults>>

\* Mutant: a rejected row is tried again for ever.
RetryForever(t) ==
    CASE t.verdict = "sent"        -> "sent"
      [] t.verdict = "unavailable" -> "dead"
      [] t.verdict = "rejected"    -> "retry"

\* Mutant: a notice that may not be sent any more is marked sent.
UnavailableIsSent(t) ==
    CASE t.verdict \in {"sent", "unavailable"} -> "sent"
      [] t.verdict = "rejected" ->
             IF t.attempts >= MaxAttempts THEN "dead" ELSE "retry"

StatusAfter(t) ==
    CASE t.verdict = "sent"        -> "sent"
      [] t.verdict = "unavailable" -> "dead"
      [] t.verdict = "rejected"    ->
             IF t.attempts >= MaxAttempts THEN "dead" ELSE "retry"

\* Mutant: the worker inserts its row again when it is gone.
WriteBack(k, r) == r

\* UPDATE ... WHERE id = k
Updated(k, r) == IF row[k] = NoRow THEN NoRow ELSE r

\* deliver_row ends: the row is marked by its id alone.
Mark(w, k) ==
    LET t == task[w][k] IN
    /\ t.pc = "mark"
    /\ row' = [row EXCEPT ![k] = Updated(k,
                 [row[k] EXCEPT !.status = StatusAfter(t), !.stale = FALSE,
                                !.due = @ /\ t.verdict # "rejected"])]
    /\ task' = [task EXCEPT ![w][k] = Done]
    /\ UNCHANGED <<account, allowed, enqueues, pushes, faults>>

\* That UPDATE fails; deliver_row only logs it.
MarkFails(w, k) ==
    /\ task[w][k].pc = "mark"
    /\ Fault
    /\ task' = [task EXCEPT ![w][k] = Done]
    /\ UNCHANGED <<row, account, allowed, enqueues, pushes>>

\* The instance stops, and starts again with an empty worker.
Crash(w) ==
    /\ \E k \in Rows : Delivering(w, k)
    /\ Fault
    /\ task' = [task EXCEPT ![w] = [k \in Rows |-> Done]]
    /\ UNCHANGED <<row, account, allowed, enqueues, pushes>>

-----------------------------------------------------------------------------
Deliver(w, k) == Check(w, k) \/ Send(w, k) \/ Mark(w, k)

Next ==
    \/ \E k \in Rows :
          \/ Enqueue(k) \/ BecomesDue(k) \/ LockAges(k)
          \/ ContactChanges(k) \/ DeleteRecipient(k)
    \/ \E w \in Workers :
          \/ Pick(w) \/ Crash(w)
          \/ \E k \in Rows : Deliver(w, k) \/ MarkFails(w, k)

Spec == Init /\ [][Next]_vars

\* The worker's ticker fires every two seconds for as long as the instance
\* runs, an HTTP request ends within its timeout, and the clock goes on.
Fairness ==
    /\ \A w \in Workers : WF_vars(Pick(w))
    /\ \A w \in Workers, k \in Rows : WF_vars(Deliver(w, k))
    /\ \A k \in Rows : WF_vars(BecomesDue(k)) /\ WF_vars(LockAges(k))

FairSpec == Spec /\ Fairness

-----------------------------------------------------------------------------
\* No notice is in the hands of two workers at once: the pick of a batch is
\* exclusive although no database lock is held during the delivery.
OneDeliveryAtATime ==
    \A v, w \in Workers, k \in Rows :
        Delivering(v, k) /\ Delivering(w, k) /\ task[v][k].version = task[w][k].version
            => v = w

\* A notice is sent twice only when a fault hid that it had been sent.
NoDuplicateWithoutFault ==
    \A k \in Rows, v \in Versions : pushes[k][v] <= 1 + faults

\* retry_row gives up: whatever crashes and however workers overlap, a row is
\* tried MaxAttempts times, and once more for each fault.
AttemptsBounded == \A k \in Rows : row[k].attempts <= MaxAttempts + faults

\* A row that is marked sent has had its present content sent.
SentWasPushed ==
    \A k \in Rows : row[k].status = "sent" => pushes[k][row[k].version] > 0

\* "sent" is a terminal processing state: a sent notice stays sent, until its
\* row is purged or enqueued again.
SentIsTerminal ==
    [][\A k \in Rows :
          row[k].status = "sent" /\ row'[k].version = row[k].version
              => row'[k].status = "sent"]_vars

\* Every notice is settled in the end, after crashes, failed UPDATEs, overlong
\* batches and rejections: sent, dead, or gone with its recipient.
EventuallySettled ==
    \A k \in Rows : row[k].status \in Open ~> row[k].status \notin Open
=============================================================================
