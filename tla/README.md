# Specifications of Fiestaaa Back

TLA+ specifications of the parts of this API where requests, workers and
clients meet: who takes part in an event and what they hold there, how the event
itself is edited, ends and is purged, who is let in at its door, how its
expenses are shared and its polls are held and watched, how notices are
delivered, how accounts begin and end, how sessions live, and who may reach
whom. TLC model-checks them on small instances; the TLA+ proof system proves the most
important invariants for every value of the constants.

The API is an Actix server over PostgreSQL (isolation level READ COMMITTED).
Any number of instances may run. There is no state in memory that matters:
everything a handler reads between two statements may be stale by the next one,
and correctness rests on row locks, advisory locks, guarded UPDATEs, unique
indexes, foreign keys and triggers. This is what the specifications are about.

## Contents

| module | what it is |
|---|---|
| `Participation` | carpools, invitations and items of one event, as interleaved transactions |
| `CarpoolBoard` | what the carpools promise, with no requests, locks or counters: the abstract specification `Participation` implements |
| `NotificationOutbox` | the outbox table and the workers that deliver it |
| `Sessions` | login, upgrade, renewal, logout, reset, moderation of one account and its devices |
| `Contacts` | friend requests, friendships, blocks, invitations and share links between users |
| `Events` | the row of one event: edition, trash, restoration, moderation, retention and purge |
| `EventTickets` | `Events` with the QR tickets of its guests and the phones that scan them |
| `DoorList` | what the tickets promise: the abstract specification `EventTickets` implements |
| `Settlement` | the split of expenses in cents and the suggested transfers, as functions |
| `Expenses` | the expenses of one event and their summary, read while they change |
| `Accounts` | registration, sign-in with a provider, Apple's refresh tokens and their revocation |
| `Polls` | the polls of one event and their votes |
| `BallotBox` | what the polls promise: the abstract specification `Polls` implements |
| `PollViews` | `Polls` with the sockets and clients that show them |
| `MC...` | small instances for TLC: symmetry and constant functions only |
| `ParticipationProofs`, `SessionsProofs`, `ContactsProofs`, `EventTicketsProofs`, `AccountsProofs`, `PollsProofs`, `OutboxProofs`, `ExpensesProofs` | theorems and their proofs |

`PROJECT.json` lists components, runs, mutants, hazards, theorems, findings,
and the source lines that each definition models.

## Inventory

**Participation** (`routes/carpools.rs`, `routes/invitations.rs`,
`routes/events/items.rs`, `delete_account` of `routes/users.rs`). State: tables
`carpools`, `carpool_passengers`, `invitations`, `events_items`, `user_items`.
Operations: create, join, leave, update and delete a carpool; invite, remove,
accept, decline, expire; attach, reserve, drop items. A decline releases what
the guest holds, so that all three files write the same rows. Two quantities
are kept redundantly: `carpools.seats_taken` next to the passenger rows, and
`events_items.quantity` next to the reservations. Hard: a user with two
requests in flight; membership that is checked before the transaction; rows
read without a lock and acted upon later; cascades of an account's deletion.
Correct when a user has one role in the event, the seat counter never hides a
passenger, totals do not drift, and a guest who declined keeps nothing.

**Notification outbox** (`notifications.rs`, migrations 005 and 008). State:
`notification_outbox`. Handlers enqueue under a deduplication key, some inside
their transaction and some after COMMIT (`notify_users`). A worker in every
instance picks a batch every two seconds, checks whether the notice may still
be sent, calls the provider, and marks the row. Rows in hand are locked by a
time stamp for five minutes. Hard: crashes between the provider's answer and
the UPDATE, batches that last longer than the lock, UPDATEs by id only.
Correct when every notice is settled in the end, attempts are bounded, and
nothing is sent twice unless a fault hid the first time.

**Sessions and account recovery** (`routes/auth.rs`, `auth.rs`,
`routes/account_recovery.rs`, `routes/safety.rs`, `cleanup.rs`, migrations 011
and 013). State: `users.session_version` and `suspended`, `mobile_sessions`,
`revoked_auth_tokens`, `password_resets`, and what devices store. Hard: every
handler reads `users` first and writes later; answers get lost after a rotation
has committed; logouts overtake renewals. Correct when a reset or suspension
ends all earlier credentials, a lost answer never costs a device its session,
and a logout is final.

**Contacts** (`routes/friends.rs`, `routes/safety.rs`,
`routes/events/share_links.rs`, `invite_email_target` of
`routes/invitations.rs`, migration 011). State: `friendships`,
`friend_requests`, `user_blocks`, `invitations`, `event_share_tokens`. Handlers
check first and write later; the triggers `fiestaaa_guard_contact` and
`fiestaaa_block_cleanup` serialise contacts and blocks of a pair of users by an
advisory lock. Correct when a block leaves nothing open, friendships rest on
acceptance, accepted participation outlives a block, and a link lets one user in.

**Events** (`routes/events/core.rs`, `cleanup.rs`, migrations 001, 006 and 011).
State: one row of `events` with schedule, playlist, features, trash and
moderation columns. Operations: create, replace, patch, delete, restore, hide,
and the cleanup's two statements. Every other handler asks
`ensure_event_writable` first, outside its transaction. Hard: an edit is
validated against a row that another edit changes before the UPDATE; trash,
restoration, moderation and cleanup meet on one row. Correct when the stored
schedule is in order, the features have their content, what moderation hides
stays hidden and stored, and every other event is purged in the end.

**QR tickets** (`routes/qr_codes.rs`). State: `event_checkins`, a row for a
guest with the hash of the latest token. Operations: issue, rotate (on every
request), scan. Hard: several phones, pages left open with older tokens, a first
ticket asked for twice, declines and purges between the steps. Correct when a
guest is let in once and is not taken off the list again.

**Shared expenses** (`routes/events/expenses.rs`). State: `event_expenses`,
`event_expense_participants`. Operations: add, delete, list, summarise. Hard:
cents that cannot be shared; a summary that reads expenses and participants in
statements of their own while both are deleted; participants are checked against
a directory read before the INSERT. Correct when the transfers settle all that is
owed, with few of them, whatever the summary happened to read.

**Polls** (`routes/events/polls.rs`). State: `event_polls`,
`event_poll_options`, `event_poll_votes`. Operations: create, vote, delete,
list; polls expire, and a deleted account takes its votes along. A vote replaces
the voter's earlier votes under the lock of the poll's row. Hard: two votes of
one user at once, a deletion or the voter's own deletion between the steps of a
vote, a list that reads polls, options and votes in statements of their own.
Correct when ballots replace each other as a whole, a poll of one choice keeps
one vote, and nobody votes in a poll that is gone.

**Registration, provider identities, Apple credentials** (`routes/auth.rs`,
`apple.rs`, `delete_account` of `routes/users.rs`, migrations 010 and 011).
State: `pending_registrations`, `users`, `oauth_identities`,
`apple_credentials`, `apple_revocations`, and what Apple knows. Operations:
register, verify, complete, sign in with a provider, refresh an Apple
credential, delete the account; a worker in every instance revokes one queued
token a minute. Hard: a link used twice at once, a provider that signs in with
an address whose registration is under way, an identity linked or a credential
refreshed during the account's deletion, a worker that stops between Apple's
answer and its COMMIT. Correct when a link opens one account and no stored
refresh token is forgotten or left unrevoked.

**Realtime streams** (`realtime.rs`, `realtime/actor_ws.rs`). State: none that
is stored; a socket lives as long as its ticket, a minute. Every change is
announced over Redis PubSub after its COMMIT, errors ignored; clients load what
changed. Hard: changes between a subscription and the first load, or during a
load; announcements, messages and sockets that are lost. Correct when a client
that hears of everything shows what is stored, and every client catches up.

**Shared infrastructure**: rate limiting and the address-search lease (Redis),
profiles and handles, catalogue, metrics, configuration, documentation. Little
state of their own, or none.

The components interact through PostgreSQL: declines and account deletions
write carpool and item rows; all of them insert outbox rows; blocks remove
invitations; suspensions and deletions end sessions, and the deletion of an
account takes votes, seats, reservations and participations along; most changes
are announced over Redis. They share no memory.

## How the models relate to the code

*Requests.* Each request in flight is a record: its program counter and what it
has read. A step is a statement, or several whose order the locks taken by the
first one make unobservable. What a transaction has written but not committed
stays in its record; table variables change at COMMIT. The locks it holds are
read off its program counter (`CarpoolFree`, `InvitationFree`, `PairFree`,
`RowFree`...), so waiting for a lock is a step that is not enabled yet.

*Failure.* `Fail` ends a request at any point with no write: it stands for early
returns, failed statements, deadlocks that Postgres breaks (lock orders do
differ: a decline takes item rows before carpool rows, an account's deletion
the user first), lost connections and crashes. Safety never assumes that a
request goes on.

*Clock.* Deadlines are Booleans that become true by a step of their own (`due`,
`stale`, `over`, `life`, `overdue`), never a counter; the run's bound on how many
pass is explicit (`MaxTicks`).

*Mutants.* Next to a few definitions stands a second one marked `Mutant:`, the
way a plausible bug would write it. The behaviour specifications never use
them; each property was seen to fail with one of them in place.

### Participation

`req[r]` is a request; `Begin`, `Advance` and `Fail` are its steps.

| code | actions |
|---|---|
| `create_carpool`, `join_carpool` | `StartCreate`, `CheckCreate`, `CommitCreate`; `StartJoin`, `CheckJoin`, `CommitJoin` |
| `leave_carpool`, `update_carpool` | `StartLeave`, `CommitLeave`, `Notify`; `StartUpdate`, `CommitUpdate` |
| `delete_carpool` | `StartDelete`, `ListPassengers`, `CommitDelete` |
| `respond_invitation` | `StartRespond`, `CommitAccept`, or `ListPromises`, `ReleasePromises`, `CommitDecline`; then `Notify` |
| `create_invitation`, `delete_invitation`, expiry | `Invite`, `RemoveGuest`, `Cleanup`, `ExpireOverdue` |
| items | `StartReserve`/`CommitReserve`, `...Attach`, `...Custom`, `...Drop` |
| `delete_account` | `DeleteAccount` |
| clock, edits of the event | `Reschedule` |

Left as the code has them: a deleted account's seat is not given back; removing
a guest leaves seats and reservations; attaching an item again may lower its
maximum below what is reserved; a passenger who joins while the driver deletes
the carpool is not told.

`enqueued` holds the outbox rows of the last step only, so that the notices do
not multiply states.

### NotificationOutbox

`Enqueue` is `enqueue_notifications_tx`; `Pick` is the one statement of
`process_batch`, its purge included; `Check`, `Send`, `Mark` (or `MarkFails`)
are `deliver_row`; `Crash` empties a worker. `version` numbers the contents
a row has had. A row picked with five minutes gone by is a `Fault` only when a
delivery is still under way (`LockAges`). Constants say which environment is
assumed: `SlowBatches` (a batch may last longer than five minutes: twenty rows,
eight at a time, up to fifteen seconds for each provider call and several
devices per row) and `ReuseUnsettled` (a key's window of 300 or 600 seconds ends
before the row's retries, about 510 seconds in all).

### Sessions

One account, its devices, and requests that are served even when no device
waits for them any more. `era` counts resets and moderation decisions; every
token and session carries the era of the password or provider check it descends
from. This is history, no handler reads it. A renewal is two steps
(`RenewReads`, `RenewCommits`), since its statement takes its snapshot of
`users` before it may wait for the session's row. `life` has a value for the minute
of leeway that `jsonwebtoken` grants after `exp`; revocations are cleaned up
at `exp`, so in that minute a logged-out token does work again, and
`SignedOutStaysOut` claims no more than the code provides. Whether a minute has
passed since the last reset mail is left to chance.

### Contacts

One event with its owner. Every handler that opens a contact looks first
(`AskFriend`, `SeesNo...`, `InviteByEmail`), then passes `Guard` (the BEFORE
trigger: it takes the pair's lock and refuses the blocked), then commits. The
link to an address that has no account yet is not guarded (`GuardUnknown`): the
trigger returns before its lock. `guarded` on a link records this and no
handler reads it. The DELETEs of a block are one step with its commit; they
wait for rows that answers and claims hold. Whether the event is writable and
its deadline are left to chance. The owner's own invitation row and the
deletion of accounts are left out.

### Events and EventTickets

`column` is the row's columns as a record, so that a payload is a record of
some of them and `Merge` is the UPDATE.

| code | actions |
|---|---|
| `create_event` | `EventInit` |
| `replace_event` | `StartEdit`, `CheckReplacement`, `CommitEdit` |
| `update_event` | `StartEdit`, `CheckPatch`, `CommitEdit` |
| `delete_event`, `restore_event`, `moderate` | `DeleteEvent`, `RestoreEvent`, `HideEvent` |
| `cleanup_expired_events` | `TrashStale`, `PurgeEvent` (`PurgeWithTickets`) |
| `generate_my_qr_code` | `AskTicket`, `CheckAccepted`, `LockTicket`, `InsertTicket` or `RotateTicket` |
| `scan_qr_code` | `StartScan`, `ReadTicket`, `MarkScanned` |
| answers of guests, time | `AnswerChanges`; `Tick`, `PurgeFallsDue`, `TicketExpires` |

The constraints of the table (`Storable`) and the trigger of moderation
(`Restorable`) are what an UPDATE meets, after the handler's own validation
(`Valid`) of what it read. Here the clock is a number, since schedules and
deadlines are compared with it. A purge waits for the tickets that a
transaction holds: the cascade deletes their rows. A token may be scanned at any
time after it was issued. `admitted` counts the answers "scanned" and is history.

Left as the code has them: an edit that passed its checks also edits an event
that was trashed or has ended since; after its invitation deadline an event
takes no PATCH that leaves the deadline as it is; a guest who declines while a
scan is under way is let in; a decline leaves the ticket.
`docs/event-access.md` says that scanning a consumed ticket answers
`already_scanned`: so it does while the token is the latest one, is not expired
and the guest has not declined; otherwise the earlier checks answer, and the
guest is refused all the same.

### Expenses and Settlement

| code | actions |
|---|---|
| `create_event_expense` | `StartAdd`, `CheckAdd`, `CommitAdd` |
| `delete_event_expense` | `DeleteExpense` |
| `get_event_expenses_summary` | `StartSummary`, `ListExpenses`, `ReadRows`, `ReadParticipants` |
| `delete_account` with its cascades, answers | `DeleteAccount`, `AnswerChanges` |

`bill` is what the summary has read. All that `build_event_expenses_summary`
computes from it is a function of `bill`, in `Settlement`: `Share`, `Balance`,
`Transfers`. Handles, which order people of equal balance, are left out: ids do.
`Ranking` states the sorted list by its order, not how the sort finds it.
Amounts are integers without a limit, as against `i64` in the code. The
organizer's account stays: with it the event and its expenses go.

Left as the code has them: a participant may decline between the reading of the
directory and the INSERT, and afterwards, and still owes its share; an expense
whose participants' accounts are all deleted, or which is deleted between the
last two statements of a summary, counts as paid and is owed by nobody
(`Clears` says that this is all that can remain).

### Accounts

| code | actions |
|---|---|
| `register` | `StartRegister`, `SaveRegistration`, `SendVerification` |
| `verify_email`, `complete_registration` | `VerifyEmail`; `StartComplete`, `CommitComplete` |
| `oauth_google`, `oauth_apple`, `resolve_oauth_user` | `StartOAuth`, `FindUser`, `LinkIdentity`, `ClearPending`, `ResolveIdentity` |
| `save_code`, `reauthorize` | `StartReauthorize`, `ExchangeCode`, `StoreGrant` |
| `delete_account` | `StartDelete`, `CopyCredentials`, `CommitDelete` |
| `revoke_next` | `PickJob`, `AppleRevokes` or `AppleFails`, `MarkRevoked` or `PutOff`; `WorkerCrashes` |
| time | `LinkExpires`, `RetryFallsDue` |

A verification token is a number drawn per address; `opened`, `stored` and
`replaced` are history. The row locks of `complete_registration`
(`PendingFree`) and `delete_account` (`UserFree`: foreign keys wait for it) are
read off the requests. `SendVerification` leaves to chance whether the mail
arrives. `RefreshDuringDeletion` says whether a client may refresh its Apple
credential while its account is being deleted: the UPDATE of an existing
credential does not touch its foreign key and waits for nobody.

### Polls and PollViews

| code | actions |
|---|---|
| `create_event_poll` | `StartCreate`, `CommitCreate`, `Announced` or `NothingToSay`, `Notify` |
| `vote_event_poll` | `StartVote`, `LockPoll`, `CommitVote`, `Announced` or `NothingToSay` |
| `delete_event_poll` | `StartDelete`, `CommitDelete`, `Announced` |
| `publish_event`, when Redis or the instance fails | `NotAnnounced` |
| time, answers, `delete_account` | `PollExpires`, `AnswerChanges`, `DeleteAccount` |
| `issue_realtime_ticket`, `websocket` | `Connect` |
| `WsSession` | `Subscribe`, `SendReady`, `TicketExpires`, `SocketBreaks` |
| `list_event_polls`, asked for by the client | `Hear` or `OpenPage`; `EndLoad`, `LoadFails` |

`gone` of a request is what its DELETE has removed and not yet committed:
`CommitVote` adds to what is there beyond it, which the lock keeps empty
(`VotingHolds`). That options belong to their poll is left to the constant
`Options`. What a client shows is kept as whether it is still so: `view` turns
stale in the step that changes polls or votes, and current when a load ends
whose polls were not created or deleted since it began; its votes are those of
its last statement. A vote does not tear a page that is being read, for that
reason; a creation or deletion does. The client itself is not in this
repository: it is taken to do what `docs/architecture.md` asks of it.

Left as the code has them: votes stay when a guest declines or is removed; a
poll that is deleted while a vote or its own creation reads it again ends the
request with an error although it was committed; the deletion of an account is
not announced to the polls it takes votes from.

## Runs

| run | shows | bounds |
|---|---|---|
| `carpool_roles` | `OneRolePerUser` with two requests of one user in flight | 2 users, 2 carpools, 2 requests |
| `carpool_seats` | `SeatsCoverPassengers`; the handlers implement `CarpoolBoard` | 3 users, 1 carpool of up to 2 seats, 2 requests, one for each user |
| `participation` | types, `DeclinedHoldsNothing`, `TotalsMatchPromises` | 2 users, 1 carpool, 1 item of up to 2, 2 requests, one for each user |
| `seat_race` | `SeatsCoverPassengers` fails when a client has two requests in flight | 3 users, 1 carpool |
| `outbox` | one delivery at a time, no duplicate without a fault, sent was sent and stays sent, bounded attempts, every notice is settled | 2 rows, 2 workers, 2 contents, 1 fault |
| `sessions` | eras, rotation, logout and revocation | 1 device, 2 requests, 3 tokens, 1 reset, 1 link, 1 deadline |
| `contacts` | block, acceptance, links | 2 users, 2 requests in flight, 2 friend requests, 1 link |
| `event_day` | schedule in order, hidden stays hidden, let in once, the door list is kept, events end | 2 edits, 2 requests, 1 guest, 2 tokens, days 0 to 2 |
| `expenses` | transfers clear all debts, are few, and rest on what is stored | 4 users, 3 kinds of expenses, 2 added, 2 requests |
| `accounts` | a link opens one account, no stored token is forgotten, deletions revoke, revocations get done | 1 address, 1 Apple identity, 1 client, 2 requests, 1 worker, 2 accounts, 2 links, 2 tokens of Apple |
| `forgotten_credential` | `TokensAccountedFor` fails when a credential is refreshed during the deletion | the same |
| `polls` | the ballot box is implemented, a client that hears all is current, every client catches up | 2 users, 1 poll of 2 options, 2 requests, 1 viewer, 1 request at a time while it watches |

Why these are enough. The races of this code are between two transactions: two
requests show each of them, and a third would have to wait for the same lock. A
role conflict needs two carpools and one user; a wrong seat count needs a user
who leaves and one who stays or joins; a drifting total needs two promises of one
user. A stolen outbox row needs two workers; a crash or late delivery needs one
fault, and two faults differ by one more of the same. A reset racing a renewal
needs one era; a lost answer needs the login and two renewals, three tokens. A
block races with one other request. The two
PATCHes of `event_day` are each valid alone and wrong together, in one order
after a PUT as well. Two requests and two tokens give two scans of one token,
scans of an old and a new one, two first tickets, and a rotation or purge
between a scan's steps; tickets of different guests share no row. Two
expenses leave two creditors and two debtors, with amounts that do and do not
divide; a summary races one other request and the deletions, which are steps of
their own. Two accounts in turn at one address, two links and two tokens show
what an earlier one leaves for a later one; a refresh and a deletion are two
requests. Two votes of one user are two requests at one poll, and polls share no
row. A viewer is independent of any other, and what it misses it misses of any
request: while it watches, one request at a time commits (`Together`), and the
announcement of an earlier one may still be under way with the load of another.
`PollsProofs` has neither bound. The clock
passes the event's end and its retention (`CleanupDays = 0`, 7 in the code).
`MaxSeats`, `MaxQty`, `MaxAttempts` (8 in the
code, 2 here), `MaxIssued`, `MaxEras`, `MaxLinks`, `MaxRequests`, `MaxTicks`,
`MaxVersions`, `MaxFaults`, `MaxTokens`, `Horizon`, `MaxExpenses`,
`MaxAccounts`, `MaxGrants`, `MaxPolls`, `Together` are bounds of the model; the theorems hold for all
values of them.

`OneRequestPerUser = TRUE` says that each client waits for its answers: under
it, declines release everything, seats are counted right and totals agree, and
`seat_race` shows why it is needed (`DeclinedHoldsNothing` fails too with
`OneRequestPerUser = FALSE` in `participation.cfg`). `OneRolePerUser` holds
without it. `EventChanges` is TRUE where dates pass during requests; it is FALSE
elsewhere, since it multiplies states and none of those properties mentions
dates. `CHECK_DEADLOCK FALSE` in `sessions`: the account may be deleted and the
token bound used up, so that nothing is left to do; in `event_day`, nothing is
left once the event is purged; in `accounts`, `forgotten_credential` and `polls`,
once the bounds on accounts, tokens and polls are used up. `PasswordAtFirst = TRUE`
in `sessions`: the account begins with a password, so that both ways to log in
are open; the theorems do not depend on it.

Symmetry: guests and request slots in `Participation` (`CHOOSE` picks a carpool,
never a user), request slots in `Contacts`, `Sessions` and `Expenses`. The runs with
liveness properties have none.

### Fairness

Four runs need it. For `outbox`, `FairSpec` makes `Pick`, each delivery and the
clock's two steps weakly fair: the worker's ticker fires every two seconds for as
long as an instance runs, its provider calls have timeouts, and time passes.
`Enqueue`, `ContactChanges`, `DeleteRecipient` and faults are not fair. Weak
fairness is enough: a due row stays due until somebody picks it.

For `event_day`, `FairSpec` of `EventTickets` makes the clock (`Tick`,
`PurgeFallsDue`), the cleanup (hourly, in every instance) and each request in
progress weakly fair; a request that cannot proceed may fail. The purge is
strongly fair, since each request that holds a ticket disables it for a
moment: its DELETE queues for the row, and Postgres serves lock queues in order.
Edits, restorations, moderation and requests are not fair, so `EventsEnd`
exempts an event that is restored again and again, or hidden.

For `accounts`, `FairSpec` of `Accounts` says that time passes (`RetryFallsDue`)
and a worker that has Apple's refusal writes it down (`PutOff`), weakly; and,
strongly, that the tickers of the instances find a due row (`PickJob`) that
other workers may have in hand for a moment, that Apple accepts in the end a token
it is asked about again and again, and that an instance which is started again and
again does not crash each time between the answer and the COMMIT. The API, the
mail and the requests are not fair.

For `polls`, `ViewsFairness` says that a socket ends with its ticket
(`TicketExpires`, weakly: the heartbeat looks every fifteen seconds) and that
what a client tries again and again gets through in the end: connecting with
backoff, the subscription (Redis is configured), the load on a message. No
request, announcement or load of its own accord is fair. `ViewersCatchUp` exempts
polls that go on changing and viewers who are not members.

### Findings

* `seat_race`: a decline gives back a seat that a leave has given back already,
  because it reads the carpool without its lock.
* `forgotten_credential`: a refreshed Apple credential that is stored between
  the two statements of `delete_account` goes with the account and is never revoked.

Each quotes, in `PROJECT.json`, the sentence of the repository it contradicts.
Observed by changing a constant of a run: a decline does not release what a
request that checked membership before it writes after it
(`OneRequestPerUser = FALSE` in `participation.cfg`); a late delivery turns `sent`
into `retry`, since deliveries mark their row by id (`SlowBatches = TRUE` in
`outbox.cfg`); content enqueued under a key whose row is being delivered is
marked with the outcome of the old content (`ReuseUnsettled = TRUE`). Observed
with no sentence against it: a PATCH of something else switches on a playlist
that was cleared since it read the row; a token revoked by a logout works again
in the leeway after its `exp`; friends may be left with a pending request; a
seat is lost with a deleted account; two half edits of a playlist may leave a
link without provider, which the table's CHECK accepts because it evaluates to
NULL; a token that Apple has issued and whose INSERT fails is held by nobody.

## Proofs

All are of the form `Spec => []Inv`, or an action property, from the assumption on the
constants that the module states, by an inductive invariant.

**`ParticipationProofs`**: a user has one role (`OneRole`). Being driver and
passenger at once is excluded by no constraint. The invariant adds what the
advisory lock gives: a request between its check and its COMMIT is of a user
who has no role (`NoRoleOnceChecked`), no user has two of these
(`OneCheckPerUser`), and rows of carpools that do not exist are empty
(`DeadCarpoolsAreEmpty`: a new carpool must not find a passenger). Steps that
only shrink drivers and passengers are handled once (`ShrinkingStep`); what
remains is the two checks and the two commits. `CarpoolTypes` covers the
variables this argument needs, `ParticipationTyped` all of them.
Seats, declines and the board are proved under `OneRequestPerUser`, without which
`seat_race` refutes the first of them. The invariant `SeatsInv` says what a decline has
read is still so when it commits (`Leaving`): its user drives the carpool it is about to
delete, whose row it holds; rides in the carpool it is about to give a seat back to, or that
carpool is gone; and has made no new reservation. It holds because only a user's own
requests give that user anything (`NoGain`), and others take away only with a deleted
carpool (`Spared`). Then a seat is given back once (`SeatsCover`), a decline leaves
nothing (`DeclinesRelease`), and `seats_taken < seats_total` means a free seat, which
is what the refinement of `CarpoolBoard` needs (`BoardKept`): a decline or the deletion
of an account is one move, since its user is a driver or a passenger.
The counter of an item is the sum of the promises of all users (`TotalsAreSums`), under
the same assumption. A reservation and a deleted account write a sum that they compute
from the locked rows; a decline takes off what it has listed three statements
earlier, and stops at zero. So the invariant `TotalsInv` adds `ListsHold`: what
a decline has listed is what its user still promises, because those rows are locked
and the user has no other request; and the counter is at least that, being a sum that
contains it. What a sum over a set is, and how it changes with one of its terms, are
lemmas of the module, by induction on finite sets (`MinimalSubset`).

**`SessionsProofs`**: after a reset, nothing earlier is accepted
(`ProofsStayCurrent`). The inductive fact is `VersionsKeepEras`: the row's
version equals the era, and everything stored or under way carries the version
of its own era. A login that read the row before a reset writes a session of
the old version: it is stored, and never valid. Versions are never read a second
time between a check and a write, which is what the mutant `VersionNow` breaks.
The second argument (`ChainInductive`) is about who holds a session: one device,
or the logout that took it from the device (`Apart`). The row knows the holder's
secret and no renewal under way presents a later one (`Holds`), so that retries
may rotate the row on but never rotate the holder out of it. Hence
`DevicesKeepSessions`; and the DELETE of a logout finds its row, although it looks
for a secret that a renewal may have replaced (`LogoutsEndSessions`).
`SignedOutIsRevoked` is inductive as it stands.

**`ContactsProofs`**: a block ends contact (`BlocksEndContact`). A transaction
past its guard writes without looking at blocks again; the invariant says that
what it saw still holds (`GuardHolds`) because the pair's lock is exclusive
(`LockIsExclusive`), and a block needs that lock to commit. The rows have an argument
of their own (`RowsInductive`): the request an answer has read with FOR UPDATE
is still there and pending when it commits (`AnswersHold`), and the link a claim
has read is unused (`ClaimsHold`), since one transaction holds a row
(`RowsAreExclusive`) and the DELETEs of a block wait for it. From this follow
`FriendsAccepted` and `LinksLetOneIn`; `AcceptedGuestsStay` needs none of it.

**`EventTicketsProofs`**: the schedule stays in order because every edit passes
the table's constraints, whatever it read (`SchedulesInOrder`); what is hidden
stays hidden (`ModerationHolds`); a guest is let in once (`GuestsLetInOnce`) and
the door list is implemented (`DoorListKept`). The inductive invariant
`TicketInv` adds to the types that a guest was let in as often as the ticket
says while there are tickets (`CountsMatch`), that a request about to rotate is
for a ticket that exists (`RequestsMatch`: its row is locked, so that a purge
waits), and that an event that is gone has no purge date (`PurgedIsOver`: it is
not purged, or restored, a second time).
A scan in progress when the event is purged finds no row.

**`AccountsProofs`**: a link opens one account (`LinksOpenOneAccount`), from
`TokensFresh` (numbers are drawn once, and the row of a token goes in the step in
which it opens an account) and `CompletionsHold` (that row is locked by one
request alone). No stored token is forgotten (`TokensStayAccountedFor`) and
an account with an Apple identity goes with a revocation (`DeletionsRevoke`),
both under `~RefreshDuringDeletion`: what `delete_account` has checked and copied
still holds when it commits (`DeletionsHold`), because the foreign keys of new
identities and credentials wait for the row it has locked. The conjunction of
both invariants with the types is `AccountsInv`, which the run `accounts` checks
and `AccountsInductive` states.

**`PollsProofs`**: `PollsInductive` and `BallotsAreSound` rest on `VotingHolds`: a
vote past its lock is alone at its poll, the poll is there, and all votes of its
user there are among those it has deleted, so that what it commits is its
choice and nothing else (`VoteReplaces`). `BallotBoxKept` is the refinement:
the voter before a box is the request past its lock. `ViewsArePolls` takes
these over to `PollViews`, and `ViewsAreCurrent` proves `HeardAllIsCurrent`
from `Accounted`: a client whose page is stale or torn has a message coming, has
missed one, or is owed an announcement (`Owed`) by a request that has not found
its own poll gone. That last condition is why `NothingToSay` loses nothing: the
deletion that removed the poll owes an announcement of its own, or has made it.

**`OutboxProofs`**: `OutboxTyped` holds for all constants. The rest is under `Prompt`
(`~SlowBatches /\ ~ReuseUnsettled`), as in `outbox.cfg`, because the code relies on it:
a batch that outlasts five minutes is picked again while it is delivered, and content
enqueued under a key whose row is in hand is marked for what it replaced. The invariant goes row by
row (`RowOK`), and a step of one row leaves the others alone (`RowLeftAlone`). Its
heart is `AsPicked`: what a worker has in hand is gone with its recipient, or still as
it was picked, processing, not stale and in no other hands. So the mark, which looks
at the id alone, falls on the content it is about. `Pickable` carries the count: a row
that may be picked has been sent no more often than there were faults, and each
fault allows one more attempt (`HandLost`).

**`ExpensesProofs`**: a summary is faithful to what is still stored
(`SummariesAreRight`). What a request has read is right of every expense that it
found and that is still there (`Right`, part of the inductive `ExpensesInv`). It
rests on two facts: a found id is at most `lastId`, while the sequence only gives
out `lastId + 1`, so that no later expense takes the place of a found one; and
participants leave an expense only together with their accounts (the foreign keys
in `TypeOK`). If ids were used again, or a deleted account stayed among the
participants, the proof would fail at these steps.

And the transfers of a summary settle its bill (`TransfersSettleBills`), which holds
of every bill, whatever a summary may have read (`BillIsCleared`). The argument:

* The shares of an expense add up to its amount (`SharesAddUp`): every participant
  owes the quotient, and those whose rank is below the remainder a cent more; ranks
  in an order are 0 to n - 1, each once (`RanksArePlaces`).
* So balances add up to what was paid for expenses without participants
  (`BalancesAddUp`, by exchanging the sums over expenses and over users), which is
  not negative.
* Both lists hold each creditor and each debtor once, with what is open
  (`RankingIsAList`).
* `Settling` is the invariant of the loop: what u is still owed after the transfers
  so far is what is open of u among the creditors, less what is open among the
  debtors; the sum of it never changes; transfers go from negative to positive
  balances. `Going` counts: a transfer takes at least one entry off the lists, and
  the last one takes two. `PayGoes` shows that a turn keeps both, `LoopClears` that
  no debtor is left when one list is empty: the debtors' rest would add up to less
  than nothing.

Sums and the loop are recursive functions. That they exist, and what they add up to
or reach, is proved without an induction theorem: what fails for some subset, or
after some number of turns, fails first for a minimal one (`MinimalSubset`,
`LeastNumber`). If one participant too many paid a cent more, if a turn paid the
larger of both amounts, or if the loop ended after as many turns as there are
creditors, the proof would fail.

**Checked by TLC only.** Liveness (`EventuallySettled`, `EventsEnd`,
`RevokedInTheEnd`, `ViewersCatchUp`) and everything under fairness, which are out
of the prover's reach. Every invariant that a run checks is also proved.

## Plan

The order followed what the system can least afford to get wrong. All of it is done.

1. `Participation` with `CarpoolBoard` and the proof of roles.
2. `NotificationOutbox`, safety and liveness.
3. `Sessions` and the proof of eras.
4. `Contacts` and the proof about blocks.
5. `Events`, `EventTickets` with `DoorList`, and their proofs.
6. `Expenses` with `Settlement`.
7. `Accounts` and the proofs about links and Apple's tokens.
8. `Polls` with `BallotBox`, `PollViews`, and their proofs.
9. The proofs about the outbox, about who holds a session, and about the rows of
   `Contacts`.
10. The proofs of the seat counter, of declines and of the refinement of
    `CarpoolBoard`.
11. The proof that summaries are faithful.
12. The proof about the totals of items.
13. The proof that the transfers of `Settlement` clear every bill.

## Not modelled

* Rate limiting: each call is one Redis script, and its answer is left to chance.
* Address search: a lease and a cache around an external geocoder, which protect
  the rate of calls in wall-clock time; no state of the application.
* Reports, terms, catalogue, payment providers, push tokens, profiles: single
  statements, or validation of text and images.
* The global channel of realtime, and the announcements of other components: they
  use the functions that `PollViews` models, for loads it has not.
* Configuration, pagination, metrics, documentation, command-line tools.
