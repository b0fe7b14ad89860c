---------------------------- MODULE Participation ----------------------------
(***************************************************************************)
(* Who takes part in one event, and what a participant holds there: a      *)
(* carpool (as driver or as passenger) and promised quantities of items.   *)
(*                                                                         *)
(* Several HTTP requests run at once against PostgreSQL (READ COMMITTED).  *)
(* A request is a record in req: what it has read so far and how far it    *)
(* got. Between two of its steps any other request may commit.  What a     *)
(* transaction has written but not committed stays in its record, the row  *)
(* and advisory locks it holds are read off its pc, and the database       *)
(* variables change at COMMIT only. Two consecutive statements are one     *)
(* step when the locks the first one takes make the order unobservable.    *)
(*                                                                         *)
(* Realtime messages (publish_event) carry no state and are left out.      *)
(***************************************************************************)
EXTENDS Integers, FiniteSets, FiniteSetsExt

CONSTANTS
    Users,              \* accounts that may exist
    Owner,              \* users.id of the event's owner
    CarpoolIds,         \* values the carpools sequence hands out, never twice
    Items,              \* catalogue items that may be attached to the event
    Kind,               \* items.item_kind, "need" or "bring", of each item
    Requests,           \* requests that may be in flight together
    MaxSeats,           \* bound on the seats_total a payload asks for
    MaxQty,             \* bound on the quantities a payload asks for
    OneRequestPerUser,  \* TRUE when each client waits for its last answer
    EventChanges,       \* TRUE when the event's dates pass, or are edited
    None                \* SQL NULL, or no row

ASSUME ParticipationAssumption ==
    /\ Owner \in Users
    /\ None \notin Users \cup CarpoolIds \cup Items \cup Requests
    /\ IsFiniteSet(Users)
    /\ Kind \in [Items -> {"need", "bring"}]
    /\ MaxSeats \in Nat \ {0}
    /\ MaxQty \in Nat \ {0}
    /\ OneRequestPerUser \in BOOLEAN
    /\ EventChanges \in BOOLEAN

VARIABLES
    accounts,     \* users rows
    invitation,   \* invitations.status of each user, "None" without a row
    writable,     \* what ensure_event_writable answers
    overdue,      \* CURRENT_DATE > events.invitation_deadline
    minted,       \* carpool ids the sequence has handed out
    driver,       \* carpools.driver_id, None when there is no such row
    seatsTotal,   \* carpools.seats_total
    seatsTaken,   \* carpools.seats_taken
    passengers,   \* carpool_passengers of each carpool
    maxQty,       \* events_items.max_quantity, 0 when not attached
    reserved,     \* events_items.quantity
    creator,      \* events_items.created_by
    promise,      \* user_items.quantity, 0 without a row
    req,          \* the requests in flight
    enqueued      \* notification_outbox rows the last step inserted

carpoolVars == <<minted, driver, seatsTotal, seatsTaken, passengers>>
itemVars    == <<maxQty, reserved, creator, promise>>
memberVars  == <<accounts, invitation, writable, overdue>>
vars == <<memberVars, carpoolVars, itemVars, req, enqueued>>

-----------------------------------------------------------------------------
Statuses == {"None", "Waiting", "Accepted", "Declined", "Expired"}

PCs == {"idle", "create", "createChecked", "join", "joinChecked", "leave",
        "update", "delete", "deleteListed", "accept", "decline",
        "declineListed", "declineReleased", "reserve", "attach", "custom",
        "drop", "notify"}

\* A notice is an outbox row: its kind, its carpool (None for an answer to an
\* invitation) and its recipient.
Notices == [kind : {"joined", "left", "cancelled", "invited", "response"},
            carpool : CarpoolIds \cup {None}, to : Users]

NoPromise == [i \in Items |-> 0]

Request ==
    [pc       : PCs,
     user     : Users \cup {None},                 \* the authenticated user
     target   : CarpoolIds \cup Items \cup {None}, \* path parameter or row read
     amount   : Nat,                               \* seats_total or quantity
     owned    : CarpoolIds \cup {None},            \* a decliner's own carpool
     riders   : SUBSET Users,                      \* passenger_ids as listed
     promised : [Items -> Nat],                    \* reservations as listed
     dropped  : SUBSET Items,                      \* user_items rows deleted
     notice   : SUBSET Notices]                    \* to enqueue after COMMIT

Idle == [pc |-> "idle", user |-> None, target |-> None, amount |-> 0,
         owned |-> None, riders |-> {}, promised |-> NoPromise,
         dropped |-> {}, notice |-> {}]

\* A request that begins, and one that only has notices left to enqueue.
Beginning(u, pc, target, amount) ==
    [Idle EXCEPT !.pc = pc, !.user = u, !.target = target, !.amount = amount]

Notifying(u, notice) ==
    [Idle EXCEPT !.pc = "notify", !.user = u, !.notice = notice]

CarpoolTypeOK ==
    /\ accounts \subseteq Users
    /\ invitation \in [Users -> Statuses]
    /\ writable \in BOOLEAN
    /\ overdue \in BOOLEAN
    /\ minted \subseteq CarpoolIds
    /\ driver \in [CarpoolIds -> Users \cup {None}]
    /\ seatsTotal \in [CarpoolIds -> Nat]
    /\ seatsTaken \in [CarpoolIds -> Nat]
    /\ passengers \in [CarpoolIds -> SUBSET Users]
    /\ promise \in [Users -> [Items -> Nat]]
    /\ req \in [Requests -> Request]
    /\ enqueued \subseteq Notices

TypeOK ==
    /\ CarpoolTypeOK
    /\ maxQty \in [Items -> Nat]
    /\ reserved \in [Items -> Nat]
    /\ creator \in [Items -> Users \cup {None}]

Init ==
    /\ accounts = Users
    /\ invitation = [u \in Users |-> "None"]
    /\ writable = TRUE
    /\ overdue = FALSE
    /\ minted = {}
    /\ driver = [c \in CarpoolIds |-> None]
    /\ seatsTotal = [c \in CarpoolIds |-> 0]
    /\ seatsTaken = [c \in CarpoolIds |-> 0]
    /\ passengers = [c \in CarpoolIds |-> {}]
    /\ maxQty = [i \in Items |-> 0]
    /\ reserved = [i \in Items |-> 0]
    /\ creator = [i \in Items |-> None]
    /\ promise = [u \in Users |-> NoPromise]
    /\ req = [r \in Requests |-> Idle]
    /\ enqueued = {}

-----------------------------------------------------------------------------
\* What the committed rows say.

Live(c)     == driver[c] # None
Attached(i) == maxQty[i] > 0

\* Mutant: any invitation counts, not only an accepted one.
InvitedMember(u) == u = Owner \/ invitation[u] # "None"

Member(u) == u = Owner \/ invitation[u] = "Accepted"

\* carpools.driver_id = u or carpool_passengers.user_id = u
DrivesIn(u) == {c \in CarpoolIds : driver[c] = u}
RidesIn(u)  == {c \in CarpoolIds : u \in passengers[c]}

\* Locks held by requests other than r, read off their progress.

\* Mutant: create_carpool and join_carpool take no lock in common.
AdvisoryNotTaken(r, u) == TRUE

AdvisoryFree(r, u) ==
    \A q \in Requests \ {r} :
        req[q].user = u => req[q].pc \notin {"createChecked", "joinChecked"}

CarpoolFree(r, c) ==
    \A q \in Requests \ {r} :
        /\ req[q].pc = "joinChecked" => req[q].target # c
        /\ req[q].pc = "declineReleased" => req[q].owned # c

InvitationFree(r, u) ==
    \A q \in Requests \ {r} :
        req[q].user = u => req[q].pc \notin {"declineListed", "declineReleased"}

PromiseFree(r, u, i) ==
    \A q \in Requests \ {r} :
        req[q].user = u /\ req[q].pc \in {"declineListed", "declineReleased"} =>
            req[q].promised[i] = 0 /\ i \notin req[q].dropped

ItemFree(r, i) ==
    \A q \in Requests \ {r} :
        req[q].pc = "declineReleased" => req[q].promised[i] = 0

-----------------------------------------------------------------------------
\* A request of user u starts in request slot r, after authentication.
Admit(r, u, pc, target, amount) ==
    /\ req[r].pc = "idle"
    /\ u \in accounts
    /\ OneRequestPerUser => \A q \in Requests : req[q].user # u
    /\ req' = [req EXCEPT ![r] = Beginning(u, pc, target, amount)]
    /\ enqueued' = {}
    /\ UNCHANGED <<carpoolVars, itemVars>>

Start(r, u, pc, target, amount) ==
    /\ Admit(r, u, pc, target, amount)
    /\ UNCHANGED memberVars

Finish(r) == req' = [req EXCEPT ![r] = Idle]

\* COMMIT, leaving one notice that notify_users inserts afterwards.
FinishThenNotify(r, notice) ==
    req' = [req EXCEPT ![r] = Notifying(req[r].user, notice)]

\* An early return, a database error, a deadlock victim, a lost connection or
\* a crash: the transaction rolls back and the request ends.
Fail(r) ==
    /\ req[r].pc # "idle"
    /\ Finish(r)
    /\ enqueued' = {}
    /\ UNCHANGED <<memberVars, carpoolVars, itemVars>>

\* notify_users, after the handler's COMMIT.
Notify(r) ==
    /\ req[r].pc = "notify"
    /\ enqueued' = {n \in req[r].notice : n.to \in accounts}
    /\ Finish(r)
    /\ UNCHANGED <<memberVars, carpoolVars, itemVars>>

-----------------------------------------------------------------------------
\* POST /events/{event_id}/carpools

StartCreate(r, u, n) ==
    /\ Member(u)
    /\ writable
    /\ Start(r, u, "create", None, n)

\* Takes the advisory lock of (event, user), then looks for a role.
CheckCreate(r) ==
    /\ req[r].pc = "create"
    /\ AdvisoryFree(r, req[r].user)
    /\ DrivesIn(req[r].user) \cup RidesIn(req[r].user) = {}
    /\ req' = [req EXCEPT ![r].pc = "createChecked"]
    /\ enqueued' = {}
    /\ UNCHANGED <<memberVars, carpoolVars, itemVars>>

\* INSERT: foreign key on users, unique (event_id, driver_id).
CommitCreate(r) ==
    LET u == req[r].user IN
    /\ req[r].pc = "createChecked"
    /\ u \in accounts
    /\ DrivesIn(u) = {}
    /\ \E c \in CarpoolIds \ minted :
          /\ minted' = minted \cup {c}
          /\ driver' = [driver EXCEPT ![c] = u]
          /\ seatsTotal' = [seatsTotal EXCEPT ![c] = req[r].amount]
          /\ seatsTaken' = [seatsTaken EXCEPT ![c] = 0]
    /\ Finish(r)
    /\ enqueued' = {}
    /\ UNCHANGED <<memberVars, itemVars, passengers>>

-----------------------------------------------------------------------------
\* POST /carpools/{carpool_id}/join

StartJoin(r, u, c) ==
    /\ Live(c)
    /\ Member(u)
    /\ writable
    /\ Start(r, u, "join", c, 0)

\* Mutant: a driver may take a seat of the own carpool.
AnyoneBoards(u, c) == TRUE

NotItsDriver(u, c) == driver[c] # u

\* Takes the advisory lock and the carpool row, then looks for another role.
CheckJoin(r) ==
    LET u == req[r].user
        c == req[r].target
    IN
    /\ req[r].pc = "join"
    /\ AdvisoryFree(r, u)
    /\ CarpoolFree(r, c)
    /\ Live(c)
    /\ NotItsDriver(u, c)
    /\ DrivesIn(u) \ {c} = {}
    /\ RidesIn(u) = {}
    /\ req' = [req EXCEPT ![r].pc = "joinChecked"]
    /\ enqueued' = {}
    /\ UNCHANGED <<memberVars, carpoolVars, itemVars>>

HasSeat(c) == seatsTaken[c] < seatsTotal[c]

\* Guarded UPDATE of the seats, INSERT (foreign key on users, unique
\* (event_id, user_id)), the driver's notice, COMMIT.
CommitJoin(r) ==
    LET u == req[r].user
        c == req[r].target
    IN
    /\ req[r].pc = "joinChecked"
    /\ u \in accounts
    /\ HasSeat(c)
    /\ RidesIn(u) = {}
    /\ seatsTaken' = [seatsTaken EXCEPT ![c] = @ + 1]
    /\ passengers' = [passengers EXCEPT ![c] = @ \cup {u}]
    /\ enqueued' = {[kind |-> "joined", carpool |-> c, to |-> driver[c]]}
    /\ Finish(r)
    /\ UNCHANGED <<memberVars, itemVars, minted, driver, seatsTotal>>

-----------------------------------------------------------------------------
\* Mutant: GREATEST(..., 0) is missing.
SeatsWithoutFloor(n) == n - 1

\* GREATEST(seats_taken - 1, 0)
OneSeatLess(n) == IF n > 0 THEN n - 1 ELSE 0

\* DELETE /carpools/{carpool_id}/join

StartLeave(r, u, c) ==
    /\ Live(c)
    /\ writable
    /\ Start(r, u, "leave", c, 0)

\* Mutant: a DELETE that found no row gives a seat back all the same.
WasJoinedOrNot(u, c) == TRUE

\* The DELETE of the passenger row returned it.
WasJoined(u, c) == u \in passengers[c]

\* The advisory lock, the carpool row, DELETE, UPDATE and COMMIT.
CommitLeave(r) ==
    LET u == req[r].user
        c == req[r].target
    IN
    /\ req[r].pc = "leave"
    /\ AdvisoryFree(r, u)
    /\ CarpoolFree(r, c)
    /\ Live(c)
    /\ WasJoined(u, c)
    /\ passengers' = [passengers EXCEPT ![c] = @ \ {u}]
    /\ seatsTaken' = [seatsTaken EXCEPT ![c] = OneSeatLess(@)]
    /\ FinishThenNotify(r, {[kind |-> "left", carpool |-> c, to |-> driver[c]]})
    /\ enqueued' = {}
    /\ UNCHANGED <<memberVars, itemVars, minted, driver, seatsTotal>>

-----------------------------------------------------------------------------
\* PATCH /carpools/{carpool_id}

StartUpdate(r, c, n) ==
    /\ Live(c)
    /\ Start(r, driver[c], "update", c, n)

CommitUpdate(r) ==
    LET c == req[r].target IN
    /\ req[r].pc = "update"
    /\ CarpoolFree(r, c)
    /\ Live(c)
    /\ writable
    /\ req[r].amount >= seatsTaken[c]
    /\ seatsTotal' = [seatsTotal EXCEPT ![c] = req[r].amount]
    /\ Finish(r)
    /\ enqueued' = {}
    /\ UNCHANGED <<memberVars, itemVars, minted, driver, seatsTaken, passengers>>

-----------------------------------------------------------------------------
\* Deletes the carpools in C, with their passengers, and u's passenger rows in
\* the carpools in from; the seats of those in freed go down by one.
DropSeats(C, u, from, freed) ==
    /\ driver' = [c \in CarpoolIds |-> IF c \in C THEN None ELSE driver[c]]
    /\ seatsTotal' = [c \in CarpoolIds |-> IF c \in C THEN 0 ELSE seatsTotal[c]]
    /\ seatsTaken' = [c \in CarpoolIds |->
            IF c \in C THEN 0
            ELSE IF c \in freed THEN OneSeatLess(seatsTaken[c])
            ELSE seatsTaken[c]]
    /\ passengers' = [c \in CarpoolIds |->
            IF c \in C THEN {}
            ELSE IF c \in from THEN passengers[c] \ {u}
            ELSE passengers[c]]
    /\ UNCHANGED minted

\* DELETE /carpools/{carpool_id}

StartDelete(r, c) ==
    /\ Live(c)
    /\ writable
    /\ Start(r, driver[c], "delete", c, 0)

\* Lists the passengers to notify, without a lock.
ListPassengers(r) ==
    /\ req[r].pc = "delete"
    /\ req' = [req EXCEPT ![r].pc = "deleteListed",
                          ![r].riders = passengers[req[r].target]]
    /\ enqueued' = {}
    /\ UNCHANGED <<memberVars, carpoolVars, itemVars>>

\* A carpool that is gone by now still has its notices enqueued. The foreign
\* key of the outbox fails the transaction when a listed account is gone.
CommitDelete(r) ==
    LET c == req[r].target IN
    /\ req[r].pc = "deleteListed"
    /\ CarpoolFree(r, c)
    /\ req[r].riders \subseteq accounts
    /\ DropSeats({c}, None, {}, {})
    /\ enqueued' = {[kind |-> "cancelled", carpool |-> c, to |-> p] :
                        p \in req[r].riders}
    /\ Finish(r)
    /\ UNCHANGED <<memberVars, itemVars>>

-----------------------------------------------------------------------------
\* Invitations

\* What ensure_event_writable and the invitation deadline answer changes with
\* the clock, and with the owner's edits of the event.
Reschedule ==
    /\ EventChanges
    /\ writable' \in BOOLEAN
    /\ overdue' \in BOOLEAN
    /\ enqueued' = {}
    /\ UNCHANGED <<accounts, invitation, carpoolVars, itemVars, req>>

\* Rows an UPDATE of the overdue invitations would change.
Overdue == {u \in Users : overdue /\ invitation[u] = "Waiting"}

ExpireOverdue ==
    /\ \A u \in Overdue : InvitationFree(None, u)
    /\ invitation' = [u \in Users |->
                        IF u \in Overdue THEN "Expired" ELSE invitation[u]]
    /\ UNCHANGED <<accounts, writable, overdue>>

\* The periodic cleanup of expired invitations.
Cleanup ==
    /\ Overdue # {}
    /\ ExpireOverdue
    /\ enqueued' = {}
    /\ UNCHANGED <<carpoolVars, itemVars, req>>

\* POST /events/{event_id}/invitations by handle; the request may be cut
\* before it notifies.
Invite(u) ==
    /\ writable
    /\ ~overdue
    /\ u \in accounts
    /\ InvitationFree(None, u)
    /\ invitation[u] \in {"None", "Expired"}
    /\ invitation' = [invitation EXCEPT ![u] = "Waiting"]
    /\ enqueued' \in {{}, {[kind |-> "invited", carpool |-> None, to |-> u]}}
    /\ UNCHANGED <<accounts, writable, overdue, carpoolVars, itemVars, req>>

\* DELETE /events/{event_id}/invitations/{identifier}: the row, and no more.
RemoveGuest(u) ==
    /\ writable
    /\ invitation[u] # "None"
    /\ InvitationFree(None, u)
    /\ invitation' = [invitation EXCEPT ![u] = "None"]
    /\ enqueued' = {}
    /\ UNCHANGED <<accounts, writable, overdue, carpoolVars, itemVars, req>>

\* PATCH /my/invitations/{event_id}

StartRespond(r, u, answer) ==
    /\ writable
    /\ ExpireOverdue
    /\ Admit(r, u, answer, None, 0)

\* SELECT ... FOR UPDATE finds an answerable invitation.
Answerable(r) ==
    /\ InvitationFree(r, req[r].user)
    /\ invitation[req[r].user] \notin {"None", "Expired"}

Response(u) ==
    IF u = Owner THEN {}
    ELSE {[kind |-> "response", carpool |-> None, to |-> Owner]}

CommitAccept(r) ==
    /\ req[r].pc = "accept"
    /\ Answerable(r)
    /\ invitation' = [invitation EXCEPT ![req[r].user] = "Accepted"]
    /\ FinishThenNotify(r, Response(req[r].user))
    /\ enqueued' = {}
    /\ UNCHANGED <<accounts, writable, overdue, carpoolVars, itemVars>>

\* Locks the invitation and the reservations it can see.
ListPromises(r) ==
    /\ req[r].pc = "decline"
    /\ Answerable(r)
    /\ req' = [req EXCEPT ![r].pc = "declineListed",
                          ![r].promised = promise[req[r].user]]
    /\ enqueued' = {}
    /\ UNCHANGED <<memberVars, carpoolVars, itemVars>>

Only(S) == IF S = {} THEN None ELSE CHOOSE x \in S : TRUE

\* Gives the listed quantities back, deletes the user's reservations and own
\* carpool, and reads which carpool the user rides in, without its lock.
ReleasePromises(r) ==
    LET u == req[r].user IN
    /\ req[r].pc = "declineListed"
    /\ \A i \in Items : req[r].promised[i] > 0 => ItemFree(r, i)
    /\ \A c \in DrivesIn(u) : CarpoolFree(r, c)
    /\ req' = [req EXCEPT ![r].pc = "declineReleased",
                          ![r].dropped = {i \in Items : promise[u][i] > 0},
                          ![r].owned = Only(DrivesIn(u)),
                          ![r].target = Only(RidesIn(u))]
    /\ enqueued' = {}
    /\ UNCHANGED <<memberVars, carpoolVars, itemVars>>

\* DELETE of the passenger row, whatever it removes; UPDATE of the seats of
\* the carpool read before; COMMIT.
CommitDecline(r) ==
    LET u == req[r].user
        c == req[r].target
    IN
    /\ req[r].pc = "declineReleased"
    /\ c # None => CarpoolFree(r, c)
    /\ invitation' = [invitation EXCEPT ![u] = "Declined"]
    /\ reserved' = [i \in Items |->
            IF reserved[i] > req[r].promised[i]
            THEN reserved[i] - req[r].promised[i] ELSE 0]
    /\ promise' = [promise EXCEPT ![u] =
            [i \in Items |-> IF i \in req[r].dropped THEN 0 ELSE promise[u][i]]]
    /\ DropSeats({req[r].owned}, u, {c}, {c})
    /\ FinishThenNotify(r, Response(u))
    /\ enqueued' = {}
    /\ UNCHANGED <<accounts, writable, overdue, maxQty, creator>>

-----------------------------------------------------------------------------
\* Items of the event

\* POST /events/{event_id}/items/{item_id}/reserve

StartReserve(r, u, i, q) ==
    /\ Member(u)
    /\ writable
    /\ Start(r, u, "reserve", i, q)

\* Mutant: the user's earlier promise is not taken off first.
TotalAfterAdding(u, i, q) == reserved[i] + q

\* events_items.quantity once user u promises q instead of what was promised.
NewTotal(u, i, q) == reserved[i] - promise[u][i] + q

\* The item row and the user's row are locked while both are rewritten.
CommitReserve(r) ==
    LET u == req[r].user
        i == req[r].target
        total == NewTotal(u, i, req[r].amount)
    IN
    /\ req[r].pc = "reserve"
    /\ ItemFree(r, i)
    /\ PromiseFree(r, u, i)
    /\ Attached(i)
    /\ u \in accounts
    /\ total \in 0..maxQty[i]
    /\ reserved' = [reserved EXCEPT ![i] = total]
    /\ promise' = [promise EXCEPT ![u][i] = req[r].amount]
    /\ Finish(r)
    /\ enqueued' = {}
    /\ UNCHANGED <<memberVars, carpoolVars, maxQty, creator>>

\* POST /events/{event_id}/items

StartAttach(r, i, q) ==
    /\ writable
    /\ Start(r, Owner, "attach", i, q)

\* An upsert: an attached item gets the new maximum, whatever is reserved.
CommitAttach(r) ==
    LET i == req[r].target IN
    /\ req[r].pc = "attach"
    /\ ItemFree(r, i)
    /\ maxQty' = [maxQty EXCEPT ![i] = req[r].amount]
    /\ creator' = IF Attached(i) THEN creator ELSE [creator EXCEPT ![i] = Owner]
    /\ Finish(r)
    /\ enqueued' = {}
    /\ UNCHANGED <<memberVars, carpoolVars, reserved, promise>>

\* POST /events/{event_id}/items/custom

StartCustom(r, u, i, q) ==
    /\ Member(u)
    /\ writable
    /\ Kind[i] = "need" => u = Owner
    /\ Start(r, u, "custom", i, q)

\* An item of that name and kind grows (up to MaxQty here); otherwise a row
\* is inserted, with a foreign key on its creator.
CommitCustom(r) ==
    LET i == req[r].target IN
    /\ req[r].pc = "custom"
    /\ ItemFree(r, i)
    /\ maxQty[i] + req[r].amount <= MaxQty
    /\ Attached(i) \/ req[r].user \in accounts
    /\ maxQty' = [maxQty EXCEPT ![i] = @ + req[r].amount]
    /\ creator' = IF Attached(i) THEN creator
                  ELSE [creator EXCEPT ![i] = req[r].user]
    /\ Finish(r)
    /\ enqueued' = {}
    /\ UNCHANGED <<memberVars, carpoolVars, reserved, promise>>

\* Deletes item rows and the reservations on them.
DropItems(S) ==
    /\ maxQty' = [i \in Items |-> IF i \in S THEN 0 ELSE maxQty[i]]
    /\ promise' = [v \in Users |->
                    [i \in Items |-> IF i \in S THEN 0 ELSE promise[v][i]]]

\* DELETE /events/{event_id}/items/{item_id}

StartDrop(r, u, i) ==
    /\ writable
    /\ Start(r, u, "drop", i, 0)

CommitDrop(r) ==
    LET i == req[r].target IN
    /\ req[r].pc = "drop"
    /\ ItemFree(r, i)
    /\ \A v \in Users : PromiseFree(r, v, i)
    /\ Attached(i)
    /\ req[r].user \in {Owner, creator[i]}
    /\ DropItems({i})
    /\ reserved' = [reserved EXCEPT ![i] = 0]
    /\ creator' = [creator EXCEPT ![i] = None]
    /\ Finish(r)
    /\ enqueued' = {}
    /\ UNCHANGED <<memberVars, carpoolVars>>

-----------------------------------------------------------------------------
\* SUM(user_items.quantity) of an item over the users in S.
Promised(S, i) == MapThenSumSet(LAMBDA v : promise[v][i], S)

\* DELETE /me, by a guest (the owner's takes the whole event away): the
\* reservations go and totals are summed again, the guest's own brings go, and
\* deleting the account cascades to invitation, carpool and passenger rows.
\* Nothing gives the seat of a passenger back.
DeleteAccount(u) ==
    LET touched == {i \in Items : creator[i] = u \/ promise[u][i] > 0}
        brings  == {i \in Items : creator[i] = u /\ Kind[i] = "bring"}
    IN
    /\ u \in accounts \ {Owner}
    /\ InvitationFree(None, u)
    /\ \A i \in touched :
            ItemFree(None, i) /\ \A v \in Users : PromiseFree(None, v, i)
    /\ \A c \in DrivesIn(u) : CarpoolFree(None, c)
    /\ accounts' = accounts \ {u}
    /\ invitation' = [invitation EXCEPT ![u] = "None"]
    /\ maxQty' = [i \in Items |-> IF i \in brings THEN 0 ELSE maxQty[i]]
    /\ reserved' = [i \in Items |->
            IF i \in brings THEN 0
            ELSE IF i \in touched THEN Promised(Users \ {u}, i)
            ELSE reserved[i]]
    /\ creator' = [i \in Items |-> IF creator[i] = u THEN None ELSE creator[i]]
    /\ promise' = [v \in Users |-> [i \in Items |->
            IF v = u \/ i \in brings THEN 0 ELSE promise[v][i]]]
    /\ DropSeats(DrivesIn(u), u, CarpoolIds, {})
    /\ enqueued' = {}
    /\ UNCHANGED <<writable, overdue, req>>

-----------------------------------------------------------------------------
Begin(r) ==
    \/ \E u \in Users :
        \/ \E n \in 1..MaxSeats : StartCreate(r, u, n)
        \/ \E c \in CarpoolIds : StartJoin(r, u, c)
        \/ \E c \in CarpoolIds : StartLeave(r, u, c)
        \/ \E answer \in {"accept", "decline"} : StartRespond(r, u, answer)
        \/ \E i \in Items, q \in 0..MaxQty : StartReserve(r, u, i, q)
        \/ \E i \in Items, q \in 1..MaxQty : StartCustom(r, u, i, q)
        \/ \E i \in Items : StartDrop(r, u, i)
    \/ \E c \in CarpoolIds :
        \/ \E n \in 1..MaxSeats : StartUpdate(r, c, n)
        \/ StartDelete(r, c)
    \/ \E i \in Items, q \in 1..MaxQty : StartAttach(r, i, q)

Advance(r) ==
    \/ CheckCreate(r) \/ CommitCreate(r)
    \/ CheckJoin(r) \/ CommitJoin(r)
    \/ CommitLeave(r) \/ CommitUpdate(r)
    \/ ListPassengers(r) \/ CommitDelete(r)
    \/ CommitAccept(r)
    \/ ListPromises(r) \/ ReleasePromises(r) \/ CommitDecline(r)
    \/ CommitReserve(r) \/ CommitAttach(r) \/ CommitCustom(r) \/ CommitDrop(r)
    \/ Notify(r)

Next ==
    \/ \E r \in Requests : Begin(r) \/ Advance(r) \/ Fail(r)
    \/ \E u \in Users : Invite(u) \/ RemoveGuest(u) \/ DeleteAccount(u)
    \/ Cleanup
    \/ Reschedule

Spec == Init /\ [][Next]_vars

\* The carpools of the database, read as the board of rides they stand for.
Board == INSTANCE CarpoolBoard
            WITH Carpools <- CarpoolIds, Seats <- 1..MaxSeats,
                 capacity <- seatsTotal, riders <- passengers

-----------------------------------------------------------------------------
\* A user has one role in the event: driver of one carpool, or passenger of
\* one, never both. No constraint of the schema excludes "both": only the
\* advisory lock does, between create_carpool and join_carpool.
OneRolePerUser ==
    \A u \in Users, c, d \in CarpoolIds :
        /\ driver[c] = u => u \notin passengers[d]
        /\ driver[c] = u /\ driver[d] = u => c = d
        /\ u \in passengers[c] /\ u \in passengers[d] => c = d

\* What OneRolePerUser rests on. A carpool that does not exist has no rider and
\* no seat to take; between its check and its COMMIT a creator or a joiner has
\* no role; and no user has two requests between check and COMMIT.
Checked(r) == req[r].pc \in {"createChecked", "joinChecked"}

DeadCarpoolsAreEmpty ==
    \A c \in CarpoolIds :
        /\ c \notin minted => driver[c] = None
        /\ driver[c] = None => passengers[c] = {} /\ seatsTotal[c] = 0

NoRoleOnceChecked ==
    \A r \in Requests : Checked(r) =>
        \A c \in CarpoolIds :
            driver[c] # req[r].user /\ req[r].user \notin passengers[c]

OneCheckPerUser ==
    \A r, q \in Requests :
        Checked(r) /\ Checked(q) /\ req[r].user = req[q].user => r = q

\* A request that is under way has a user, and carpool requests a carpool id.
RequestsAddressed ==
    \A r \in Requests :
        /\ req[r].pc # "idle" => req[r].user \in Users
        /\ req[r].pc \in {"join", "joinChecked", "leave", "update", "delete",
                         "deleteListed"} => req[r].target \in CarpoolIds

\* The four facts above with OneRolePerUser: the inductive form of it, on
\* which every step of the carpool, invitation and account handlers relies.
RolesInductive ==
    /\ RequestsAddressed
    /\ DeadCarpoolsAreEmpty
    /\ NoRoleOnceChecked
    /\ OneCheckPerUser
    /\ OneRolePerUser

\* seats_taken, the only thing join_carpool looks at, never counts fewer
\* people than really ride, and so no carpool takes more than it has seats.
SeatsCoverPassengers ==
    \A c \in CarpoolIds :
        /\ Cardinality(passengers[c]) <= seatsTaken[c]
        /\ seatsTaken[c] <= seatsTotal[c]

\* A guest who declined keeps no carpool, no seat and no reservation
\* (respond_invitation releases all three).
DeclinedHoldsNothing ==
    \A u \in Users \ {Owner} :
        invitation[u] = "Declined" =>
            /\ DrivesIn(u) \cup RidesIn(u) = {}
            /\ \A i \in Items : promise[u][i] = 0

\* events_items.quantity is the sum of what the users promised: the total kept
\* by reservations, declines and account deletions does not drift.
TotalsMatchPromises ==
    \A i \in Items : reserved[i] = Promised(Users, i)

\* Every step of the handlers is one step of the board, or none: whatever runs
\* at the same time, carpools behave as if requests came one after the other.
ImplementsBoard == Board!Spec
=============================================================================
