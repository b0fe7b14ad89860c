------------------------------ MODULE Contacts ------------------------------
(***************************************************************************)
(* Who may reach whom: friend requests, friendships, blocks, and the       *)
(* invitations and share links of one event.                               *)
(*                                                                         *)
(* The rule that a block ends all contact lives in the triggers of         *)
(* migration 011.  fiestaaa_guard_contact runs in every transaction that   *)
(* would open a contact, takes the advisory lock of the two users, and     *)
(* refuses when one has blocked the other; fiestaaa_block_cleanup takes    *)
(* the same lock and withdraws what was open.  The lock is held until the  *)
(* transaction ends.  What the handlers look at before is read without it. *)
(*                                                                         *)
(* Any request may end at any point (Fail): an early return, a statement   *)
(* that fails, a deadlock that Postgres breaks, a crash.  Nothing but a    *)
(* commit changes the tables.                                              *)
(***************************************************************************)
EXTENDS Integers

CONSTANTS
    Users,         \* accounts, or addresses that may get one
    Owner,         \* the owner of the event
    None,          \* no user
    Slots,         \* requests in flight
    MaxRequests,   \* bound on the friend requests made
    MaxLinks       \* bound on the share links made

ASSUME ContactsAssumption ==
    /\ Owner \in Users
    /\ None \notin Users
    /\ MaxRequests \in Nat
    /\ MaxLinks \in Nat

VARIABLES
    known,       \* users with an account
    friends,     \* friendships, as pairs
    requests,    \* friend_requests
    blocks,      \* user_blocks: who blocks whom
    guest,       \* status of each user's invitation to the event
    links,       \* event_share_tokens of the event
    asked,       \* friend requests made so far
    shared,      \* links made so far
    work         \* requests in flight

tables == <<known, friends, requests, blocks, guest, links, asked, shared>>
vars   == <<known, friends, requests, blocks, guest, links, asked, shared, work>>

-----------------------------------------------------------------------------
\* Those the event's invitations matter for.  The row an owner gets by claiming
\* an own link, or by inviting the own handle, concerns no pair of users.
Guests == Users \ {Owner}

Statuses == {"none", "Waiting", "Accepted", "Declined", "Expired"}

FriendRequest == [id       : 1..MaxRequests,
                  sender   : Users,
                  receiver : Users,
                  status   : {"Pending", "Accepted", "Declined"}]

Link == [id      : 1..MaxLinks,
         target  : Users \cup {None},   \* target_email_lookup_hash
         usedBy  : Users \cup {None},   \* used_by_user_id, used_at
         over    : BOOLEAN,             \* expires_at < now
         guarded : BOOLEAN]             \* its guard knew the account; the model's

Work == [op    : {"request", "answer", "block", "invite", "email", "claim"},
         at    : {"asked", "read", "checked", "held", "guarded", "unguarded", "mail"},
         by    : Users,
         to    : Users,
         row   : 0..(MaxRequests + MaxLinks),   \* the row locked or written
         reply : {"none", "Accepted", "Declined"}]

Idle == [op |-> "idle", at |-> "idle", by |-> None, to |-> None, row |-> 0,
         reply |-> "none"]

Init ==
    /\ known = {Owner}
    /\ friends = {}
    /\ requests = {}
    /\ blocks = {}
    /\ guest = [u \in Guests |-> "none"]
    /\ links = {}
    /\ asked = 0
    /\ shared = 0
    /\ work = [r \in Slots |-> Idle]

-----------------------------------------------------------------------------
(* What transactions look at and wait for.                                 *)

\* fiestaaa_contact_blocked
Blocked(a, b) == <<a, b>> \in blocks \/ <<b, a>> \in blocks

Pending(a, b) == \E q \in requests :
    q.status = "Pending" /\ {q.sender, q.receiver} = {a, b}

\* Mutant: the triggers take no lock.
PairAlwaysFree(r, a, b) == TRUE

\* pg_advisory_xact_lock of the pair: no other transaction holds it.
PairFree(r, a, b) == \A s \in Slots \ {r} :
    ~(work[s].at = "guarded" /\ {work[s].by, work[s].to} = {a, b})

\* Mutant: the row is read without FOR UPDATE.
RowAlwaysFree(r, op, id) == TRUE

\* FOR UPDATE of a friend request (op "answer") or a link (op "claim").
RowFree(r, op, id) == \A s \in Slots \ {r} :
    ~(work[s].op = op /\ work[s].row = id)

-----------------------------------------------------------------------------
(* Steps of requests.                                                      *)

Begin(r, op, at, by, to, row, reply) ==
    /\ work[r] = Idle
    /\ work' = [work EXCEPT ![r] = [op |-> op, at |-> at, by |-> by, to |-> to,
                                    row |-> row, reply |-> reply]]
    /\ UNCHANGED tables

Goes(r, op, from, to) ==
    /\ work[r].op = op /\ work[r].at = from
    /\ work' = [work EXCEPT ![r].at = to]
    /\ UNCHANGED tables

Done(r) == work' = [work EXCEPT ![r] = Idle]

Fail(r) ==
    /\ work[r] # Idle
    /\ Done(r)
    /\ UNCHANGED tables

\* The BEFORE trigger of the INSERT or UPDATE; a block takes the lock and does
\* not ask who is blocked.
Guard(r) ==
    LET q == work[r] IN
    /\ q.at \in {"checked", "held"}
    /\ q.to \in known
    /\ PairFree(r, q.by, q.to)
    /\ q.op # "block" => ~Blocked(q.by, q.to)
    /\ Goes(r, q.op, q.at, "guarded")

-----------------------------------------------------------------------------
(* Friends.                                                                *)

\* create_friend_request: ensure_contact, are_friends, pending_request_exists
AskFriend(r, a, b) ==
    /\ a # b /\ {a, b} \subseteq known
    /\ ~Blocked(a, b)
    /\ Begin(r, "request", "asked", a, b, 0, "none")

SeesNoFriendship(r) ==
    /\ Goes(r, "request", "asked", "read")
    /\ {work[r].by, work[r].to} \notin friends

SeesNoRequest(r) ==
    /\ Goes(r, "request", "read", "checked")
    /\ ~Pending(work[r].by, work[r].to)

\* INSERT, unless friend_requests_pending_pair_idx says 23505.
CommitRequest(r) ==
    LET q == work[r] IN
    /\ q.op = "request" /\ q.at = "guarded"
    /\ asked < MaxRequests
    /\ ~Pending(q.by, q.to)
    /\ asked' = asked + 1
    /\ requests' = requests \cup {[id |-> asked + 1, sender |-> q.by,
                                   receiver |-> q.to, status |-> "Pending"]}
    /\ Done(r)
    /\ UNCHANGED <<known, friends, blocks, guest, links, shared>>

\* respond_friend_request: SELECT ... FOR UPDATE finds a pending request to the
\* user who answers.
AnswerFriend(r, q, reply) ==
    /\ q.status = "Pending"
    /\ RowFree(r, "answer", q.id)
    /\ Begin(r, "answer", "held", q.receiver, q.sender, q.id, reply)

\* Mutant: a friendship whatever the answer.
AnyReply(q) == TRUE

Befriends(q) == q.reply = "Accepted"

CommitAnswer(r) ==
    LET q == work[r] IN
    /\ q.op = "answer" /\ q.at = "guarded"
    /\ requests' = {IF f.id = q.row THEN [f EXCEPT !.status = q.reply] ELSE f :
                    f \in requests}
    /\ friends' = friends \cup (IF Befriends(q) THEN {{q.by, q.to}} ELSE {})
    /\ Done(r)
    /\ UNCHANGED <<known, blocks, guest, links, asked, shared>>

DeleteFriend(a, b) ==
    /\ {a, b} \in friends
    /\ friends' = friends \ {{a, b}}
    /\ UNCHANGED <<known, requests, blocks, guest, links, asked, shared, work>>

-----------------------------------------------------------------------------
(* Blocks.                                                                 *)

Block(r, a, b) ==
    /\ a # b /\ {a, b} \subseteq known
    /\ Begin(r, "block", "checked", a, b, 0, "none")

\* Mutant: every invitation goes.
AnyInvitation(status) == status # "none"

\* The invitations a block withdraws.
Withdrawn(status) == status = "Waiting"

\* fiestaaa_block_cleanup after its lock, the INSERT and COMMIT.  Its DELETEs
\* wait for the rows that others hold.
CommitBlock(r) ==
    LET a == work[r].by
        b == work[r].to
        ends(u) == {a, b} = {u, Owner}
        between(f) == {f.sender, f.receiver} = {a, b}
        toEither(l) == l.target # None /\ ends(l.target)
    IN
    /\ work[r].op = "block" /\ work[r].at = "guarded"
    /\ \A f \in requests : between(f) => RowFree(r, "answer", f.id)
    /\ \A l \in links : toEither(l) => RowFree(r, "claim", l.id)
    /\ blocks' = blocks \cup {<<a, b>>}
    /\ friends' = friends \ {{a, b}}
    /\ requests' = {f \in requests : ~between(f)}
    /\ guest' = [u \in Guests |->
                    IF ends(u) /\ Withdrawn(guest[u]) THEN "none" ELSE guest[u]]
    /\ links' = {l \in links : ~toEither(l)}
    /\ Done(r)
    /\ UNCHANGED <<known, asked, shared>>

Unblock(a, b) ==
    /\ <<a, b>> \in blocks
    /\ blocks' = blocks \ {<<a, b>>}
    /\ UNCHANGED <<known, friends, requests, guest, links, asked, shared, work>>

-----------------------------------------------------------------------------
(* Invitations.                                                            *)

\* create_invitation by handle
Invite(r, u) ==
    /\ u \in known
    /\ Begin(r, "invite", "checked", Owner, u, 0, "none")

\* Mutant: a status that invitations_status_check refuses.
InvitedPending(status) == IF status \in {"none", "Expired"} THEN "Pending" ELSE status

\* insert_invitation_for_user: ON CONFLICT DO UPDATE ... WHERE 'Expired'
Invited(status) == IF status \in {"none", "Expired"} THEN "Waiting" ELSE status

CommitInvite(r) ==
    LET u == work[r].to IN
    /\ work[r].op = "invite" /\ work[r].at = "guarded"
    /\ guest' = [guest EXCEPT ![u] = Invited(guest[u])]
    /\ Done(r)
    /\ UNCHANGED <<known, friends, requests, blocks, links, asked, shared>>

\* invite_email_target: the block, the invitation and the pending link are each
\* looked up in a statement of its own.
InviteByEmail(r, u) ==
    /\ ~Blocked(Owner, u)
    /\ Begin(r, "email", "asked", Owner, u, 0, "none")

SeesNoInvitation(r) ==
    /\ Goes(r, "email", "asked", "read")
    /\ guest[work[r].to] \in {"none", "Expired"}

SeesNoLink(r) ==
    /\ Goes(r, "email", "read", "checked")
    /\ \A l \in links : l.target = work[r].to => l.usedBy # None \/ l.over

\* The guard of a link to an address without account returns before its lock.
GuardUnknown(r) ==
    /\ work[r].to \notin known
    /\ Goes(r, "email", "checked", "unguarded")

CommitLink(r) ==
    LET q == work[r] IN
    /\ q.op = "email" /\ q.at \in {"guarded", "unguarded"}
    /\ shared < MaxLinks
    /\ shared' = shared + 1
    /\ links' = links \cup {[id |-> shared + 1, target |-> q.to, usedBy |-> None,
                             over |-> FALSE, guarded |-> q.at = "guarded"]}
    /\ work' = [work EXCEPT ![r].at = "mail", ![r].row = shared + 1]
    /\ UNCHANGED <<known, friends, requests, blocks, guest, asked>>

\* The mail could not be sent: its link is deleted.
MailFails(r) ==
    /\ work[r].at = "mail"
    /\ RowFree(r, "claim", work[r].row)
    /\ links' = {l \in links : l.id # work[r].row}
    /\ Done(r)
    /\ UNCHANGED <<known, friends, requests, blocks, guest, asked, shared>>

\* create_share_link: for whoever gets it
CreateShareLink ==
    /\ shared < MaxLinks
    /\ shared' = shared + 1
    /\ links' = links \cup {[id |-> shared + 1, target |-> None, usedBy |-> None,
                             over |-> FALSE, guarded |-> TRUE]}
    /\ UNCHANGED <<known, friends, requests, blocks, guest, asked, work>>

\* claim_share_link: SELECT ... FOR UPDATE finds a link the user may use.
Claim(r, u, l) ==
    /\ u \in known
    /\ l.usedBy = None /\ ~l.over
    /\ l.target \in {None, u}
    /\ RowFree(r, "claim", l.id)
    /\ Begin(r, "claim", "held", u, Owner, l.id, "none")

\* The invitation, if there is none yet, and the link in one transaction.
CommitClaim(r) ==
    LET u == work[r].by IN
    /\ work[r].op = "claim" /\ work[r].at = "guarded"
    /\ guest' = [v \in Guests |->
                    IF v = u /\ guest[v] = "none" THEN "Waiting" ELSE guest[v]]
    /\ links' = {IF l.id = work[r].row THEN [l EXCEPT !.usedBy = u] ELSE l : l \in links}
    /\ Done(r)
    /\ UNCHANGED <<known, friends, requests, blocks, asked, shared>>

\* respond_invitation: a status other than Waiting passes the guard unlocked.
RespondInvitation(u, status) ==
    /\ guest[u] \notin {"none", "Expired"}
    /\ guest' = [guest EXCEPT ![u] = status]
    /\ UNCHANGED <<known, friends, requests, blocks, links, asked, shared, work>>

ExpireInvitation(u) ==
    /\ guest[u] = "Waiting"
    /\ guest' = [guest EXCEPT ![u] = "Expired"]
    /\ UNCHANGED <<known, friends, requests, blocks, links, asked, shared, work>>

DeleteInvitation(u) ==
    /\ guest[u] # "none"
    /\ guest' = [guest EXCEPT ![u] = "none"]
    /\ UNCHANGED <<known, friends, requests, blocks, links, asked, shared, work>>

LinkExpires(l) ==
    /\ ~l.over
    /\ RowFree(None, "claim", l.id)
    /\ links' = (links \ {l}) \cup {[l EXCEPT !.over = TRUE]}
    /\ UNCHANGED <<known, friends, requests, blocks, guest, asked, shared, work>>

Register(u) ==
    /\ u \notin known
    /\ known' = known \cup {u}
    /\ UNCHANGED <<friends, requests, blocks, guest, links, asked, shared, work>>

-----------------------------------------------------------------------------
Serves(r) ==
    \/ \E a, b \in Users : AskFriend(r, a, b) \/ Block(r, a, b)
    \/ SeesNoFriendship(r) \/ SeesNoRequest(r) \/ CommitRequest(r)
    \/ \E q \in requests, reply \in {"Accepted", "Declined"} : AnswerFriend(r, q, reply)
    \/ CommitAnswer(r)
    \/ CommitBlock(r)
    \/ \E u \in Guests : Invite(r, u) \/ InviteByEmail(r, u)
    \/ CommitInvite(r)
    \/ SeesNoInvitation(r) \/ SeesNoLink(r) \/ GuardUnknown(r)
    \/ CommitLink(r) \/ MailFails(r)
    \/ \E u \in Users, l \in links : Claim(r, u, l)
    \/ CommitClaim(r)
    \/ Guard(r)
    \/ Fail(r)

Next ==
    \/ \E r \in Slots : Serves(r)
    \/ \E a, b \in Users : DeleteFriend(a, b) \/ Unblock(a, b)
    \/ \E u \in Users : Register(u)
    \/ \E u \in Guests : ExpireInvitation(u) \/ DeleteInvitation(u)
    \/ \E u \in Guests, s \in {"Accepted", "Declined"} : RespondInvitation(u, s)
    \/ \E l \in links : LinkExpires(l)
    \/ CreateShareLink

Spec == Init /\ [][Next]_vars

-----------------------------------------------------------------------------
(* Properties.                                                             *)

\* Every table has its type.
TypeOK ==
    /\ known \subseteq Users
    /\ friends \subseteq SUBSET Users
    /\ requests \subseteq FriendRequest
    /\ blocks \subseteq Users \X Users
    /\ guest \in [Guests -> Statuses]
    /\ links \subseteq Link
    /\ asked \in 0..MaxRequests
    /\ shared \in 0..MaxLinks
    /\ work \in [Slots -> Work \cup {Idle}]

\* Two users one of whom blocks the other are no friends, have no friend
\* request and no waiting invitation between them, and no link was made for the
\* one by the other: whatever was checked before the block was committed.  Only
\* a link made for an address before it had an account may remain; claiming it
\* is refused by the guard of the invitation.
BlockEndsContact ==
    \A b \in blocks : LET pair == {b[1], b[2]} IN
        /\ pair \notin friends
        /\ \A q \in requests : {q.sender, q.receiver} # pair
        /\ \A u \in Guests : {u, Owner} = pair =>
            /\ guest[u] # "Waiting"
            /\ \A l \in links : l.target = u => ~l.guarded

\* Every friendship rests on a request that its receiver accepted: deleting a
\* block or a friendship recreates none.
FriendshipsWereAccepted ==
    \A pair \in friends : \E q \in requests :
        q.status = "Accepted" /\ {q.sender, q.receiver} = pair

\* A block does not undo participation that was accepted, also when the answer
\* and the block are under way at once.
AcceptedStays ==
    [][\A u \in Guests : guest[u] = "Accepted" /\ blocks' # blocks
                        => guest'[u] = "Accepted"]_vars

\* A link lets one user in: who used it never changes.
LinkUsedOnce ==
    [][\A l \in links, m \in links' : m.id = l.id /\ l.usedBy # None
                                      => m.usedBy = l.usedBy]_vars
=============================================================================
