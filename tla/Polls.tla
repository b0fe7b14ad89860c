-------------------------------- MODULE Polls --------------------------------
(***************************************************************************)
(* The polls of one event: created by its organizer, voted on by members,  *)
(* closed by time, deleted, and emptied of the votes of deleted accounts.  *)
(*                                                                         *)
(* As in Participation, a request is a record in req and the locks of its  *)
(* transaction are read off its pc. A change is announced in a step of its *)
(* own, after COMMIT: PollViews says who hears of it. Whether the event is   *)
(* writable when a request begins is left to chance.                       *)
(***************************************************************************)
EXTENDS Integers, FiniteSets

CONSTANTS
    Users,
    Owner,          \* the organizer, whose account stays
    Admins,         \* admin_emails: ensure_event_owner lets them pass
    Options,        \* event_poll_options of a poll
    Choices,        \* the option_ids a client may submit, as sets
    Requests,       \* requests that may be in flight together
    MaxPolls,       \* bound on event_polls.poll_id
    None

Ids == 1..MaxPolls

ASSUME PollsAssumption ==
    /\ Owner \in Users
    /\ Admins \subseteq Users
    /\ Choices \subseteq SUBSET Options
    /\ MaxPolls \in Nat
    /\ None \notin Users \cup Ids

VARIABLES
    accounts,       \* users that have an account
    accepted,       \* guests whose invitation is accepted
    lastPoll,       \* the sequence behind poll_id
    poll,           \* event_polls row of each id, or NoPoll
    votes,          \* event_poll_votes: options of each poll and user
    enqueued,       \* users for whom the last step put poll_created in the outbox
    req             \* the requests in flight

userVars == <<accounts, accepted>>
pollVars == <<lastPoll, poll, votes>>
vars == <<userVars, pollVars, enqueued, req>>

-----------------------------------------------------------------------------
NoPoll == [single |-> FALSE, open |-> FALSE, by |-> None, here |-> FALSE]

\* open: expires_at has not passed; by: created_by.
PollRow == [single : BOOLEAN, open : BOOLEAN, by : Users \cup {None}, here : {TRUE}]

PCs == {"idle", "create", "vote", "voting", "delete", "created", "voted",
        "deleted", "notify"}

Request ==
    [pc     : PCs,
     user   : Users \cup {None},
     poll   : Ids \cup {None},
     choice : SUBSET Options,
     gone   : SUBSET Options,       \* own votes, deleted and not yet committed
     single : BOOLEAN]

Idle == [pc |-> "idle", user |-> None, poll |-> None, choice |-> {}, gone |-> {},
         single |-> FALSE]

TypeOK ==
    /\ accounts \in SUBSET Users
    /\ accepted \in SUBSET Users
    /\ lastPoll \in 0..MaxPolls
    /\ poll \in [Ids -> PollRow \cup {NoPoll}]
    /\ votes \in [Ids -> [Users -> SUBSET Options]]
    /\ enqueued \in SUBSET Users
    /\ req \in [Requests -> Request]

Init ==
    /\ accounts = Users
    /\ accepted = Users \ {Owner}
    /\ lastPoll = 0
    /\ poll = [p \in Ids |-> NoPoll]
    /\ votes = [p \in Ids |-> [u \in Users |-> {}]]
    /\ enqueued = {}
    /\ req = [r \in Requests |-> Idle]

-----------------------------------------------------------------------------
At(r, pc)     == req[r].pc = pc
Step(r, next) == req' = [req EXCEPT ![r] = next]
End(r)        == Step(r, Idle)

AtMostOne(S)  == \A x, y \in S : x = y

\* ensure_event_member.
Member(u) == u \in accounts /\ (u = Owner \/ u \in accepted)

\* Mutant: vote_event_poll reads its poll without FOR UPDATE.
PollNeverHeld(p) == TRUE

\* The row of a poll, which a vote holds FOR UPDATE until it commits.
PollFree(p) == \A r \in Requests : ~(At(r, "voting") /\ req[r].poll = p)

-----------------------------------------------------------------------------
\* create_event_poll: ensure_event_owner and ensure_event_writable.
StartCreate(r, u) ==
    /\ At(r, "idle")
    /\ u \in accounts \cap ({Owner} \cup Admins)
    /\ \E s \in BOOLEAN :
         Step(r, [Idle EXCEPT !.pc = "create", !.user = u, !.single = s])
    /\ UNCHANGED <<userVars, pollVars>>
    /\ enqueued' = {}

\* The poll and its options, in one transaction.
CommitCreate(r) ==
    LET p == lastPoll + 1 IN
    /\ At(r, "create")
    /\ p \in Ids
    /\ req[r].user \in accounts
    /\ lastPoll' = p
    /\ poll' = [poll EXCEPT ![p] = [single |-> req[r].single, open |-> TRUE,
                                    by |-> req[r].user, here |-> TRUE]]
    /\ Step(r, [Idle EXCEPT !.pc = "created", !.user = req[r].user, !.poll = p])
    /\ UNCHANGED <<userVars, votes>>
    /\ enqueued' = {}

\* The accepted guests are told, except the creator.
Notify(r) ==
    /\ At(r, "notify")
    /\ enqueued' = accepted \ {req[r].user}
    /\ End(r)
    /\ UNCHANGED <<userVars, pollVars>>

-----------------------------------------------------------------------------
\* vote_event_poll: ensure_event_member and ensure_event_writable.
StartVote(r, u, p, c) ==
    /\ At(r, "idle")
    /\ Member(u)
    /\ poll[p].here
    /\ Step(r, [Idle EXCEPT !.pc = "vote", !.user = u, !.poll = p, !.choice = c])
    /\ UNCHANGED <<userVars, pollVars>>
    /\ enqueued' = {}

\* Mutant: the number of options is checked for polls of several choices only.
AdmitsAny(p, c) == poll[p].here /\ poll[p].open

\* What the row must say, once it is locked.
Admits(p, c) == poll[p].here /\ poll[p].open /\ (poll[p].single => AtMostOne(c))

\* The poll FOR UPDATE; the DELETE of the votes the user has there.
LockPoll(r) ==
    LET p == req[r].poll IN
    /\ At(r, "vote")
    /\ PollFree(p)
    /\ Admits(p, req[r].choice)
    /\ Step(r, [req[r] EXCEPT !.pc = "voting", !.gone = votes[p][req[r].user]])
    /\ UNCHANGED <<userVars, pollVars>>
    /\ enqueued' = {}

\* The INSERTs and COMMIT; they fail without the account, and on a vote that
\* the DELETE has not seen.
CommitVote(r) ==
    LET p == req[r].poll  u == req[r].user  c == req[r].choice
        kept == votes[p][u] \ req[r].gone IN
    /\ At(r, "voting")
    /\ c # {} => u \in accounts
    /\ c \cap kept = {}
    /\ votes' = [votes EXCEPT ![p][u] = kept \cup c]
    /\ Step(r, [Idle EXCEPT !.pc = "voted", !.poll = p])
    /\ UNCHANGED <<userVars, lastPoll, poll>>
    /\ enqueued' = {}

-----------------------------------------------------------------------------
\* delete_event_poll: the organizer, or whoever created the poll.
StartDelete(r, u, p) ==
    /\ At(r, "idle")
    /\ u \in accounts
    /\ poll[p].here
    /\ u \in {Owner, poll[p].by}
    /\ Step(r, [Idle EXCEPT !.pc = "delete", !.poll = p])
    /\ UNCHANGED <<userVars, pollVars>>
    /\ enqueued' = {}

\* The DELETE, with the votes; it waits for a vote that holds the poll.
CommitDelete(r) ==
    LET p == req[r].poll IN
    /\ At(r, "delete")
    /\ poll[p].here
    /\ PollFree(p)
    /\ poll' = [poll EXCEPT ![p] = NoPoll]
    /\ votes' = [votes EXCEPT ![p] = [u \in Users |-> {}]]
    /\ Step(r, [req[r] EXCEPT !.pc = "deleted"])
    /\ UNCHANGED <<userVars, lastPoll>>
    /\ enqueued' = {}

-----------------------------------------------------------------------------
\* publish_event. A creation or a vote first reads the polls again, and says
\* nothing when its own is gone; a creation goes on to the notices.
Announced(r) ==
    /\ req[r].pc \in {"created", "voted", "deleted"}
    /\ ~At(r, "deleted") => poll[req[r].poll].here
    /\ IF At(r, "created") THEN Step(r, [req[r] EXCEPT !.pc = "notify", !.poll = None]) ELSE End(r)
    /\ UNCHANGED <<userVars, pollVars>>
    /\ enqueued' = {}

NothingToSay(r) ==
    /\ req[r].pc \in {"created", "voted"}
    /\ ~poll[req[r].poll].here
    /\ End(r)
    /\ UNCHANGED <<userVars, pollVars>>
    /\ enqueued' = {}

\* The instance stops, the polls cannot be read, or Redis is not reached, whose
\* errors publish_json ignores: the change is not announced.
NotAnnounced(r) ==
    /\ req[r].pc \in {"created", "voted", "deleted"}
    /\ \/ End(r)
       \/ At(r, "created") /\ Step(r, [req[r] EXCEPT !.pc = "notify", !.poll = None])
    /\ UNCHANGED <<userVars, pollVars>>
    /\ enqueued' = {}

\* A request ends with no further write: an early return, a failed statement,
\* a lost connection, a crash.
Fail(r) ==
    /\ req[r].pc \in {"create", "vote", "voting", "delete", "notify"}
    /\ End(r)
    /\ UNCHANGED <<userVars, pollVars>>
    /\ enqueued' = {}

-----------------------------------------------------------------------------
\* expires_at passes.
PollExpires(p) ==
    /\ poll[p].open
    /\ poll' = [poll EXCEPT ![p].open = FALSE]
    /\ UNCHANGED <<userVars, lastPoll, votes, req>>
    /\ enqueued' = {}

\* A guest accepts, declines, or is removed: its votes stay.
AnswerChanges(u) ==
    /\ u \in accounts \ {Owner}
    /\ accepted' = IF u \in accepted THEN accepted \ {u} ELSE accepted \cup {u}
    /\ UNCHANGED <<accounts, pollVars, req>>
    /\ enqueued' = {}

\* delete_account: votes CASCADE, created_by SET NULL, which waits for the rows
\* of those polls.
DeleteAccount(u) ==
    /\ u \in accounts \ {Owner}
    /\ \A p \in Ids : poll[p].by = u => PollFree(p)
    /\ accounts' = accounts \ {u}
    /\ accepted' = accepted \ {u}
    /\ votes' = [p \in Ids |-> [votes[p] EXCEPT ![u] = {}]]
    /\ poll' = [p \in Ids |-> IF poll[p].by = u THEN [poll[p] EXCEPT !.by = None]
                                                ELSE poll[p]]
    /\ UNCHANGED <<lastPoll, req>>
    /\ enqueued' = {}

-----------------------------------------------------------------------------
\* Steps of a request before and up to its COMMIT, and its notices.
Handle(r) ==
    \/ \E u \in Users : StartCreate(r, u)
    \/ \E u \in Users, p \in Ids : StartDelete(r, u, p)
    \/ \E u \in Users, p \in Ids, c \in Choices : StartVote(r, u, p, c)
    \/ CommitCreate(r)
    \/ LockPoll(r)
    \/ CommitVote(r)
    \/ CommitDelete(r)
    \/ NothingToSay(r)
    \/ Notify(r)
    \/ Fail(r)

Environment ==
    \/ \E p \in Ids : PollExpires(p)
    \/ \E u \in Users : AnswerChanges(u)

Next ==
    \/ \E r \in Requests : Handle(r) \/ Announced(r) \/ NotAnnounced(r)
    \/ \E u \in Users : DeleteAccount(u)
    \/ Environment

Spec == Init /\ [][Next]_vars

-----------------------------------------------------------------------------
(***************************************************************************)
(* Properties.                                                             *)
(***************************************************************************)

\* A vote past its lock is alone at its poll, and has deleted all that the
\* user had there: nothing has come since.
VotingHolds ==
    \A r \in Requests : At(r, "voting") =>
        LET p == req[r].poll IN
        /\ p \in Ids
        /\ req[r].user \in Users
        /\ poll[p].here
        /\ poll[p].single => AtMostOne(req[r].choice)
        /\ votes[p][req[r].user] \subseteq req[r].gone
        /\ \A q \in Requests : At(q, "voting") /\ req[q].poll = p => q = r

\* Votes are cast in polls that exist, by accounts that exist, and a poll of one
\* choice keeps one vote of each user, also when one user votes twice at once.
BallotsSound ==
    \A p \in Ids, u \in Users :
        /\ votes[p][u] # {} => poll[p].here /\ u \in accounts
        /\ poll[p].single => AtMostOne(votes[p][u])

\* A poll_id is drawn once.
IdsAreNew == \A p \in Ids : p > lastPoll => ~poll[p].here

\* A request knows what it is about.
RequestsNamed ==
    \A r \in Requests :
        /\ req[r].pc \in {"vote", "delete", "created", "voted", "deleted"}
              => req[r].poll \in Ids
        /\ req[r].pc \in {"create", "vote"} => req[r].user \in Users

PollsInv ==
    /\ TypeOK
    /\ VotingHolds
    /\ BallotsSound
    /\ IdsAreNew
    /\ RequestsNamed

\* Votes, creations, deletions and expiry, seen from outside: users come to a
\* box one by one, and each ballot replaces the one before as a whole.
Box == INSTANCE BallotBox WITH
    Boxes  <- Ids,
    people <- accounts,
    kind   <- [p \in Ids |-> IF poll[p].here
                             THEN IF poll[p].single THEN "single" ELSE "multiple"
                             ELSE IF p <= lastPoll THEN "gone" ELSE "none"],
    open   <- {p \in Ids : poll[p].open},
    atBox  <- [p \in Ids |-> {req[r].user : r \in {q \in Requests :
                                               At(q, "voting") /\ req[q].poll = p}}],
    ballot <- votes

ImplementsBallotBox == Box!Spec
=============================================================================
