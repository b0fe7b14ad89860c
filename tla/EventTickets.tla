---------------------------- MODULE EventTickets ----------------------------
(***************************************************************************)
(* The QR tickets of the guests of one event: issued and rotated by their  *)
(* guests, scanned by the organizer's phones, while the event is edited,   *)
(* trashed, restored, hidden and purged.                                   *)
(*                                                                         *)
(* event_checkins has one row for a guest, which holds the hash of the     *)
(* latest token.  A token that was rotated away may still be shown: a      *)
(* screenshot, or a page left open.                                        *)
(***************************************************************************)
EXTENDS Events

CONSTANTS
    Guests,     \* users who may be invited
    Requests,   \* ticket requests and scans
    MaxTokens   \* bound on the tokens issued

ASSUME TicketsAssumption ==
    /\ MaxTokens \in Nat
    /\ None \notin Guests

VARIABLES
    ticket,     \* event_checkins: the row of each guest
    accepted,   \* guests whose invitation is Accepted
    request,    \* generate_my_qr_code and scan_qr_code in progress
    issued,     \* tokens issued so far
    admitted    \* how often each guest was let in: answers of "scanned"

ticketVars == <<ticket, accepted, request, issued, admitted>>
vars == <<eventVars, ticketVars>>

NoTicket == [token |-> 0, fresh |-> FALSE, scanned |-> FALSE]

Ticket == [token   : 1..MaxTokens,
           fresh   : BOOLEAN,    \* generated_at is not five minutes ago
           scanned : BOOLEAN]    \* scanned_at is set

NoRequest == [pc |-> "idle", guest |-> None, token |-> 0]

Request == [pc : {"asking", "allowed", "inserting", "rotating", "showing", "marking"},
            guest : Guests \cup {None},
            token : 0..MaxTokens]

\* The types, with the foreign key of event_checkins.
TicketTypeOK ==
    /\ ticket \in [Guests -> Ticket \cup {NoTicket}]
    /\ accepted \subseteq Guests
    /\ request \in [Requests -> Request \cup {NoRequest}]
    /\ issued \in 0..MaxTokens
    /\ admitted \in [Guests -> Nat]
    /\ ~Exists => ticket = [g \in Guests |-> NoTicket]

TypeOK == EventTypeOK /\ TicketTypeOK

Init ==
    /\ EventInit
    /\ ticket = [g \in Guests |-> NoTicket]
    /\ accepted = {}
    /\ request = [r \in Requests |-> NoRequest]
    /\ issued = 0
    /\ admitted = [g \in Guests |-> 0]

\* A transaction holds the ticket's row.
Held(g) ==
    \E r \in Requests : /\ request[r].pc \in {"rotating", "marking"}
                        /\ request[r].guest = g

-----------------------------------------------------------------------------
\* respond_invitation and the like.
AnswerChanges(g) ==
    /\ Exists
    /\ accepted' = IF g \in accepted THEN accepted \ {g} ELSE accepted \cup {g}
    /\ UNCHANGED <<eventVars, ticket, request, issued, admitted>>

\* A ticket gets QR_CODE_TTL_SECONDS old.
TicketExpires(g) ==
    /\ ticket[g].fresh
    /\ ticket' = [ticket EXCEPT ![g].fresh = FALSE]
    /\ UNCHANGED <<eventVars, accepted, request, issued, admitted>>

\* The handler has answered, or its transaction was rolled back.
Answered(r) == request' = [request EXCEPT ![r] = NoRequest]

\* generate_my_qr_code: ensure_event_writable.
AskTicket(r, g) ==
    /\ request[r] = NoRequest
    /\ Writable
    /\ request' = [request EXCEPT ![r] = [pc |-> "asking", guest |-> g, token |-> 0]]
    /\ UNCHANGED <<eventVars, ticket, accepted, issued, admitted>>

\* Only accepted guests can present a code.
CheckAccepted(r) ==
    /\ request[r].pc = "asking"
    /\ IF request[r].guest \in accepted
       THEN request' = [request EXCEPT ![r].pc = "allowed"]
       ELSE Answered(r)
    /\ UNCHANGED <<eventVars, ticket, accepted, issued, admitted>>

\* SELECT ... FOR UPDATE: a row that is not there cannot be locked.
LockTicket(r) ==
    LET g == request[r].guest
    IN  /\ request[r].pc = "allowed"
        /\ ~Held(g)
        /\ request' = [request EXCEPT ![r].pc =
                          IF ticket[g] = NoTicket THEN "inserting" ELSE "rotating"]
        /\ UNCHANGED <<eventVars, ticket, accepted, issued, admitted>>

Issue(g, row) ==
    /\ issued < MaxTokens
    /\ issued' = issued + 1
    /\ ticket' = [ticket EXCEPT ![g] = row]

\* Mutant: a first ticket replaces what another request has inserted.
UpsertableTicket(g) == Exists

\* Mutant: the row is not tied to the event's.
UntiedTicket(g) == ticket[g] = NoTicket

\* unique_user_event_checkin, and the foreign key to events.
InsertableTicket(g) == Exists /\ ticket[g] = NoTicket

\* No ticket yet: INSERT and COMMIT.
InsertTicket(r) ==
    LET g == request[r].guest
    IN  /\ request[r].pc = "inserting"
        /\ IF InsertableTicket(g)
           THEN Issue(g, [token |-> issued + 1, fresh |-> TRUE, scanned |-> FALSE])
           ELSE UNCHANGED <<ticket, issued>>
        /\ Answered(r)
        /\ UNCHANGED <<eventVars, accepted, admitted>>

\* Mutant: a new token makes a new ticket.
RotatedAnew(old, token) == [token |-> token, fresh |-> TRUE, scanned |-> FALSE]

\* scanned_at outlives the token it was set for.
Rotated(old, token) == [token |-> token, fresh |-> TRUE, scanned |-> old.scanned]

\* UPDATE and COMMIT.
RotateTicket(r) ==
    LET g == request[r].guest
    IN  /\ request[r].pc = "rotating"
        /\ Issue(g, Rotated(ticket[g], issued + 1))
        /\ Answered(r)
        /\ UNCHANGED <<eventVars, accepted, admitted>>

\* scan_qr_code: ensure_event_owner, ensure_event_writable.
StartScan(r, t) ==
    /\ request[r] = NoRequest
    /\ Writable
    /\ request' = [request EXCEPT ![r] = [pc |-> "showing", guest |-> None, token |-> t]]
    /\ UNCHANGED <<eventVars, ticket, accepted, issued, admitted>>

\* The checks, in the order that decides the answer; all refusals roll back.
Admissible(g) == ticket[g].fresh /\ g \in accepted /\ ~ticket[g].scanned

\* SELECT ... FOR UPDATE OF ec by the token's hash, and the checks.
ReadTicket(r) ==
    LET found == {g \in Guests : ticket[g].token = request[r].token}
    IN  /\ request[r].pc = "showing"
        /\ \/ /\ found = {}
              /\ Answered(r)
           \/ \E g \in found :
                 /\ ~Held(g)
                 /\ IF Admissible(g)
                    THEN request' = [request EXCEPT ![r].pc = "marking", ![r].guest = g]
                    ELSE Answered(r)
        /\ UNCHANGED <<eventVars, ticket, accepted, issued, admitted>>

\* UPDATE ... WHERE qr_token_hash = $3 AND scanned_at IS NULL, and COMMIT.
MarkScanned(r) ==
    LET g == request[r].guest
    IN  /\ request[r].pc = "marking"
        /\ IF ticket[g].token = request[r].token /\ ~ticket[g].scanned
           THEN /\ ticket' = [ticket EXCEPT ![g].scanned = TRUE]
                /\ admitted' = [admitted EXCEPT ![g] = @ + 1]
           ELSE UNCHANGED <<ticket, admitted>>
        /\ Answered(r)
        /\ UNCHANGED <<eventVars, accepted, issued>>

\* The database is away, or the instance stops.
FailRequest(r) ==
    /\ request[r] # NoRequest
    /\ Answered(r)
    /\ UNCHANGED <<eventVars, ticket, accepted, issued, admitted>>

\* A request in progress gets on.
Proceed(r) ==
    \/ CheckAccepted(r) \/ LockTicket(r) \/ InsertTicket(r) \/ RotateTicket(r)
    \/ ReadTicket(r) \/ MarkScanned(r) \/ FailRequest(r)

-----------------------------------------------------------------------------
KeepTickets == RowStep /\ UNCHANGED ticketVars

\* ON DELETE CASCADE: tickets and invitations go with the event, once no
\* transaction holds a ticket.
PurgeWithTickets ==
    /\ PurgeEvent
    /\ \A g \in Guests : ~Held(g)
    /\ ticket' = [g \in Guests |-> NoTicket]
    /\ accepted' = {}
    /\ UNCHANGED <<request, issued, admitted>>

Next ==
    \/ KeepTickets
    \/ PurgeWithTickets
    \/ \E g \in Guests : AnswerChanges(g) \/ TicketExpires(g)
    \/ \E r \in Requests :
          \/ \E g \in Guests : AskTicket(r, g)
          \/ \E t \in 1..issued : StartScan(r, t)
          \/ Proceed(r)

Spec == Init /\ [][Next]_vars

\* Time passes, the cleanup runs every few hours, requests end, and a DELETE
\* that waits for a row gets it: lock queues are first come, first served.
Fairness ==
    /\ WF_vars(Tick /\ UNCHANGED ticketVars)
    /\ WF_vars(PurgeFallsDue /\ UNCHANGED ticketVars)
    /\ WF_vars(TrashStale /\ UNCHANGED ticketVars)
    /\ SF_vars(PurgeWithTickets)
    /\ \A r \in Requests : WF_vars(Proceed(r))

FairSpec == Spec /\ Fairness

-----------------------------------------------------------------------------
\* A guest is let in once, however often the ticket is rotated and by however
\* many phones its tokens, old and new, are scanned at the same time.
LetInOnce == \A g \in Guests : admitted[g] <= 1

\* The handlers keep a door list: nobody who was let in is taken off it, by a
\* rotation, by a first ticket issued twice, or by the event's trash.
Door == INSTANCE DoorList WITH
            kept <- Exists,
            came <- {g \in Guests : ticket[g].scanned}

ImplementsDoorList == Door!Spec

\* An event that nobody goes on restoring is purged in the end, however it
\* got into the trash, unless moderation keeps it.
EventsEnd ==
    \/ <>(trash = "purged")
    \/ <>hidden
    \/ []<>Listed /\ []<>~Listed
=============================================================================
