------------------------------ MODULE PollViews ------------------------------
(***************************************************************************)
(* Who sees the polls of Polls: members with a socket hear of each change  *)
(* over Redis PubSub, which replays nothing, and load the polls again.     *)
(*                                                                         *)
(* The client is external. Of it the model assumes what                    *)
(* docs/architecture.md asks: it loads its polls on each message, also on  *)
(* realtime.ready, and connects again when its socket closes.              *)
(*                                                                         *)
(* What a client shows is kept as whether it is still so: a change that is *)
(* undone counts as one.                                                   *)
(***************************************************************************)
EXTENDS Polls

CONSTANTS
    Viewers,    \* users whose clients may be open
    Together    \* bound on the requests in flight while a client is open

ASSUME ViewersAssumption == Viewers \subseteq Users /\ Together \in Nat

VARIABLES
    online,     \* viewers whose client is open, from the beginning
    socket,     \* of each viewer: closed, open, subscribed, or ready
    inbox,      \* messages are on their way to the client
    page,       \* list_event_polls for it: none, reading, or torn when the
                \* polls it found are not those there are any more
    view,       \* what the client shows: current or stale
    missed      \* history: since a client whose socket is ready began to load,
                \* a change went unannounced, or the load failed

socketVars == <<socket, inbox>>
clientVars == <<page, view>>
viewVars   == <<online, socketVars, clientVars, missed>>
allVars    == <<vars, viewVars>>

ViewsTypeOK ==
    /\ online \subseteq Viewers
    /\ socket \in [Viewers -> {"closed", "open", "subscribed", "ready"}]
    /\ inbox \in [Viewers -> BOOLEAN]
    /\ page \in [Viewers -> {"none", "reading", "torn"}]
    /\ view \in [Viewers -> {"current", "stale"}]
    /\ missed \in [Viewers -> BOOLEAN]

ViewsInit ==
    /\ Init
    /\ online \in SUBSET Viewers
    /\ socket = [v \in Viewers |-> "closed"]
    /\ inbox = [v \in Viewers |-> FALSE]
    /\ page = [v \in Viewers |-> "none"]
    /\ view = [v \in Viewers |-> "current"]
    /\ missed = [v \in Viewers |-> FALSE]

-----------------------------------------------------------------------------
\* The socket.

Listening(v) == socket[v] \in {"subscribed", "ready"}

\* A ticket for the event, and its exchange for a socket: both ask whether the
\* viewer is a member.
Connect(v) ==
    /\ v \in online
    /\ socket[v] = "closed"
    /\ Member(v)
    /\ socket' = [socket EXCEPT ![v] = "open"]
    /\ UNCHANGED <<vars, online, inbox, clientVars, missed>>

\* SUBSCRIBE to both channels.
Subscribe(v) ==
    /\ socket[v] = "open"
    /\ socket' = [socket EXCEPT ![v] = "subscribed"]
    /\ UNCHANGED <<vars, online, inbox, clientVars, missed>>

\* Mutant: realtime.ready is not sent.
ReadySilently(v) ==
    /\ socket[v] = "subscribed"
    /\ socket' = [socket EXCEPT ![v] = "ready"]
    /\ UNCHANGED <<vars, online, inbox, clientVars, missed>>

\* realtime.ready is sent when the subscriptions are active.
SendReady(v) ==
    /\ socket[v] = "subscribed"
    /\ socket' = [socket EXCEPT ![v] = "ready"]
    /\ inbox' = [inbox EXCEPT ![v] = TRUE]
    /\ UNCHANGED <<vars, online, clientVars, missed>>

CloseSocket(v) ==
    /\ socket[v] # "closed"
    /\ socket' = [socket EXCEPT ![v] = "closed"]
    /\ inbox' = [inbox EXCEPT ![v] = FALSE]
    /\ missed' = [missed EXCEPT ![v] = FALSE]
    /\ UNCHANGED <<vars, online, clientVars>>

\* Mutant: the heartbeat does not look at the ticket.
TicketLasts(v) == FALSE /\ UNCHANGED allVars

\* The heartbeat finds that the minute of the ticket has passed.
TicketExpires(v) == CloseSocket(v)

\* Redis, the client, the network or the instance ends the socket: messages on
\* their way are lost.
SocketBreaks(v) == CloseSocket(v)

-----------------------------------------------------------------------------
\* list_event_polls: membership and the SELECT of the polls, then the SELECT of
\* their votes.

BeginLoad(v) ==
    /\ v \in online
    /\ page[v] = "none"
    /\ Member(v)
    /\ page' = [page EXCEPT ![v] = "reading"]
    /\ missed' = [missed EXCEPT ![v] = FALSE]
    /\ UNCHANGED <<vars, online, socket, view>>

\* The client takes a message and loads.
Hear(v) ==
    /\ inbox[v]
    /\ inbox' = [inbox EXCEPT ![v] = FALSE]
    /\ BeginLoad(v)

\* It loads for a reason of its own.
OpenPage(v) == BeginLoad(v) /\ UNCHANGED inbox

\* The votes, as they are now, of the polls it found.
EndLoad(v) ==
    /\ page[v] # "none"
    /\ view' = [view EXCEPT ![v] = IF page[v] = "reading" THEN "current" ELSE "stale"]
    /\ page' = [page EXCEPT ![v] = "none"]
    /\ UNCHANGED <<vars, online, socketVars, missed>>

\* The request fails, and the client keeps what it shows.
LoadFails(v) ==
    /\ page[v] # "none"
    /\ page' = [page EXCEPT ![v] = "none"]
    /\ missed' = [missed EXCEPT ![v] = socket[v] = "ready"]
    /\ UNCHANGED <<vars, online, socketVars, view>>

-----------------------------------------------------------------------------
\* The changes of Polls, and who hears of them.

\* What a step of Polls does to the pages that show its polls and votes, and to
\* those being read.
Here == {p \in Ids : poll[p].here}

Age ==
    /\ view' = [v \in Viewers |->
            IF votes' # votes \/ Here' # Here THEN "stale" ELSE view[v]]
    /\ page' = [v \in Viewers |->
            IF page[v] # "none" /\ Here' # Here THEN "torn" ELSE page[v]]
    /\ UNCHANGED <<online, socket>>

Heard   == inbox' = [v \in Viewers |-> inbox[v] \/ Listening(v)] /\ UNCHANGED missed
Unheard == missed' = [v \in Viewers |-> socket[v] = "ready"] /\ UNCHANGED inbox
Silent  == UNCHANGED <<inbox, missed>>

Admitted(r) ==
    \/ online = {}
    \/ Cardinality({q \in Requests : ~At(q, "idle")} \cup {r}) <= Together

\* publish_event reaches the sockets that are subscribed at that moment.
\* delete_account announces nothing to the polls it takes votes from.
ChangePolls ==
    /\ \/ \E r \in Requests :
            \/ Admitted(r) /\ Handle(r) /\ Silent
            \/ Announced(r) /\ Heard
            \/ NotAnnounced(r) /\ Unheard
       \/ \E u \in Users : DeleteAccount(u) /\ Unheard
       \/ Environment /\ Silent
    /\ Age

ViewsNext ==
    \/ ChangePolls
    \/ \E v \in Viewers :
         \/ Connect(v)
         \/ Subscribe(v)
         \/ SendReady(v)
         \/ TicketExpires(v)
         \/ SocketBreaks(v)
         \/ Hear(v)
         \/ OpenPage(v)
         \/ EndLoad(v)
         \/ LoadFails(v)

ViewsSpec == ViewsInit /\ [][ViewsNext]_allVars

\* A socket lives no longer than its ticket; the client connects again, and
\* what it tries again and again gets through in the end.
ViewsFairness ==
    \A v \in Viewers :
        /\ WF_allVars(TicketExpires(v))
        /\ SF_allVars(Connect(v))
        /\ SF_allVars(Subscribe(v))
        /\ SF_allVars(SendReady(v))
        /\ SF_allVars(Hear(v))
        /\ SF_allVars(EndLoad(v))

FairSpec == ViewsSpec /\ ViewsFairness

-----------------------------------------------------------------------------
(***************************************************************************)
(* Properties.                                                             *)
(***************************************************************************)

Announcing == \E r \in Requests : req[r].pc \in {"created", "voted", "deleted"}

\* Once its socket is ready and each change is announced, a client that has
\* loaded on all messages shows the polls as they are: a change between its
\* subscription and its load, or during its load, is not lost.
HeardAllIsCurrent ==
    \A v \in Viewers :
        \/ socket[v] # "ready" \/ inbox[v] \/ page[v] # "none" \/ missed[v]
        \/ Announcing
        \/ view[v] = "current"

\* When the polls no longer change, the client of a member shows them in the
\* end, though announcements, messages and loads were lost: a socket ends with
\* its ticket, and the next one begins with a load.
ViewersCatchUp ==
    \A v \in Viewers :
        \/ v \notin online
        \/ []<><<poll' # poll \/ votes' # votes>>_allVars
        \/ []<>(~Member(v))
        \/ <>[](view[v] = "current")
=============================================================================
