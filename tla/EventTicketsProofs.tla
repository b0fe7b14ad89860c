------------------------- MODULE EventTicketsProofs -------------------------
(***************************************************************************)
(* For any editors, guests, requests, schedules and bounds: the row of an  *)
(* event stays in order, what is hidden stays hidden, and the tickets      *)
(* implement the door list, on which a guest is ticked off once.           *)
(*                                                                         *)
(* The last two need to know of a request that is about to rotate a ticket *)
(* that the ticket is still there: a purge takes all tickets, but waits    *)
(* for the lock that the request holds.                                    *)
(***************************************************************************)
EXTENDS EventTickets, TLAPS

\* What each request carries, and the ticket that a rotation holds.
RequestsMatch ==
    \A r \in Requests :
        /\ request[r].pc \in {"asking", "allowed", "inserting", "rotating", "marking"}
              => request[r].guest \in Guests
        /\ request[r].pc \in {"showing", "marking"} => request[r].token # 0
        /\ request[r].pc = "rotating" => ticket[request[r].guest] # NoTicket

\* The count of a guest is what the ticket says, while there are tickets.
CountsMatch ==
    Exists => \A g \in Guests : admitted[g] = IF ticket[g].scanned THEN 1 ELSE 0

\* A row that is gone has no purge date.
PurgedIsOver == ~Exists => purge = "none"

TicketInv ==
    TicketTypeOK /\ RequestsMatch /\ CountsMatch /\ LetInOnce /\ PurgedIsOver

-----------------------------------------------------------------------------
(* The row of the event.                                                   *)

LEMMA EventSteps ==
    ASSUME [Next]_vars
    PROVE  RowStep \/ PurgeEvent \/ UNCHANGED eventVars
PROOF
  BY DEF Next, KeepTickets, PurgeWithTickets, AnswerChanges, TicketExpires,
         AskTicket, StartScan, Proceed, CheckAccepted, LockTicket,
         InsertTicket, RotateTicket, ReadTicket, MarkScanned, FailRequest, vars

\* A row changes to what the constraints of its table allow, or not at all.
LEMMA ColumnsStayStorable ==
    ASSUME RowStep \/ PurgeEvent
    PROVE  UNCHANGED column \/ Storable(column')
PROOF
  BY DEF RowStep, EditStep, Tick, StartEdit, CheckReplacement, CheckPatch,
         CommitEdit, FailEdit, DeleteEvent, RestoreEvent, HideEvent,
         PurgeFallsDue, TrashStale, PurgeEvent

\* Whatever edits interleave, the schedule stays in order: ScheduleInOrder of
\* the row that PUT and PATCH write, by the CHECK constraints of the table.
THEOREM SchedulesInOrder == Spec => []ScheduleInOrder
PROOF
  <1>1. Init => ScheduleInOrder
    BY DEF Init, EventInit, Storable, ScheduleInOrder
  <1>2. ScheduleInOrder /\ [Next]_vars => ScheduleInOrder'
    <2> SUFFICES ASSUME ScheduleInOrder, [Next]_vars
                 PROVE  ScheduleInOrder'
      OBVIOUS
    <2>1. UNCHANGED column => ScheduleInOrder'
      BY DEF ScheduleInOrder
    <2>2. Storable(column') => ScheduleInOrder'
      BY DEF ScheduleInOrder, Storable
    <2>3. CASE RowStep \/ PurgeEvent
      BY <2>1, <2>2, <2>3, ColumnsStayStorable
    <2>4. CASE UNCHANGED eventVars
      BY <2>1, <2>4 DEF eventVars
    <2> QED
      BY <2>3, <2>4, EventSteps
  <1> QED
    BY <1>1, <1>2, PTL DEF Spec

\* Hidden events stay hidden: HiddenStaysHidden, of every handler and cleanup
\* that writes deleted_at, purge_at or deletion_reason.
THEOREM ModerationHolds == Spec => []HiddenStaysHidden
PROOF
  <1>1. Init => HiddenStaysHidden
    BY DEF Init, EventInit, HiddenStaysHidden
  <1>2. HiddenStaysHidden /\ [Next]_vars => HiddenStaysHidden'
    <2> SUFFICES ASSUME HiddenStaysHidden, [Next]_vars
                 PROVE  HiddenStaysHidden'
      OBVIOUS
    <2>1. CASE UNCHANGED <<trash, purge, hidden>>
      BY <2>1 DEF HiddenStaysHidden
    <2>2. CASE DeleteEvent
      BY <2>2 DEF DeleteEvent, Listed, HiddenStaysHidden
    <2>3. CASE RestoreEvent
      BY <2>3 DEF RestoreEvent, Restorable, HiddenStaysHidden
    <2>4. CASE HideEvent
      BY <2>4 DEF HideEvent, HiddenStaysHidden
    <2>5. CASE PurgeFallsDue
      BY <2>5 DEF PurgeFallsDue, HiddenStaysHidden
    <2>6. CASE TrashStale
      BY <2>6 DEF TrashStale, Listed, HiddenStaysHidden
    <2>7. CASE PurgeEvent
      BY <2>7 DEF PurgeEvent, Purgeable, HiddenStaysHidden
    <2>8. \/ DeleteEvent \/ RestoreEvent \/ HideEvent \/ PurgeFallsDue
          \/ TrashStale \/ PurgeEvent \/ UNCHANGED <<trash, purge, hidden>>
      BY EventSteps
         DEF RowStep, EditStep, Tick, StartEdit, CheckReplacement, CheckPatch,
             CommitEdit, FailEdit, eventVars
    <2> QED
      BY <2>1, <2>2, <2>3, <2>4, <2>5, <2>6, <2>7, <2>8
  <1> QED
    BY <1>1, <1>2, PTL DEF Spec

-----------------------------------------------------------------------------
(* Tickets.                                                                *)

LEMMA Initially == Init => TicketInv
PROOF
  BY TicketsAssumption
     DEF Init, EventInit, TicketInv, TicketTypeOK, RequestsMatch, CountsMatch,
         LetInOnce, PurgedIsOver, Exists, NoRequest, NoTicket

\* Steps of the row leave a purged event purged.
LEMMA KeepTicketsKeeps ==
    ASSUME TicketInv, KeepTickets
    PROVE  TicketInv'
PROOF
  <1>1. UNCHANGED ticketVars /\ (Exists' <=> Exists) /\ (~Exists => UNCHANGED purge)
    BY DEF TicketInv, PurgedIsOver, KeepTickets, RowStep, EditStep, Tick, StartEdit,
           CheckReplacement, CheckPatch, CommitEdit, FailEdit, DeleteEvent,
           RestoreEvent, Restorable, HideEvent, PurgeFallsDue, TrashStale,
           Listed, Exists
  <1> QED
    BY <1>1
       DEF TicketInv, TicketTypeOK, RequestsMatch, CountsMatch, LetInOnce,
           PurgedIsOver, ticketVars

LEMMA PurgeKeeps ==
    ASSUME TicketInv, PurgeWithTickets
    PROVE  TicketInv'
PROOF
  <1>1. ~Exists' /\ purge' = "none"
    BY DEF PurgeWithTickets, PurgeEvent, Exists
  <1>2. TicketTypeOK'
    BY <1>1 DEF TicketInv, PurgeWithTickets, TicketTypeOK
  <1>3. RequestsMatch'
    <2> SUFFICES ASSUME NEW r \in Requests, request[r].pc = "rotating"
                 PROVE  FALSE
      BY DEF TicketInv, PurgeWithTickets, RequestsMatch
    <2>1. request[r].guest \in Guests /\ Held(request[r].guest)
      BY DEF TicketInv, RequestsMatch, Held
    <2> QED
      BY <2>1 DEF PurgeWithTickets
  <1> QED
    BY <1>1, <1>2, <1>3
       DEF TicketInv, CountsMatch, LetInOnce, PurgedIsOver, PurgeWithTickets

\* A request moves, and writes nothing.
LEMMA MoveKeeps ==
    ASSUME TicketInv, NEW r \in Requests, NEW q,
           request' = [request EXCEPT ![r] = q],
           q \in Request \cup {NoRequest},
           q.pc \in {"asking", "allowed", "inserting", "rotating", "marking"}
              => q.guest \in Guests,
           q.pc \in {"showing", "marking"} => q.token # 0,
           q.pc = "rotating" => ticket[q.guest] # NoTicket,
           UNCHANGED <<eventVars, ticket, accepted, issued, admitted>>
    PROVE  TicketInv'
PROOF
  <1>1. \A s \in Requests : request'[s] = IF s = r THEN q ELSE request[s]
    BY DEF TicketInv, TicketTypeOK
  <1>2. TicketTypeOK'
    BY DEF TicketInv, TicketTypeOK, Exists, eventVars
  <1>3. RequestsMatch'
    BY <1>1 DEF TicketInv, RequestsMatch
  <1> QED
    BY <1>2, <1>3
       DEF TicketInv, CountsMatch, LetInOnce, PurgedIsOver, Exists, eventVars

LEMMA AnsweredKeeps ==
    ASSUME TicketInv, NEW r \in Requests, Answered(r),
           UNCHANGED <<eventVars, ticket, accepted, issued, admitted>>
    PROVE  TicketInv'
PROOF
  <1>1. NoRequest.pc = "idle"
    BY DEF NoRequest
  <1> QED
    BY <1>1, MoveKeeps, Zenon DEF Answered

\* The steps of a request that only read.
LEMMA ReadingKeeps ==
    ASSUME TicketInv, NEW r \in Requests,
           \/ CheckAccepted(r) \/ LockTicket(r) \/ ReadTicket(r) \/ FailRequest(r)
    PROVE  TicketInv'
PROOF
  <1> DEFINE q == request[r]
  <1>1. q \in Request \cup {NoRequest}
    BY DEF TicketInv, TicketTypeOK
  <1>2. CASE Answered(r) /\ UNCHANGED <<eventVars, ticket, accepted, issued, admitted>>
    BY <1>2, AnsweredKeeps
  <1>3. CASE CheckAccepted(r) /\ ~Answered(r)
    <2>1. q.pc = "asking" /\ q \in Request /\ q.guest \in Guests
      BY <1>1, <1>3 DEF CheckAccepted, NoRequest, TicketInv, RequestsMatch
    <2> DEFINE n == [q EXCEPT !.pc = "allowed"]
    <2>2. n \in Request /\ n.pc = "allowed" /\ n.guest = q.guest
      BY <2>1 DEF Request
    <2>3. request' = [request EXCEPT ![r] = n]
      BY <1>3 DEF CheckAccepted
    <2> HIDE DEF n
    <2> QED
      BY <1>3, <2>1, <2>2, <2>3, MoveKeeps DEF CheckAccepted
  <1>4. CASE LockTicket(r)
    <2>1. q.pc = "allowed" /\ q \in Request /\ q.guest \in Guests
      BY <1>1, <1>4 DEF LockTicket, NoRequest, TicketInv, RequestsMatch
    <2> DEFINE n == [q EXCEPT !.pc = IF ticket[q.guest] = NoTicket
                                      THEN "inserting" ELSE "rotating"]
    <2>2. /\ n \in Request /\ n.pc \in {"inserting", "rotating"}
          /\ n.guest = q.guest
          /\ n.pc = "rotating" => ticket[n.guest] # NoTicket
      BY <2>1 DEF Request
    <2>3. request' = [request EXCEPT ![r] = n]
      BY <1>4 DEF LockTicket
    <2> HIDE DEF n
    <2> QED
      BY <1>4, <2>1, <2>2, <2>3, MoveKeeps DEF LockTicket
  <1>5. CASE ReadTicket(r) /\ ~Answered(r)
    <2>1. PICK g \in Guests : request' = [request EXCEPT ![r].pc = "marking", ![r].guest = g]
      BY <1>5 DEF ReadTicket
    <2>2. q.pc = "showing" /\ q \in Request /\ q.token # 0
      BY <1>1, <1>5 DEF ReadTicket, NoRequest, TicketInv, RequestsMatch
    <2> DEFINE n == [q EXCEPT !.pc = "marking", !.guest = g]
    <2>3. n \in Request /\ n.pc = "marking" /\ n.guest = g /\ n.token = q.token
      BY <2>2 DEF Request
    <2>4. request' = [request EXCEPT ![r] = n]
      BY <2>1 DEF TicketInv, TicketTypeOK
    <2> HIDE DEF n
    <2> QED
      BY <1>5, <2>2, <2>3, <2>4, MoveKeeps DEF ReadTicket
  <1> QED
    BY <1>2, <1>3, <1>4, <1>5 DEF CheckAccepted, ReadTicket, FailRequest

\* New requests.
LEMMA StartsKeep ==
    ASSUME TicketInv, NEW r \in Requests,
           \/ \E g \in Guests : AskTicket(r, g)
           \/ \E t \in 1..issued : StartScan(r, t)
    PROVE  TicketInv'
PROOF
  <1>1. CASE \E g \in Guests : AskTicket(r, g)
    <2>1. PICK g \in Guests : AskTicket(r, g)
      BY <1>1
    <2> DEFINE n == [pc |-> "asking", guest |-> g, token |-> 0]
    <2>2. n \in Request /\ n.pc = "asking" /\ n.guest = g
      BY TicketsAssumption DEF Request
    <2>3. request' = [request EXCEPT ![r] = n]
      BY <2>1 DEF AskTicket
    <2> HIDE DEF n
    <2> QED
      BY <2>1, <2>2, <2>3, MoveKeeps DEF AskTicket
  <1>2. CASE \E t \in 1..issued : StartScan(r, t)
    <2>1. PICK t \in 1..issued : StartScan(r, t)
      BY <1>2
    <2>2. t \in 0..MaxTokens /\ t # 0
      BY TicketsAssumption DEF TicketInv, TicketTypeOK
    <2> DEFINE n == [pc |-> "showing", guest |-> None, token |-> t]
    <2>3. n \in Request /\ n.pc = "showing" /\ n.token # 0
      BY <2>2 DEF Request
    <2>4. request' = [request EXCEPT ![r] = n]
      BY <2>1 DEF StartScan
    <2> HIDE DEF n
    <2> QED
      BY <2>1, <2>3, <2>4, MoveKeeps DEF StartScan
  <1> QED
    BY <1>1, <1>2

\* A request ends, and writes the ticket of a guest.
LEMMA WritingKeeps ==
    ASSUME TicketInv, NEW r \in Requests, NEW g \in Guests, NEW row \in Ticket,
           Exists, Answered(r),
           ticket' = [ticket EXCEPT ![g] = row],
           issued' \in 0..MaxTokens,
           \/ row.scanned = ticket[g].scanned /\ UNCHANGED admitted
           \/ /\ row.scanned /\ ~ticket[g].scanned
              /\ admitted' = [admitted EXCEPT ![g] = @ + 1],
           UNCHANGED <<eventVars, accepted>>
    PROVE  TicketInv'
PROOF
  <1>1. Exists' /\ UNCHANGED <<purge, accepted>>
    BY DEF Exists, eventVars
  <1>2. row # NoTicket
    BY DEF Ticket, NoTicket
  <1>3. \A h \in Guests : ticket'[h] = IF h = g THEN row ELSE ticket[h]
    BY DEF TicketInv, TicketTypeOK
  <1>4. \A s \in Requests : request'[s] = IF s = r THEN NoRequest ELSE request[s]
    BY DEF TicketInv, TicketTypeOK, Answered
  <1>5. \A h \in Guests :
            /\ admitted[h] = IF ticket[h].scanned THEN 1 ELSE 0
            /\ admitted[h] \in Nat
    BY DEF TicketInv, TicketTypeOK, CountsMatch
  <1>6. TicketTypeOK'
    BY <1>1 DEF TicketInv, TicketTypeOK, Answered
  <1>7. RequestsMatch'
    BY <1>2, <1>3, <1>4 DEF TicketInv, RequestsMatch, NoRequest
  <1>8. \A h \in Guests : admitted'[h] = IF ticket'[h].scanned THEN 1 ELSE 0
    BY <1>3, <1>5 DEF TicketInv, TicketTypeOK
  <1> QED
    BY <1>1, <1>6, <1>7, <1>8 DEF TicketInv, CountsMatch, LetInOnce, PurgedIsOver

\* A ticket that a request is about to write exists, and so does the event.
LEMMA TicketsNeedTheEvent ==
    ASSUME TicketInv, NEW g \in Guests, ticket[g] # NoTicket
    PROVE  Exists /\ ticket[g] \in Ticket
PROOF
  BY DEF TicketInv, TicketTypeOK

LEMMA WritesKeep ==
    ASSUME TicketInv, NEW r \in Requests,
           InsertTicket(r) \/ RotateTicket(r) \/ MarkScanned(r)
    PROVE  TicketInv'
PROOF
  <1> DEFINE g == request[r].guest
  <1>1. request[r] \in Request \cup {NoRequest} /\ issued \in 0..MaxTokens
    BY DEF TicketInv, TicketTypeOK
  <1>2. g \in Guests
    BY DEF InsertTicket, RotateTicket, MarkScanned, TicketInv, RequestsMatch
  <1>3. CASE Answered(r) /\ UNCHANGED <<eventVars, ticket, accepted, issued, admitted>>
    BY <1>3, AnsweredKeeps
  <1>4. CASE InsertTicket(r) /\ InsertableTicket(g)
    <2> DEFINE row == [token |-> issued + 1, fresh |-> TRUE, scanned |-> FALSE]
    <2>1. row \in Ticket /\ issued' \in 0..MaxTokens
      BY <1>1, <1>4, TicketsAssumption DEF InsertTicket, Issue, Ticket
    <2>2. row.scanned = ticket[g].scanned
      BY <1>4 DEF InsertableTicket, NoTicket
    <2>3. ticket' = [ticket EXCEPT ![g] = row]
      BY <1>4 DEF InsertTicket, Issue
    <2> HIDE DEF row
    <2> QED
      BY <1>2, <1>4, <2>1, <2>2, <2>3, WritingKeeps DEF InsertTicket, InsertableTicket
  <1>5. CASE RotateTicket(r)
    <2> DEFINE row == Rotated(ticket[g], issued + 1)
    <2>1. Exists /\ ticket[g] \in Ticket
      BY <1>2, <1>5, TicketsNeedTheEvent DEF RotateTicket, TicketInv, RequestsMatch
    <2>2. row \in Ticket /\ issued' \in 0..MaxTokens /\ row.scanned = ticket[g].scanned
      BY <1>1, <1>5, <2>1, TicketsAssumption DEF RotateTicket, Issue, Ticket, Rotated
    <2>3. ticket' = [ticket EXCEPT ![g] = row]
      BY <1>5 DEF RotateTicket, Issue
    <2> HIDE DEF row
    <2> QED
      BY <1>2, <1>5, <2>1, <2>2, <2>3, WritingKeeps DEF RotateTicket
  <1>6. CASE MarkScanned(r) /\ ticket[g].token = request[r].token /\ ~ticket[g].scanned
    <2> DEFINE row == [ticket[g] EXCEPT !.scanned = TRUE]
    <2>1. ticket[g] # NoTicket
      BY <1>6 DEF MarkScanned, TicketInv, RequestsMatch, NoTicket
    <2>2. Exists /\ ticket[g] \in Ticket
      BY <1>2, <2>1, TicketsNeedTheEvent
    <2>3. row \in Ticket /\ row.scanned
      BY <2>2 DEF Ticket
    <2>4. /\ ticket' = [ticket EXCEPT ![g] = row]
          /\ admitted' = [admitted EXCEPT ![g] = @ + 1]
      BY <1>6 DEF MarkScanned
    <2> HIDE DEF row
    <2> QED
      BY <1>1, <1>2, <1>6, <2>2, <2>3, <2>4, WritingKeeps DEF MarkScanned
  <1> QED
    BY <1>3, <1>4, <1>5, <1>6 DEF InsertTicket, MarkScanned

LEMMA SurroundingsKeep ==
    ASSUME TicketInv, NEW g \in Guests, AnswerChanges(g) \/ TicketExpires(g)
    PROVE  TicketInv'
PROOF
  <1>1. CASE AnswerChanges(g)
    BY <1>1 DEF TicketInv, TicketTypeOK, RequestsMatch, CountsMatch, LetInOnce,
                PurgedIsOver, Exists, AnswerChanges, eventVars
  <1>2. CASE TicketExpires(g)
    <2>1. ticket[g] # NoTicket
      BY <1>2 DEF TicketExpires, NoTicket
    <2>2. Exists /\ ticket[g] \in Ticket
      BY <2>1, TicketsNeedTheEvent
    <2> DEFINE row == [ticket[g] EXCEPT !.fresh = FALSE]
    <2>3. row \in Ticket /\ row.scanned = ticket[g].scanned
      BY <2>2 DEF Ticket
    <2>4. ticket' = [ticket EXCEPT ![g] = row]
      BY <1>2 DEF TicketExpires
    <2> HIDE DEF row
    <2>5. row # NoTicket
      BY <2>3 DEF Ticket, NoTicket
    <2>6. \A h \in Guests : ticket'[h] = IF h = g THEN row ELSE ticket[h]
      BY <2>4 DEF TicketInv, TicketTypeOK
    <2>7. UNCHANGED <<request, accepted, issued, admitted, trash, purge>>
      BY <1>2 DEF TicketExpires, eventVars
    <2>8. TicketTypeOK'
      BY <2>2, <2>3, <2>4, <2>7 DEF TicketInv, TicketTypeOK, Exists
    <2>9. RequestsMatch'
      BY <2>5, <2>6, <2>7 DEF TicketInv, RequestsMatch
    <2> QED
      BY <2>3, <2>6, <2>7, <2>8, <2>9
         DEF TicketInv, CountsMatch, LetInOnce, PurgedIsOver, Exists
  <1> QED
    BY <1>1, <1>2

LEMMA StepsKeep == TicketInv /\ [Next]_vars => TicketInv'
PROOF
  <1> SUFFICES ASSUME TicketInv, [Next]_vars PROVE TicketInv'
    OBVIOUS
  <1>1. CASE UNCHANGED vars
    BY <1>1 DEF vars, eventVars, ticketVars, TicketInv, TicketTypeOK, RequestsMatch,
                CountsMatch, LetInOnce, PurgedIsOver, Exists
  <1>2. CASE KeepTickets
    BY <1>2, KeepTicketsKeeps
  <1>3. CASE PurgeWithTickets
    BY <1>3, PurgeKeeps
  <1>4. ASSUME NEW g \in Guests, AnswerChanges(g) \/ TicketExpires(g) PROVE TicketInv'
    BY <1>4, SurroundingsKeep
  <1>5. ASSUME NEW r \in Requests,
               \/ \E g \in Guests : AskTicket(r, g)
               \/ \E t \in 1..issued : StartScan(r, t)
        PROVE  TicketInv'
    BY <1>5, StartsKeep
  <1>6. ASSUME NEW r \in Requests, Proceed(r) PROVE TicketInv'
    BY <1>6, ReadingKeeps, WritesKeep DEF Proceed
  <1> QED
    BY <1>1, <1>2, <1>3, <1>4, <1>5, <1>6 DEF Next

\* A guest is let in once: LetInOnce of generate_my_qr_code and scan_qr_code,
\* for any number of phones, rotations and tokens.
THEOREM GuestsLetInOnce == Spec => []LetInOnce
PROOF
  <1>1. TicketInv => LetInOnce
    BY DEF TicketInv
  <1> QED
    BY <1>1, Initially, StepsKeep, PTL DEF Spec

\* A write that leaves scanned_at alone is a stutter of the door list.
LEMMA SameList ==
    ASSUME TicketInv, NEW g \in Guests, NEW row,
           row.scanned = ticket[g].scanned,
           ticket' = [ticket EXCEPT ![g] = row], UNCHANGED eventVars
    PROVE  UNCHANGED Door!list
PROOF
  <1>1. \A h \in Guests : ticket'[h] = IF h = g THEN row ELSE ticket[h]
    BY DEF TicketInv, TicketTypeOK
  <1>2. UNCHANGED {h \in Guests : ticket[h].scanned}
    BY <1>1
  <1> QED
    BY <1>2 DEF Door!list, Exists, eventVars

LEMMA TicksOff ==
    ASSUME TicketInv, NEW r \in Requests, MarkScanned(r)
    PROVE  Door!Next \/ UNCHANGED Door!list
PROOF
  <1>1. PICK guest \in Guests : guest = request[r].guest
    BY DEF MarkScanned, TicketInv, RequestsMatch
  <1>2. CASE UNCHANGED ticket
    BY <1>2 DEF MarkScanned, Door!list, Exists, eventVars
  <1>3. CASE ticket[guest].token = request[r].token /\ ~ticket[guest].scanned
    <2>1. ticket[guest] # NoTicket
      BY <1>1, <1>3 DEF MarkScanned, TicketInv, RequestsMatch, NoTicket
    <2>2. Exists /\ ticket[guest] \in Ticket
      BY <2>1, TicketsNeedTheEvent
    <2>3. ticket' = [ticket EXCEPT ![guest].scanned = TRUE]
      BY <1>1, <1>3 DEF MarkScanned
    <2>4. ticket'[guest].scanned /\ \A h \in Guests \ {guest} : ticket'[h] = ticket[h]
      BY <2>2, <2>3 DEF TicketInv, TicketTypeOK, Ticket
    <2>5. {h \in Guests : ticket'[h].scanned} = {h \in Guests : ticket[h].scanned} \cup {guest}
      BY <2>4
    <2>6. Exists' <=> Exists
      BY DEF MarkScanned, Exists, eventVars
    <2>7. Door!TickOff(guest)
      BY <1>3, <2>2, <2>5, <2>6 DEF Door!TickOff
    <2> QED
      BY <2>7 DEF Door!Next
  <1> QED
    BY <1>1, <1>2, <1>3 DEF MarkScanned

\* The tickets implement the door list: ImplementsDoorList of the handlers of
\* qr_codes.rs and of the event's way through the trash.
THEOREM DoorListKept == Spec => ImplementsDoorList
PROOF
  <1>1. Init => Door!Init
    BY DEF Init, EventInit, Door!Init, Exists, NoTicket
  <1>2. TicketInv /\ [Next]_vars => [Door!Next]_(Door!list)
    <2> SUFFICES ASSUME TicketInv, [Next]_vars
                 PROVE  Door!Next \/ UNCHANGED Door!list
      OBVIOUS
    <2>1. CASE UNCHANGED <<eventVars, ticket>>
      BY <2>1 DEF Door!list, Exists, eventVars
    <2>2. CASE KeepTickets
      <3>1. UNCHANGED ticket /\ (Exists' <=> Exists)
        BY <2>2 DEF TicketInv, PurgedIsOver, KeepTickets, RowStep, EditStep, Tick,
               StartEdit, CheckReplacement, CheckPatch, CommitEdit, FailEdit,
               DeleteEvent, RestoreEvent, Restorable, HideEvent, PurgeFallsDue,
               TrashStale, Listed, Exists, ticketVars
      <3> QED
        BY <3>1 DEF Door!list
    <2>3. CASE PurgeWithTickets
      <3>1. Exists /\ ~Exists'
        BY <2>3 DEF PurgeWithTickets, PurgeEvent, Purgeable, Exists, TicketInv,
                    PurgedIsOver
      <3>2. {g \in Guests : ticket'[g].scanned} = {}
        BY <2>3 DEF PurgeWithTickets, NoTicket
      <3> QED
        BY <3>1, <3>2 DEF Door!Next, Door!Discard
    <2>4. ASSUME NEW g \in Guests, TicketExpires(g)
          PROVE  UNCHANGED Door!list
      <3>1. ticket[g] \in Ticket
        BY <2>4, TicketsNeedTheEvent DEF TicketExpires, NoTicket
      <3> DEFINE row == [ticket[g] EXCEPT !.fresh = FALSE]
      <3>2. row.scanned = ticket[g].scanned
        BY <3>1 DEF Ticket
      <3>3. ticket' = [ticket EXCEPT ![g] = row]
        BY <2>4 DEF TicketExpires
      <3> HIDE DEF row
      <3> QED
        BY <2>4, <3>2, <3>3, SameList DEF TicketExpires
    <2>5. ASSUME NEW r \in Requests, InsertTicket(r)
          PROVE  UNCHANGED Door!list
      <3> DEFINE g == request[r].guest
      <3>1. g \in Guests
        BY <2>5 DEF InsertTicket, TicketInv, RequestsMatch
      <3>2. CASE InsertableTicket(g)
        <4> DEFINE row == [token |-> issued + 1, fresh |-> TRUE, scanned |-> FALSE]
        <4>1. row.scanned = ticket[g].scanned
          BY <3>2 DEF InsertableTicket, NoTicket
        <4>2. ticket' = [ticket EXCEPT ![g] = row]
          BY <2>5, <3>2 DEF InsertTicket, Issue
        <4> HIDE DEF row
        <4> QED
          BY <2>5, <3>1, <4>1, <4>2, SameList DEF InsertTicket
      <3>3. CASE ~InsertableTicket(g)
        BY <2>5, <3>3 DEF InsertTicket, Door!list, Exists, eventVars
      <3> QED
        BY <3>2, <3>3
    <2>6. ASSUME NEW r \in Requests, RotateTicket(r)
          PROVE  UNCHANGED Door!list
      <3> DEFINE g == request[r].guest
                 row == Rotated(ticket[g], issued + 1)
      <3>1. g \in Guests
        BY <2>6 DEF RotateTicket, TicketInv, RequestsMatch
      <3>2. row.scanned = ticket[g].scanned
        BY DEF Rotated
      <3>3. ticket' = [ticket EXCEPT ![g] = row]
        BY <2>6 DEF RotateTicket, Issue
      <3> HIDE DEF row
      <3> QED
        BY <2>6, <3>1, <3>2, <3>3, SameList DEF RotateTicket
    <2>7. \/ UNCHANGED <<eventVars, ticket>> \/ KeepTickets \/ PurgeWithTickets
          \/ \E g \in Guests : TicketExpires(g)
          \/ \E r \in Requests : InsertTicket(r) \/ RotateTicket(r) \/ MarkScanned(r)
      BY DEF Next, AnswerChanges, AskTicket, StartScan, Proceed, CheckAccepted,
             LockTicket, ReadTicket, FailRequest, vars, ticketVars
    <2> QED
      BY <2>1, <2>2, <2>3, <2>4, <2>5, <2>6, <2>7, TicksOff
  <1> QED
    BY <1>1, <1>2, Initially, StepsKeep, PTL DEF Spec, ImplementsDoorList, Door!Spec

-----------------------------------------------------------------------------
(* Types.                                                                  *)

LEMMA MergedSettings ==
    ASSUME NEW s, NEW c, Setting(s), Setting(c), DOMAIN c = Columns
    PROVE  Setting(Merge(s, c)) /\ DOMAIN Merge(s, c) = Columns
PROOF
  BY DEF Setting, Merge

\* What a PATCH is validated for and writes has the types of the columns.
LEMMA TargetTypes ==
    ASSUME EventTypeOK, NEW p \in Patches
    PROVE  Setting([c \in DOMAIN p \cup {"features"} |-> Target(p)[c]])
PROOF
  <1> DEFINE merged == Merge(p, column)
             synced == IF HasPlaylist(merged) THEN merged.features \cup {"playlist"}
                                              ELSE merged.features \ {"playlist"}
             chosen == IF "features" \in DOMAIN p THEN merged.features ELSE synced
  <1>1. Setting(p) /\ Setting(column) /\ DOMAIN column = Columns
    BY EventsAssumption DEF EventTypeOK
  <1>2. Setting(merged) /\ DOMAIN merged = Columns
    BY <1>1, MergedSettings
  <1>3. "features" \in Columns /\ Values["features"] = SUBSET Features
    BY DEF Columns, Values
  <1>4. "playlist" \in Features
    BY DEF Features
  <1>5. merged.features \in SUBSET Features
    BY <1>2, <1>3 DEF Setting
  <1>6. chosen \in Values["features"]
    BY <1>3, <1>4, <1>5
  <1>7. Target(p) = [merged EXCEPT !.features = chosen]
    BY DEF Target
  <1> HIDE DEF merged, chosen
  <1>8. \A c \in Columns : Target(p)[c] \in Values[c]
    BY <1>2, <1>3, <1>6, <1>7 DEF Setting
  <1> QED
    BY <1>1, <1>3, <1>8 DEF Setting

LEMMA EventTypesKept == EventTypeOK /\ [Next]_vars => EventTypeOK'
PROOF
  <1> SUFFICES ASSUME EventTypeOK, [Next]_vars PROVE EventTypeOK'
    OBVIOUS
  <1>1. CASE UNCHANGED eventVars
    BY <1>1 DEF EventTypeOK, eventVars
  <1>2. CASE Tick
    BY <1>2, EventsAssumption DEF Tick, EventTypeOK
  <1>3. CASE DeleteEvent \/ RestoreEvent \/ HideEvent \/ PurgeFallsDue \/ TrashStale
             \/ PurgeEvent
    BY <1>3 DEF DeleteEvent, RestoreEvent, HideEvent, PurgeFallsDue, TrashStale,
                PurgeEvent, EventTypeOK, Reasons
  <1>4. ASSUME NEW e \in Editors, EditStep(e) PROVE EventTypeOK'
    <2>1. ASSUME NEW pc \in {"idle", "checked", "ready"}, NEW set, Setting(set),
                 edit' = [edit EXCEPT ![e] = [pc |-> pc, set |-> set]],
                 UNCHANGED <<now, column, trash, purge, hidden>>
          PROVE  EventTypeOK'
      BY <2>1 DEF EventTypeOK
    <2>2. Setting([c \in {} |-> None])
      BY DEF Setting
    <2>3. CASE StartEdit(e)
      BY <2>1, <2>2, <2>3 DEF StartEdit, NoEdit, EventTypeOK
    <2>4. CASE FailEdit(e)
      BY <2>1, <2>2, <2>4 DEF FailEdit, NoEdit
    <2>5. ASSUME NEW r \in Replacements, CheckReplacement(e, r) PROVE EventTypeOK'
      BY <2>1, <2>2, <2>5, EventsAssumption DEF CheckReplacement, NoEdit
    <2>6. ASSUME NEW p \in Patches, CheckPatch(e, p) PROVE EventTypeOK'
      BY <2>1, <2>2, <2>6, TargetTypes DEF CheckPatch, NoEdit
    <2>7. CASE CommitEdit(e)
      <3>1. Setting(column') /\ DOMAIN column' = Columns
        BY <2>7, MergedSettings DEF CommitEdit, EventTypeOK
      <3>2. edit' = [edit EXCEPT ![e] = NoEdit]
        BY <2>7 DEF CommitEdit
      <3> QED
        BY <2>2, <2>7, <3>1, <3>2 DEF CommitEdit, NoEdit, EventTypeOK
    <2> QED
      BY <1>4, <2>3, <2>4, <2>5, <2>6, <2>7 DEF EditStep
  <1> QED
    BY <1>1, <1>2, <1>3, <1>4, EventSteps DEF RowStep

\* The rows and requests keep their types: TypeOK, with the foreign key of
\* event_checkins, for every handler of an event and its tickets.
THEOREM TypesCorrect == Spec => []TypeOK
PROOF
  <1>1. Init => EventTypeOK
    <2> SUFFICES ASSUME EventInit PROVE EventTypeOK
      BY DEF Init
    <2>1. Setting([c \in {} |-> None])
      BY DEF Setting
    <2>2. Setting(NoEdit.set) /\ DOMAIN NoEdit = {"pc", "set"} /\ NoEdit.pc = "idle"
      BY <2>1 DEF NoEdit
    <2>3. Setting(column) /\ DOMAIN column = Columns
      BY EventsAssumption DEF EventInit
    <2>4. now \in 0..Horizon
      BY EventsAssumption DEF EventInit
    <2> QED
      BY <2>2, <2>3, <2>4 DEF EventInit, EventTypeOK
  <1>2. TicketInv /\ EventTypeOK => TypeOK
    BY DEF TicketInv, TypeOK
  <1> QED
    BY <1>1, <1>2, EventTypesKept, Initially, StepsKeep, PTL DEF Spec
=============================================================================
