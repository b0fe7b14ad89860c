------------------------ MODULE ParticipationProofs ------------------------
(***************************************************************************)
(* For every number of users, carpools, items and concurrent requests: one *)
(* role per user and the types of all variables; and, with one request per *)
(* user, that seats and the quantities promised of items are counted right,*)
(* that a decline leaves nothing, and that carpools implement the board of *)
(* rides.                                                                  *)
(*                                                                         *)
(* RolesInductive is the strengthening.  Most steps only take rows away    *)
(* and let no request past its check: ShrinkingStep treats them at once.   *)
(* The four steps that are left are the check and the COMMIT of            *)
(* create_carpool and of join_carpool.                                     *)
(***************************************************************************)
EXTENDS Participation, FiniteSetTheorems, TLAPS

-----------------------------------------------------------------------------
\* Records of requests.

LEMMA IdleIsARequest ==
    /\ Idle \in Request
    /\ Idle.pc = "idle"
PROOF
  BY DEF Idle, Request, PCs, NoPromise

LEMMA AdmittedRequest ==
    ASSUME NEW u \in Users, NEW pc \in PCs,
           NEW target \in CarpoolIds \cup Items \cup {None}, NEW amount \in Nat
    PROVE  LET x == Beginning(u, pc, target, amount)
           IN  x \in Request /\ x.pc = pc /\ x.user = u /\ x.target = target
PROOF
  BY IdleIsARequest DEF Idle, Request, Beginning

LEMMA NotifyingRequest ==
    ASSUME NEW u \in Users, NEW notice \in SUBSET Notices
    PROVE  LET x == Notifying(u, notice)
           IN  x \in Request /\ x.pc = "notify" /\ x.user = u
PROOF
  BY IdleIsARequest DEF Idle, Request, PCs, Notifying

-----------------------------------------------------------------------------
\* One request moves on: to x, with what x needs.

Addressed(x) ==
    /\ x.pc # "idle" => x.user \in Users
    /\ x.pc \in {"join", "joinChecked", "leave", "update", "delete",
                 "deleteListed"} => x.target \in CarpoolIds

ReqTyped == req \in [Requests -> Request] /\ RequestsAddressed

LEMMA RequestMoves ==
    ASSUME ReqTyped, NEW r \in Requests, NEW x \in Request, Addressed(x),
           req' = [req EXCEPT ![r] = x]
    PROVE  ReqTyped'
PROOF
  BY DEF ReqTyped, RequestsAddressed, Addressed

LEMMA FinishMoves ==
    ASSUME ReqTyped, NEW r \in Requests, Finish(r)
    PROVE  ReqTyped'
PROOF
  BY IdleIsARequest, RequestMoves DEF Addressed, Finish

LEMMA NotifyMoves ==
    ASSUME ReqTyped, NEW r \in Requests, NEW notice \in SUBSET Notices,
           req[r].pc # "idle", FinishThenNotify(r, notice)
    PROVE  ReqTyped'
PROOF
  <1>1. req[r].user \in Users
    BY DEF ReqTyped, RequestsAddressed
  <1> DEFINE x == Notifying(req[r].user, notice)
  <1>2. x \in Request /\ x.pc = "notify" /\ x.user \in Users
    BY <1>1, NotifyingRequest
  <1>3. req' = [req EXCEPT ![r] = x]
    BY DEF FinishThenNotify
  <1>4. Addressed(x)
    BY <1>2 DEF Addressed
  <1> HIDE DEF x
  <1> QED
    BY <1>2, <1>3, <1>4, RequestMoves

LEMMA AdmitMoves ==
    ASSUME ReqTyped, CarpoolTypeOK, NEW r \in Requests, NEW u, NEW pc \in PCs,
           NEW target \in CarpoolIds \cup Items \cup {None}, NEW amount \in Nat,
           pc \in {"join", "joinChecked", "leave", "update", "delete",
                   "deleteListed"} => target \in CarpoolIds,
           Admit(r, u, pc, target, amount)
    PROVE  ReqTyped' /\ u \in Users
PROOF
  <1>1. u \in Users
    BY DEF Admit, CarpoolTypeOK
  <1> DEFINE x == Beginning(u, pc, target, amount)
  <1>2. req' = [req EXCEPT ![r] = x]
    BY DEF Admit
  <1>3. x \in Request /\ x.pc = pc /\ x.user = u /\ x.target = target
    BY <1>1, AdmittedRequest
  <1>4. Addressed(x)
    BY <1>1, <1>3 DEF Addressed
  <1> HIDE DEF x
  <1>5. ReqTyped'
    BY <1>2, <1>3, <1>4, RequestMoves
  <1> QED
    BY <1>1, <1>5

\* Admitting a request leaves the database typed.
LEMMA AdmitKeepsTypes ==
    ASSUME CarpoolTypeOK, ReqTyped', NEW r, NEW u, NEW pc, NEW target,
           NEW amount, Admit(r, u, pc, target, amount),
           accounts' = accounts, writable' \in BOOLEAN, overdue' \in BOOLEAN,
           invitation' \in [Users -> Statuses]
    PROVE  CarpoolTypeOK'
PROOF
  BY DEF CarpoolTypeOK, Admit, ReqTyped, carpoolVars, itemVars, Notices

LEMMA DropSeatsTyped ==
    ASSUME CarpoolTypeOK, NEW C, NEW u, NEW from, NEW freed,
           DropSeats(C, u, from, freed)
    PROVE  /\ minted' \subseteq CarpoolIds
           /\ driver' \in [CarpoolIds -> Users \cup {None}]
           /\ seatsTotal' \in [CarpoolIds -> Nat]
           /\ seatsTaken' \in [CarpoolIds -> Nat]
           /\ passengers' \in [CarpoolIds -> SUBSET Users]
PROOF
  BY DEF CarpoolTypeOK, DropSeats, OneSeatLess
-----------------------------------------------------------------------------
\* Types.

\* The beginning of any request.
LEMMA BeginTypes ==
    ASSUME ParticipationAssumption, CarpoolTypeOK, ReqTyped,
           NEW r \in Requests, Begin(r)
    PROVE  CarpoolTypeOK' /\ ReqTyped'
PROOF
  <1> USE DEF ParticipationAssumption
  <1>1. CASE \E u \in Users, n \in 1..MaxSeats : StartCreate(r, u, n)
    <2>1. PICK u \in Users, n \in 1..MaxSeats : StartCreate(r, u, n)
      BY <1>1
    <2>2. Admit(r, u, "create", None, n) /\ UNCHANGED memberVars /\ n \in Nat
      BY <2>1 DEF StartCreate, Start
    <2>3. ReqTyped'
      BY <2>2, AdmitMoves DEF PCs
    <2> QED
      BY <2>2, <2>3, AdmitKeepsTypes DEF memberVars, CarpoolTypeOK
  <1>2. CASE \E u \in Users, c \in CarpoolIds : StartJoin(r, u, c)
    <2>1. PICK u \in Users, c \in CarpoolIds : StartJoin(r, u, c)
      BY <1>2
    <2>2. Admit(r, u, "join", c, 0) /\ UNCHANGED memberVars
      BY <2>1 DEF StartJoin, Start
    <2>3. ReqTyped'
      BY <2>2, AdmitMoves DEF PCs
    <2> QED
      BY <2>2, <2>3, AdmitKeepsTypes DEF memberVars, CarpoolTypeOK
  <1>3. CASE \E u \in Users, c \in CarpoolIds : StartLeave(r, u, c)
    <2>1. PICK u \in Users, c \in CarpoolIds : StartLeave(r, u, c)
      BY <1>3
    <2>2. Admit(r, u, "leave", c, 0) /\ UNCHANGED memberVars
      BY <2>1 DEF StartLeave, Start
    <2>3. ReqTyped'
      BY <2>2, AdmitMoves DEF PCs
    <2> QED
      BY <2>2, <2>3, AdmitKeepsTypes DEF memberVars, CarpoolTypeOK
  <1>4. CASE \E u \in Users, answer \in {"accept", "decline"} :
                 StartRespond(r, u, answer)
    <2>1. PICK u \in Users, answer \in {"accept", "decline"} :
                 StartRespond(r, u, answer)
      BY <1>4
    <2>2. Admit(r, u, answer, None, 0) /\ ExpireOverdue
      BY <2>1 DEF StartRespond
    <2>5. /\ answer \in PCs
          /\ answer \notin {"join", "joinChecked", "leave", "update", "delete",
                            "deleteListed"}
      BY DEF PCs
    <2>3. ReqTyped'
      BY <2>2, <2>5, AdmitMoves
    <2>4. /\ accounts' = accounts
          /\ writable' \in BOOLEAN /\ overdue' \in BOOLEAN
          /\ invitation' \in [Users -> Statuses]
      BY <2>2 DEF ExpireOverdue, CarpoolTypeOK, Statuses
    <2> QED
      BY <2>2, <2>3, <2>4, AdmitKeepsTypes
  <1>5. CASE \E u \in Users, i \in Items, q \in 0..MaxQty :
                 StartReserve(r, u, i, q) \/ StartCustom(r, u, i, q)
    <2>1. PICK u \in Users, i \in Items, q \in 0..MaxQty :
                 StartReserve(r, u, i, q) \/ StartCustom(r, u, i, q)
      BY <1>5
    <2>2. PICK pc \in {"reserve", "custom"} :
              Admit(r, u, pc, i, q) /\ UNCHANGED memberVars /\ q \in Nat
      BY <2>1 DEF StartReserve, StartCustom, Start
    <2>3. ReqTyped'
      BY <2>2, AdmitMoves DEF PCs
    <2> QED
      BY <2>2, <2>3, AdmitKeepsTypes DEF memberVars, CarpoolTypeOK
  <1>6. CASE \E u \in Users, i \in Items : StartDrop(r, u, i)
    <2>1. PICK u \in Users, i \in Items : StartDrop(r, u, i)
      BY <1>6
    <2>2. Admit(r, u, "drop", i, 0) /\ UNCHANGED memberVars
      BY <2>1 DEF StartDrop, Start
    <2>3. ReqTyped'
      BY <2>2, AdmitMoves DEF PCs
    <2> QED
      BY <2>2, <2>3, AdmitKeepsTypes DEF memberVars, CarpoolTypeOK
  <1>7. CASE \E c \in CarpoolIds, n \in 1..MaxSeats : StartUpdate(r, c, n)
    <2>1. PICK c \in CarpoolIds, n \in 1..MaxSeats : StartUpdate(r, c, n)
      BY <1>7
    <2>2. Admit(r, driver[c], "update", c, n) /\ UNCHANGED memberVars
            /\ n \in Nat
      BY <2>1 DEF StartUpdate, Start
    <2>3. ReqTyped'
      BY <2>2, AdmitMoves DEF PCs
    <2> QED
      BY <2>2, <2>3, AdmitKeepsTypes DEF memberVars, CarpoolTypeOK
  <1>8. CASE \E c \in CarpoolIds : StartDelete(r, c)
    <2>1. PICK c \in CarpoolIds : StartDelete(r, c)
      BY <1>8
    <2>2. Admit(r, driver[c], "delete", c, 0) /\ UNCHANGED memberVars
      BY <2>1 DEF StartDelete, Start
    <2>3. ReqTyped'
      BY <2>2, AdmitMoves DEF PCs
    <2> QED
      BY <2>2, <2>3, AdmitKeepsTypes DEF memberVars, CarpoolTypeOK
  <1>9. CASE \E i \in Items, q \in 1..MaxQty : StartAttach(r, i, q)
    <2>1. PICK i \in Items, q \in 1..MaxQty : StartAttach(r, i, q)
      BY <1>9
    <2>2. Admit(r, Owner, "attach", i, q) /\ UNCHANGED memberVars /\ q \in Nat
      BY <2>1 DEF StartAttach, Start
    <2>3. ReqTyped'
      BY <2>2, AdmitMoves DEF PCs
    <2> QED
      BY <2>2, <2>3, AdmitKeepsTypes DEF memberVars, CarpoolTypeOK
  <1>10. 1..MaxQty \subseteq 0..MaxQty
    OBVIOUS
  <1> QED
    BY <1>1, <1>2, <1>3, <1>4, <1>5, <1>6, <1>7, <1>8, <1>9, <1>10 DEF Begin

\* A step that leaves the database alone and inserts no outbox row.
LEMMA ReadTypes ==
    ASSUME CarpoolTypeOK, ReqTyped', enqueued' = {},
           UNCHANGED <<memberVars, carpoolVars, itemVars>>
    PROVE  CarpoolTypeOK'
PROOF
  BY DEF CarpoolTypeOK, ReqTyped, memberVars, carpoolVars, itemVars

\* A check or a listing of a request.
LEMMA ListingTypes ==
    ASSUME ParticipationAssumption, CarpoolTypeOK, ReqTyped,
           NEW r \in Requests,
           \/ CheckCreate(r) \/ CheckJoin(r) \/ ListPassengers(r)
           \/ ListPromises(r) \/ ReleasePromises(r)
    PROVE  CarpoolTypeOK' /\ ReqTyped'
PROOF
  <1>1. req[r] \in Request
    BY DEF ReqTyped
  <1>2. req[r].user \in Users
    BY DEF ReqTyped, RequestsAddressed, CheckCreate, CheckJoin, ListPassengers,
           ListPromises, ReleasePromises
  <1>3. CASE CheckCreate(r)
    <2>1. [req[r] EXCEPT !.pc = "createChecked"] \in Request
      BY <1>1 DEF Request, PCs
    <2>2. ReqTyped'
      BY <1>1, <1>2, <1>3, <2>1 DEF CheckCreate, ReqTyped, RequestsAddressed, Request
    <2> QED
      BY <1>3, <2>2, ReadTypes DEF CheckCreate
  <1>4. CASE CheckJoin(r)
    <2>1. [req[r] EXCEPT !.pc = "joinChecked"] \in Request
      BY <1>1 DEF Request, PCs
    <2>2. ReqTyped'
      BY <1>1, <1>2, <1>4, <2>1 DEF CheckJoin, ReqTyped, RequestsAddressed, Request
    <2> QED
      BY <1>4, <2>2, ReadTypes DEF CheckJoin
  <1>5. CASE ListPassengers(r)
    <2> DEFINE x == [req[r] EXCEPT !.pc = "deleteListed",
                                   !.riders = passengers[req[r].target]]
    <2>1. req[r].target \in CarpoolIds
      BY <1>5 DEF ListPassengers, ReqTyped, RequestsAddressed
    <2>2. /\ x \in Request
          /\ x.pc = "deleteListed" /\ x.user = req[r].user
          /\ x.target = req[r].target
      BY <1>1, <2>1 DEF Request, PCs, CarpoolTypeOK
    <2>3. req' = [req EXCEPT ![r] = x]
      BY <1>5 DEF ListPassengers
    <2>4. Addressed(x)
      BY <1>2, <2>1, <2>2 DEF Addressed
    <2> HIDE DEF x
    <2>5. ReqTyped'
      BY <2>2, <2>3, <2>4, RequestMoves
    <2> QED
      BY <1>5, <2>5, ReadTypes DEF ListPassengers
  <1>6. CASE ListPromises(r)
    <2> DEFINE x == [req[r] EXCEPT !.pc = "declineListed",
                                   !.promised = promise[req[r].user]]
    <2>1. x \in Request /\ x.pc = "declineListed" /\ x.user = req[r].user
      BY <1>1, <1>2 DEF Request, PCs, CarpoolTypeOK
    <2>2. req' = [req EXCEPT ![r] = x]
      BY <1>6 DEF ListPromises
    <2>3. Addressed(x)
      BY <1>2, <2>1 DEF Addressed
    <2> HIDE DEF x
    <2>4. ReqTyped'
      BY <2>1, <2>2, <2>3, RequestMoves
    <2> QED
      BY <1>6, <2>4, ReadTypes DEF ListPromises
  <1>7. CASE ReleasePromises(r)
    <2> DEFINE u == req[r].user
               D == {i \in Items : promise[u][i] > 0}
               x == [req[r] EXCEPT !.pc = "declineReleased", !.dropped = D,
                                   !.owned = Only(DrivesIn(u)),
                                   !.target = Only(RidesIn(u))]
    <2>1. /\ Only(DrivesIn(u)) \in CarpoolIds \cup {None}
          /\ Only(RidesIn(u)) \in CarpoolIds \cup {None}
      BY DEF Only, DrivesIn, RidesIn
    <2>2. D \in SUBSET Items
      OBVIOUS
    <2>3. req' = [req EXCEPT ![r] = x]
      BY <1>7 DEF ReleasePromises
    <2> HIDE DEF D
    <2>4. x \in Request /\ x.pc = "declineReleased" /\ x.user = u
      BY <1>1, <2>1, <2>2 DEF Request, PCs
    <2>5. Addressed(x)
      BY <1>2, <2>4 DEF Addressed
    <2> HIDE DEF x
    <2>6. ReqTyped'
      BY <2>3, <2>4, <2>5, RequestMoves
    <2> QED
      BY <1>7, <2>6, ReadTypes DEF ReleasePromises
  <1> QED
    BY <1>3, <1>4, <1>5, <1>6, <1>7

\* A COMMIT that ends the request and rewrites carpool rows.
LEMMA CarpoolCommitTypes ==
    ASSUME ParticipationAssumption, CarpoolTypeOK, ReqTyped,
           DeadCarpoolsAreEmpty, NEW r \in Requests,
           \/ CommitCreate(r) \/ CommitJoin(r) \/ CommitLeave(r)
           \/ CommitUpdate(r) \/ CommitDelete(r)
    PROVE  CarpoolTypeOK' /\ ReqTyped'
PROOF
  <1> DEFINE u == req[r].user
             c == req[r].target
  <1>1. req[r] \in Request /\ u \in Users
    BY DEF ReqTyped, RequestsAddressed, CommitCreate, CommitJoin, CommitLeave,
           CommitUpdate, CommitDelete
  <1>2. CASE CommitCreate(r)
    <2>1. ReqTyped'
      BY <1>2, FinishMoves DEF CommitCreate
    <2>2. req[r].amount \in Nat
      BY <1>1 DEF Request
    <2> QED
      BY <1>1, <1>2, <2>1, <2>2
      DEF CommitCreate, CarpoolTypeOK, ReqTyped, memberVars, itemVars
  <1>3. CASE CommitJoin(r)
    <2>1. ReqTyped'
      BY <1>3, FinishMoves DEF CommitJoin
    <2>2. c \in CarpoolIds
      BY <1>3 DEF CommitJoin, ReqTyped, RequestsAddressed
    <2>3. driver[c] \in Users
      BY <1>3, <2>2
      DEF CommitJoin, HasSeat, DeadCarpoolsAreEmpty, CarpoolTypeOK
    <2>4. enqueued' \subseteq Notices
      BY <1>3, <2>2, <2>3 DEF CommitJoin, Notices
    <2> QED
      BY <1>1, <1>3, <2>1, <2>2, <2>4
      DEF CommitJoin, CarpoolTypeOK, ReqTyped, memberVars, itemVars
  <1>4. CASE CommitLeave(r)
    <2> DEFINE notice == {[kind |-> "left", carpool |-> c, to |-> driver[c]]}
    <2>1. c \in CarpoolIds /\ driver[c] \in Users
      BY <1>4
      DEF CommitLeave, ReqTyped, RequestsAddressed, CarpoolTypeOK, Live
    <2>2. notice \in SUBSET Notices
      BY <2>1 DEF Notices
    <2>3. req[r].pc # "idle" /\ FinishThenNotify(r, notice)
      BY <1>4 DEF CommitLeave
    <2> HIDE DEF notice
    <2>4. ReqTyped'
      BY <2>2, <2>3, NotifyMoves
    <2> QED
      BY <1>1, <1>4, <2>1, <2>4
      DEF CommitLeave, CarpoolTypeOK, ReqTyped, memberVars, itemVars,
          OneSeatLess
  <1>5. CASE CommitUpdate(r)
    <2>1. ReqTyped'
      BY <1>5, FinishMoves DEF CommitUpdate
    <2>2. req[r].amount \in Nat
      BY <1>1 DEF Request
    <2> QED
      BY <1>1, <1>5, <2>1, <2>2
      DEF CommitUpdate, CarpoolTypeOK, ReqTyped, memberVars, itemVars
  <1>6. CASE CommitDelete(r)
    <2>1. ReqTyped'
      BY <1>6, FinishMoves DEF CommitDelete
    <2>2. c \in CarpoolIds /\ req[r].riders \subseteq Users
      BY <1>1, <1>6 DEF CommitDelete, ReqTyped, RequestsAddressed, Request
    <2>3. enqueued' \subseteq Notices
      BY <1>6, <2>2 DEF CommitDelete, Notices
    <2>4. /\ minted' \subseteq CarpoolIds
          /\ driver' \in [CarpoolIds -> Users \cup {None}]
          /\ seatsTotal' \in [CarpoolIds -> Nat]
          /\ seatsTaken' \in [CarpoolIds -> Nat]
          /\ passengers' \in [CarpoolIds -> SUBSET Users]
      BY <1>6, DropSeatsTyped DEF CommitDelete
    <2> QED
      BY <1>6, <2>1, <2>3, <2>4
      DEF CommitDelete, CarpoolTypeOK, ReqTyped, memberVars, itemVars
  <1> QED
    BY <1>2, <1>3, <1>4, <1>5, <1>6

\* A COMMIT of an answer to the invitation.
LEMMA AnswerTypes ==
    ASSUME ParticipationAssumption, CarpoolTypeOK, ReqTyped,
           NEW r \in Requests, CommitAccept(r) \/ CommitDecline(r)
    PROVE  CarpoolTypeOK' /\ ReqTyped'
PROOF
  <1> DEFINE u == req[r].user
  <1>1. req[r] \in Request /\ u \in Users
    BY DEF ReqTyped, RequestsAddressed, CommitAccept, CommitDecline
  <1>2. Response(u) \in SUBSET Notices
    BY DEF Response, Notices, ParticipationAssumption
  <1>3. req[r].pc # "idle" /\ FinishThenNotify(r, Response(u))
    BY DEF CommitAccept, CommitDecline
  <1>4. ReqTyped'
    BY <1>2, <1>3, NotifyMoves
  <1>5. CASE CommitAccept(r)
    BY <1>1, <1>4, <1>5
    DEF CommitAccept, CarpoolTypeOK, ReqTyped, carpoolVars, itemVars, Statuses
  <1>6. CASE CommitDecline(r)
    <2>1. invitation' \in [Users -> Statuses]
      BY <1>1, <1>6 DEF CommitDecline, CarpoolTypeOK, Statuses
    <2>2. promise' \in [Users -> [Items -> Nat]]
      BY <1>1, <1>6 DEF CommitDecline, CarpoolTypeOK
    <2>3. /\ minted' \subseteq CarpoolIds
          /\ driver' \in [CarpoolIds -> Users \cup {None}]
          /\ seatsTotal' \in [CarpoolIds -> Nat]
          /\ seatsTaken' \in [CarpoolIds -> Nat]
          /\ passengers' \in [CarpoolIds -> SUBSET Users]
      BY <1>6, DropSeatsTyped DEF CommitDecline
    <2> QED
      BY <1>4, <1>6, <2>1, <2>2, <2>3 DEF CommitDecline, CarpoolTypeOK, ReqTyped
  <1> QED
    BY <1>5, <1>6

\* A COMMIT on the items of the event.
LEMMA ItemCommitTypes ==
    ASSUME ParticipationAssumption, CarpoolTypeOK, ReqTyped,
           NEW r \in Requests,
           \/ CommitReserve(r) \/ CommitAttach(r) \/ CommitCustom(r)
           \/ CommitDrop(r)
    PROVE  CarpoolTypeOK' /\ ReqTyped'
PROOF
  <1>1. req[r] \in Request
    BY DEF ReqTyped
  <1>2. ReqTyped'
    BY FinishMoves DEF CommitReserve, CommitAttach, CommitCustom, CommitDrop
  <1>3. promise' \in [Users -> [Items -> Nat]]
    <2>1. CASE CommitReserve(r)
      <3>1. req[r].amount \in Nat
        BY <1>1 DEF Request
      <3>2. promise' = [promise EXCEPT ![req[r].user][req[r].target] =
                                            req[r].amount]
        BY <2>1 DEF CommitReserve
      <3>3. promise \in [Users -> [Items -> Nat]]
        BY DEF CarpoolTypeOK
      <3> QED
        BY <3>1, <3>2, <3>3
    <2>2. CASE CommitAttach(r) \/ CommitCustom(r)
      BY <2>2 DEF CommitAttach, CommitCustom, CarpoolTypeOK
    <2>3. CASE CommitDrop(r)
      BY <2>3 DEF CommitDrop, DropItems, CarpoolTypeOK
    <2> QED
      BY <2>1, <2>2, <2>3
  <1>4. /\ UNCHANGED <<memberVars, carpoolVars>>
        /\ enqueued' = {}
    BY DEF CommitReserve, CommitAttach, CommitCustom, CommitDrop
  <1> QED
    BY <1>2, <1>3, <1>4 DEF CarpoolTypeOK, ReqTyped, memberVars, carpoolVars

\* A step no request takes.
LEMMA OtherTypes ==
    ASSUME ParticipationAssumption, CarpoolTypeOK, ReqTyped,
           \/ \E u \in Users : Invite(u) \/ RemoveGuest(u) \/ DeleteAccount(u)
           \/ Cleanup
           \/ Reschedule
    PROVE  CarpoolTypeOK' /\ ReqTyped'
PROOF
  <1>1. req' = req
    BY DEF Invite, RemoveGuest, DeleteAccount, Cleanup, Reschedule
  <1>2. ReqTyped'
    BY <1>1 DEF ReqTyped, RequestsAddressed
  <1>3. CASE \E u \in Users : Invite(u) \/ RemoveGuest(u)
    <2>1. PICK u \in Users : Invite(u) \/ RemoveGuest(u)
      BY <1>3
    <2>2. invitation' \in [Users -> Statuses]
      BY <2>1 DEF Invite, RemoveGuest, CarpoolTypeOK, Statuses
    <2>3. enqueued' \subseteq Notices
      BY <2>1 DEF Invite, RemoveGuest, Notices
    <2>4. UNCHANGED <<accounts, writable, overdue, carpoolVars, itemVars>>
      BY <2>1 DEF Invite, RemoveGuest
    <2> QED
      BY <1>2, <2>2, <2>3, <2>4 DEF CarpoolTypeOK, ReqTyped, carpoolVars, itemVars
  <1>4. CASE \E u \in Users : DeleteAccount(u)
    <2>1. PICK u \in Users : DeleteAccount(u)
      BY <1>4
    <2>2. invitation' \in [Users -> Statuses]
      BY <2>1 DEF DeleteAccount, CarpoolTypeOK, Statuses
    <2>3. promise' \in [Users -> [Items -> Nat]]
      BY <2>1 DEF DeleteAccount, CarpoolTypeOK
    <2>4. /\ minted' \subseteq CarpoolIds
          /\ driver' \in [CarpoolIds -> Users \cup {None}]
          /\ seatsTotal' \in [CarpoolIds -> Nat]
          /\ seatsTaken' \in [CarpoolIds -> Nat]
          /\ passengers' \in [CarpoolIds -> SUBSET Users]
      BY <2>1, DropSeatsTyped DEF DeleteAccount
    <2>5. /\ accounts' \subseteq Users
          /\ enqueued' = {}
          /\ UNCHANGED <<writable, overdue>>
      BY <2>1 DEF DeleteAccount, CarpoolTypeOK
    <2> QED
      BY <1>2, <2>2, <2>3, <2>4, <2>5 DEF CarpoolTypeOK, ReqTyped
  <1>5. CASE Cleanup
    BY <1>2, <1>5
    DEF Cleanup, ExpireOverdue, CarpoolTypeOK, ReqTyped, Statuses, carpoolVars,
        itemVars
  <1>6. CASE Reschedule
    BY <1>2, <1>6
    DEF Reschedule, CarpoolTypeOK, ReqTyped, carpoolVars, itemVars
  <1> QED
    BY <1>3, <1>4, <1>5, <1>6

LEMMA NextTypes ==
    ASSUME ParticipationAssumption, CarpoolTypeOK, ReqTyped,
           DeadCarpoolsAreEmpty, Next
    PROVE  CarpoolTypeOK' /\ ReqTyped'
PROOF
  <1>1. CASE \E r \in Requests : Begin(r)
    BY <1>1, BeginTypes
  <1>2. CASE \E r \in Requests : Advance(r)
    <2>1. PICK r \in Requests : Advance(r)
      BY <1>2
    <2>2. CASE Notify(r)
      <3>1. ReqTyped'
        BY <2>2, FinishMoves DEF Notify
      <3>2. enqueued' \subseteq Notices
        BY <2>2 DEF Notify, ReqTyped, Request
      <3> QED
        BY <2>2, <3>1, <3>2
        DEF Notify, CarpoolTypeOK, ReqTyped, memberVars, carpoolVars, itemVars
    <2> QED
      BY <2>1, <2>2, ListingTypes, CarpoolCommitTypes, AnswerTypes,
         ItemCommitTypes DEF Advance
  <1>3. CASE \E r \in Requests : Fail(r)
    BY <1>3, FinishMoves, ReadTypes DEF Fail
  <1> QED
    BY <1>1, <1>2, <1>3, OtherTypes DEF Next
-----------------------------------------------------------------------------
\* Roles.

Roles ==
    /\ DeadCarpoolsAreEmpty
    /\ NoRoleOnceChecked
    /\ OneCheckPerUser
    /\ OneRolePerUser

\* Carpool rows only go away, a carpool together with its passengers.
RowsShrink ==
    /\ minted' = minted
    /\ \A c \in CarpoolIds :
          /\ driver'[c] \in {driver[c], None}
          /\ passengers'[c] \subseteq passengers[c]
          /\ driver'[c] = None => passengers'[c] = {} /\ seatsTotal'[c] = 0

\* No request passes its check.
NoneChecked ==
    \A r \in Requests :
        Checked(r)' => Checked(r) /\ req'[r].user = req[r].user

LEMMA ShrinkingStep ==
    ASSUME ParticipationAssumption, CarpoolTypeOK, ReqTyped, Roles,
           RowsShrink, NoneChecked
    PROVE  Roles'
PROOF
  <1>1. \A r \in Requests : Checked(r) => req[r].user \in Users /\ req[r].user # None
    BY DEF Checked, ReqTyped, RequestsAddressed, ParticipationAssumption
  <1>2. DeadCarpoolsAreEmpty'
    BY DEF Roles, DeadCarpoolsAreEmpty, RowsShrink
  <1>3. NoRoleOnceChecked'
    BY <1>1 DEF Roles, NoRoleOnceChecked, RowsShrink, NoneChecked
  <1>4. OneCheckPerUser'
    BY DEF Roles, OneCheckPerUser, NoneChecked
  <1>5. OneRolePerUser'
    <2> SUFFICES ASSUME NEW u \in Users, NEW c \in CarpoolIds, NEW d \in CarpoolIds
                 PROVE  /\ driver'[c] = u => u \notin passengers'[d]
                        /\ driver'[c] = u /\ driver'[d] = u => c = d
                        /\ u \in passengers'[c] /\ u \in passengers'[d] => c = d
      BY DEF OneRolePerUser
    <2>1. u # None
      BY DEF ParticipationAssumption
    <2>2. /\ driver'[c] = u => driver[c] = u
          /\ driver'[d] = u => driver[d] = u
          /\ u \in passengers'[c] => u \in passengers[c]
          /\ u \in passengers'[d] => u \in passengers[d]
      BY <2>1 DEF RowsShrink
    <2> QED
      BY <2>2 DEF Roles, OneRolePerUser
  <1> QED
    BY <1>2, <1>3, <1>4, <1>5 DEF Roles

\* Carpool rows that do not change shrink.
LEMMA UnchangedRowsShrink ==
    ASSUME Roles, UNCHANGED carpoolVars
    PROVE  RowsShrink
PROOF
  BY DEF Roles, RowsShrink, DeadCarpoolsAreEmpty, carpoolVars

LEMMA DropSeatsShrinks ==
    ASSUME Roles, NEW C, NEW u, NEW from, NEW freed, DropSeats(C, u, from, freed)
    PROVE  RowsShrink
PROOF
  BY DEF Roles, RowsShrink, DeadCarpoolsAreEmpty, DropSeats

\* Only a check makes a request Checked.
LEMMA MoveUnchecked ==
    ASSUME ReqTyped, NEW r \in Requests, NEW x, req' = [req EXCEPT ![r] = x],
           x.pc \notin {"createChecked", "joinChecked"}
    PROVE  NoneChecked
PROOF
  BY DEF NoneChecked, Checked, ReqTyped

LEMMA FinishUnchecked ==
    ASSUME ReqTyped, NEW r \in Requests, Finish(r)
    PROVE  NoneChecked
PROOF
  BY MoveUnchecked, IdleIsARequest DEF Finish

LEMMA NotifyUnchecked ==
    ASSUME ReqTyped, NEW r \in Requests, NEW notice, FinishThenNotify(r, notice)
    PROVE  NoneChecked
PROOF
  <1> DEFINE x == Notifying(req[r].user, notice)
  <1>1. x.pc = "notify"
    BY DEF Notifying, Idle
  <1>2. req' = [req EXCEPT ![r] = x]
    BY DEF FinishThenNotify
  <1> HIDE DEF x
  <1> QED
    BY <1>1, <1>2, MoveUnchecked

LEMMA AdmitUnchecked ==
    ASSUME ReqTyped, NEW r \in Requests, NEW u, NEW pc, NEW target, NEW amount,
           pc \notin {"createChecked", "joinChecked"},
           Admit(r, u, pc, target, amount)
    PROVE  NoneChecked /\ UNCHANGED carpoolVars
PROOF
  <1> DEFINE x == Beginning(u, pc, target, amount)
  <1>1. x.pc = pc
    BY DEF Beginning, Idle
  <1>2. req' = [req EXCEPT ![r] = x] /\ UNCHANGED carpoolVars
    BY DEF Admit
  <1> HIDE DEF x
  <1> QED
    BY <1>1, <1>2, MoveUnchecked

LEMMA BeginUnchecked ==
    ASSUME ReqTyped, NEW r \in Requests, Begin(r)
    PROVE  NoneChecked /\ UNCHANGED carpoolVars
PROOF
  <1>1. \E u, target, amount :
          \E pc \in {"create", "join", "leave", "accept", "decline", "reserve",
                     "custom", "drop", "update", "delete", "attach"} :
              Admit(r, u, pc, target, amount)
    BY DEF Begin, StartCreate, StartJoin, StartLeave, StartRespond,
           StartReserve, StartCustom, StartDrop, StartUpdate, StartDelete,
           StartAttach, Start
  <1> QED
    BY <1>1, AdmitUnchecked

\* The two checks find no role, and the advisory lock no other checked request.
LEMMA CheckRoles ==
    ASSUME ParticipationAssumption, CarpoolTypeOK, ReqTyped, Roles,
           NEW r \in Requests, CheckCreate(r) \/ CheckJoin(r)
    PROVE  Roles'
PROOF
  <1> DEFINE u == req[r].user
  <1>1. UNCHANGED carpoolVars
    BY DEF CheckCreate, CheckJoin
  <1>2. \A c \in CarpoolIds : driver[c] # u /\ u \notin passengers[c]
    BY DEF CheckCreate, CheckJoin, DrivesIn, RidesIn, NotItsDriver
  <1>3. \A q \in Requests \ {r} : req[q].user = u => ~Checked(q)
    BY DEF CheckCreate, CheckJoin, AdvisoryFree, Checked
  <1>4. /\ \A q \in Requests : req'[q].user = req[q].user
        /\ \A q \in Requests \ {r} : Checked(q)' <=> Checked(q)
    <2>1. PICK pc \in PCs : req' = [req EXCEPT ![r].pc = pc]
      BY DEF CheckCreate, CheckJoin, PCs
    <2>2. req[r] \in Request
      BY DEF ReqTyped
    <2>3. [req[r] EXCEPT !.pc = pc].user = u
      BY <2>2 DEF Request
    <2> QED
      BY <2>1, <2>3 DEF Checked, ReqTyped
  <1>5. DeadCarpoolsAreEmpty'
    BY <1>1 DEF Roles, DeadCarpoolsAreEmpty, carpoolVars
  <1>6. NoRoleOnceChecked'
    BY <1>1, <1>2, <1>4 DEF Roles, NoRoleOnceChecked, carpoolVars
  <1>7. OneCheckPerUser'
    BY <1>3, <1>4 DEF Roles, OneCheckPerUser
  <1>8. OneRolePerUser'
    BY <1>1 DEF Roles, OneRolePerUser, carpoolVars
  <1> QED
    BY <1>5, <1>6, <1>7, <1>8 DEF Roles

\* The two COMMITs give a role to the user of a checked request, which has
\* none, and which no other checked request belongs to.
LEMMA CommitRoles ==
    ASSUME ParticipationAssumption, CarpoolTypeOK, ReqTyped, Roles,
           NEW r \in Requests, CommitCreate(r) \/ CommitJoin(r)
    PROVE  Roles'
PROOF
  <1> DEFINE u == req[r].user
             t == req[r].target
  <1>1. Checked(r) /\ u \in Users /\ u # None
    BY DEF CommitCreate, CommitJoin, Checked, ReqTyped, RequestsAddressed,
           ParticipationAssumption
  <1>2. \A c \in CarpoolIds : driver[c] # u /\ u \notin passengers[c]
    BY <1>1 DEF Roles, NoRoleOnceChecked
  <1>3. \A q \in Requests \ {r} : Checked(q) => req[q].user # u
    BY <1>1 DEF Roles, OneCheckPerUser
  <1>4. /\ ~Checked(r)'
        /\ \A q \in Requests \ {r} : req'[q] = req[q]
    BY IdleIsARequest DEF CommitCreate, CommitJoin, Finish, Checked, ReqTyped
  <1>5. OneCheckPerUser'
    BY <1>4 DEF Roles, OneCheckPerUser, Checked
  <1>6. CASE CommitCreate(r)
    <2>1. PICK c \in CarpoolIds \ minted :
              /\ minted' = minted \cup {c}
              /\ driver' = [driver EXCEPT ![c] = u]
              /\ seatsTotal' = [seatsTotal EXCEPT ![c] = req[r].amount]
      BY <1>6 DEF CommitCreate
    <2>2. passengers' = passengers
      BY <1>6 DEF CommitCreate
    <2>3. passengers[c] = {}
      BY <2>1 DEF Roles, DeadCarpoolsAreEmpty
    <2>4. \A d \in CarpoolIds : driver'[d] = IF d = c THEN u ELSE driver[d]
      BY <2>1 DEF CarpoolTypeOK
    <2>5. DeadCarpoolsAreEmpty'
      BY <1>1, <2>1, <2>2, <2>4 DEF Roles, DeadCarpoolsAreEmpty, CarpoolTypeOK
    <2>6. NoRoleOnceChecked'
      BY <1>3, <1>4, <2>2, <2>4 DEF Roles, NoRoleOnceChecked, Checked
    <2>7. OneRolePerUser'
      BY <1>2, <2>2, <2>3, <2>4 DEF Roles, OneRolePerUser
    <2> QED
      BY <1>5, <2>5, <2>6, <2>7 DEF Roles
  <1>7. CASE CommitJoin(r)
    <2>1. /\ passengers' = [passengers EXCEPT ![t] = @ \cup {u}]
          /\ UNCHANGED <<minted, driver, seatsTotal>>
          /\ t \in CarpoolIds
      BY <1>7 DEF CommitJoin, ReqTyped, RequestsAddressed
    <2>2. driver[t] # None
      BY <1>7, <2>1
      DEF CommitJoin, HasSeat, Roles, DeadCarpoolsAreEmpty, CarpoolTypeOK
    <2>3. \A d \in CarpoolIds :
              passengers'[d] = IF d = t THEN passengers[d] \cup {u}
                               ELSE passengers[d]
      BY <2>1 DEF CarpoolTypeOK
    <2>4. DeadCarpoolsAreEmpty'
      BY <2>1, <2>2, <2>3 DEF Roles, DeadCarpoolsAreEmpty
    <2>5. NoRoleOnceChecked'
      BY <1>3, <1>4, <2>1, <2>3 DEF Roles, NoRoleOnceChecked, Checked
    <2>6. OneRolePerUser'
      BY <1>2, <2>1, <2>3 DEF Roles, OneRolePerUser
    <2> QED
      BY <1>5, <2>4, <2>5, <2>6 DEF Roles
  <1> QED
    BY <1>6, <1>7

LEMMA NextRoles ==
    ASSUME ParticipationAssumption, CarpoolTypeOK, ReqTyped, Roles, Next
    PROVE  Roles'
PROOF
  <1>1. CASE \E r \in Requests : Begin(r)
    BY <1>1, BeginUnchecked, UnchangedRowsShrink, ShrinkingStep
  <1>2. CASE \E r \in Requests : Advance(r)
    <2>1. PICK r \in Requests : Advance(r)
      BY <1>2
    <2>2. CASE \/ ListPassengers(r) \/ ListPromises(r) \/ ReleasePromises(r)
      <3>1. NoneChecked /\ UNCHANGED carpoolVars
        <4>1. req[r] \in Request
          BY DEF ReqTyped
        <4>2. CASE ListPassengers(r)
          <5> DEFINE x == [req[r] EXCEPT !.pc = "deleteListed",
                                         !.riders = passengers[req[r].target]]
          <5>1. x.pc = "deleteListed"
            BY <4>1 DEF Request
          <5>2. req' = [req EXCEPT ![r] = x] /\ UNCHANGED carpoolVars
            BY <4>2 DEF ListPassengers
          <5> HIDE DEF x
          <5> QED
            BY <5>1, <5>2, MoveUnchecked
        <4>3. CASE ListPromises(r)
          <5> DEFINE x == [req[r] EXCEPT !.pc = "declineListed",
                                         !.promised = promise[req[r].user]]
          <5>1. x.pc = "declineListed"
            BY <4>1 DEF Request
          <5>2. req' = [req EXCEPT ![r] = x] /\ UNCHANGED carpoolVars
            BY <4>3 DEF ListPromises
          <5> HIDE DEF x
          <5> QED
            BY <5>1, <5>2, MoveUnchecked
        <4>4. CASE ReleasePromises(r)
          <5> DEFINE u == req[r].user
                     D == {i \in Items : promise[u][i] > 0}
                     x == [req[r] EXCEPT !.pc = "declineReleased",
                                         !.dropped = D,
                                         !.owned = Only(DrivesIn(u)),
                                         !.target = Only(RidesIn(u))]
          <5>1. req' = [req EXCEPT ![r] = x] /\ UNCHANGED carpoolVars
            BY <4>4 DEF ReleasePromises
          <5> HIDE DEF D
          <5>2. x.pc = "declineReleased"
            BY <4>1 DEF Request
          <5> HIDE DEF x
          <5> QED
            BY <5>1, <5>2, MoveUnchecked
        <4> QED
          BY <2>2, <4>2, <4>3, <4>4
      <3> QED
        BY <3>1, UnchangedRowsShrink, ShrinkingStep
    <2>3. CASE \/ CommitReserve(r) \/ CommitAttach(r) \/ CommitCustom(r)
               \/ CommitDrop(r) \/ Notify(r)
      <3>1. Finish(r) /\ UNCHANGED carpoolVars
        BY <2>3 DEF CommitReserve, CommitAttach, CommitCustom, CommitDrop, Notify
      <3> QED
        BY <3>1, FinishUnchecked, UnchangedRowsShrink, ShrinkingStep
    <2>4. CASE CommitAccept(r)
      <3>1. FinishThenNotify(r, Response(req[r].user)) /\ UNCHANGED carpoolVars
        BY <2>4 DEF CommitAccept
      <3> QED
        BY <3>1, NotifyUnchecked, UnchangedRowsShrink, ShrinkingStep
    <2>5. CASE CommitDecline(r)
      <3>1. NoneChecked /\ RowsShrink
        BY <2>5, NotifyUnchecked, DropSeatsShrinks DEF CommitDecline
      <3> QED
        BY <3>1, ShrinkingStep
    <2>6. CASE CommitDelete(r)
      <3>1. NoneChecked /\ RowsShrink
        BY <2>6, FinishUnchecked, DropSeatsShrinks DEF CommitDelete
      <3> QED
        BY <3>1, ShrinkingStep
    <2>7. CASE CommitLeave(r)
      <3>1. NoneChecked
        BY <2>7, NotifyUnchecked DEF CommitLeave
      <3>2. RowsShrink
        BY <2>7 DEF CommitLeave, RowsShrink, Roles, DeadCarpoolsAreEmpty,
                    CarpoolTypeOK
      <3> QED
        BY <3>1, <3>2, ShrinkingStep
    <2>8. CASE CommitUpdate(r)
      <3>1. NoneChecked
        BY <2>8, FinishUnchecked DEF CommitUpdate
      <3>2. RowsShrink
        BY <2>8 DEF CommitUpdate, RowsShrink, Roles, DeadCarpoolsAreEmpty,
                    CarpoolTypeOK, Live
      <3> QED
        BY <3>1, <3>2, ShrinkingStep
    <2> QED
      BY <2>1, <2>2, <2>3, <2>4, <2>5, <2>6, <2>7, <2>8, CheckRoles, CommitRoles
      DEF Advance
  <1>3. CASE \E r \in Requests : Fail(r)
    BY <1>3, FinishUnchecked, UnchangedRowsShrink, ShrinkingStep DEF Fail
  <1>4. CASE \/ \E u \in Users : Invite(u) \/ RemoveGuest(u)
             \/ Cleanup \/ Reschedule
    <2>1. NoneChecked /\ UNCHANGED carpoolVars
      BY <1>4 DEF Invite, RemoveGuest, Cleanup, Reschedule, NoneChecked, Checked
    <2> QED
      BY <2>1, UnchangedRowsShrink, ShrinkingStep
  <1>5. CASE \E u \in Users : DeleteAccount(u)
    <2>1. PICK u \in Users : DeleteAccount(u)
      BY <1>5
    <2>2. NoneChecked /\ RowsShrink
      BY <2>1, DropSeatsShrinks DEF DeleteAccount, NoneChecked, Checked
    <2> QED
      BY <2>2, ShrinkingStep
  <1> QED
    BY <1>1, <1>2, <1>3, <1>4, <1>5 DEF Next

-----------------------------------------------------------------------------
\* CarpoolTypeOK with what the roles rest on: inductive.
RolesInv == CarpoolTypeOK /\ RolesInductive

LEMMA RolesInvSplit == RolesInv <=> CarpoolTypeOK /\ ReqTyped /\ Roles
PROOF
  BY DEF RolesInv, RolesInductive, Roles, ReqTyped, CarpoolTypeOK

LEMMA InitRolesInv ==
    ASSUME ParticipationAssumption, Init
    PROVE  RolesInv
PROOF
  <1>1. CarpoolTypeOK
    BY IdleIsARequest
    DEF Init, CarpoolTypeOK, ParticipationAssumption, Statuses, NoPromise
  <1>2. RolesInductive
    BY IdleIsARequest
    DEF Init, RolesInductive, RequestsAddressed, DeadCarpoolsAreEmpty,
        NoRoleOnceChecked, OneCheckPerUser, OneRolePerUser, Checked,
        ParticipationAssumption
  <1> QED
    BY <1>1, <1>2 DEF RolesInv

LEMMA StepRolesInv ==
    ASSUME ParticipationAssumption, RolesInv, [Next]_vars
    PROVE  RolesInv'
PROOF
  <1>1. CarpoolTypeOK /\ ReqTyped /\ Roles
    BY RolesInvSplit
  <1>2. CASE Next
    <2>1. CarpoolTypeOK' /\ ReqTyped' /\ Roles'
      BY <1>1, <1>2, NextTypes, NextRoles DEF Roles
    <2> QED
      BY <2>1
      DEF RolesInv, RolesInductive, Roles, ReqTyped, CarpoolTypeOK
  <1>3. CASE UNCHANGED vars
    BY <1>3
    DEF vars, memberVars, carpoolVars, itemVars, RolesInv, CarpoolTypeOK,
        RolesInductive, RequestsAddressed, DeadCarpoolsAreEmpty,
        NoRoleOnceChecked, OneCheckPerUser, OneRolePerUser, Checked
  <1> QED
    BY <1>2, <1>3

\* Every state is well typed: seats and promises never negative, every
\* notification addressed to an account of the event.
THEOREM CarpoolTypes == Spec => []CarpoolTypeOK
PROOF
  <1>1. Init => RolesInv
    BY InitRolesInv, ParticipationAssumption
  <1>2. RolesInv /\ [Next]_vars => RolesInv'
    BY StepRolesInv, ParticipationAssumption
  <1>3. RolesInv => CarpoolTypeOK
    BY DEF RolesInv
  <1> QED
    BY <1>1, <1>2, <1>3, PTL DEF Spec

\* The strengthening holds in every state.
THEOREM RolesAreInductive == Spec => []RolesInductive
PROOF
  <1>1. Init => RolesInv
    BY InitRolesInv, ParticipationAssumption
  <1>2. RolesInv /\ [Next]_vars => RolesInv'
    BY StepRolesInv, ParticipationAssumption
  <1>3. RolesInv => RolesInductive
    BY DEF RolesInv
  <1> QED
    BY <1>1, <1>2, <1>3, PTL DEF Spec

\* create_carpool and join_carpool never give a user two roles in an event,
\* whatever the number of concurrent requests, also of the same user.
THEOREM OneRole == Spec => []OneRolePerUser
PROOF
  <1>1. RolesInductive => OneRolePerUser
    BY DEF RolesInductive
  <1> QED
    BY <1>1, RolesAreInductive, PTL
-----------------------------------------------------------------------------
(* Seats, when each client waits for its last answer.  Everything below is *)
(* about that environment: seat_race shows what may happen in another.     *)

\* A user has one request under way.
OnePerUser ==
    \A r, q \in Requests : req[r].user = req[q].user /\ req[r].user # None => r = q

\* A driver asks for a number of seats that the validation lets through.
Sized ==
    \A r \in Requests :
        req[r].pc \in {"create", "createChecked", "update"} => req[r].amount \in 1..MaxSeats

\* Between its check of membership and its COMMIT a request is of a user who
\* has not declined: only the user's own request could have.
NoneDeclined ==
    \A r \in Requests :
        req[r].pc \in {"create", "createChecked", "join", "joinChecked", "reserve"} =>
            req[r].user = Owner \/ invitation[req[r].user] # "Declined"

Gone(c) == c \in minted /\ driver[c] = None

\* What a decline has read is still so when it commits: the own carpool, whose
\* row it holds; the carpool the user rides in, unless it was deleted meanwhile;
\* the reservations, or fewer.
Leaving(r) ==
    LET u == req[r].user IN
    /\ DrivesIn(u) = {req[r].owned} \ {None}
    /\ RidesIn(u) \subseteq {req[r].target}
    /\ req[r].target \in CarpoolIds \cup {None}
    /\ req[r].target # None => u \in passengers[req[r].target] \/ Gone(req[r].target)
    /\ req[r].owned = None \/ req[r].target = None
    /\ \A i \in Items : promise[u][i] > 0 => i \in req[r].dropped

DeclinesHold == \A r \in Requests : req[r].pc = "declineReleased" => Leaving(r)

Single == OnePerUser /\ Sized /\ NoneDeclined /\ DeclinesHold

SeatsInv == RolesInv /\ Single /\ SeatsCoverPassengers /\ DeclinedHoldsNothing

-----------------------------------------------------------------------------
(* Who is left alone by a step.                                            *)

\* User v gets no carpool, seat or reservation.
NoGain(v) ==
    /\ \A c \in CarpoolIds : driver'[c] = v => driver[c] = v
    /\ \A c \in CarpoolIds : v \in passengers'[c] => v \in passengers[c]
    /\ \A i \in Items : promise'[v][i] > 0 => promise[v][i] > 0

\* And loses none, except with a carpool that is deleted.
Spared(v) ==
    /\ NoGain(v)
    /\ \A c \in CarpoolIds : driver[c] = v => driver'[c] = v
    /\ \A c \in CarpoolIds : v \in passengers[c] => v \in passengers'[c] \/ Gone(c)'
    /\ \A c \in CarpoolIds : Gone(c) => Gone(c)'

\* A request goes on untouched, or has nothing left but its notices.
Rests(q) ==
    \/ req'[q] = req[q]
    \/ req'[q].pc \in {"idle", "notify"}

LEMMA SingleFollows ==
    ASSUME Single, NEW q \in Requests, req'[q] = req[q],
           req[q].pc = "declineReleased", Spared(req[q].user)
    PROVE  Leaving(q)'
PROOF
  <1>1. Leaving(q)
    BY DEF Single, DeclinesHold
  <1>. QED
    <2> DEFINE u == req[q].user
               t == req[q].target
    <2>1. DrivesIn(u)' = DrivesIn(u) /\ RidesIn(u)' \subseteq RidesIn(u)
      BY DEF Spared, NoGain, DrivesIn, RidesIn
    <2>2. t \in CarpoolIds => (u \in passengers[t] \/ Gone(t) => u \in passengers'[t] \/ Gone(t)')
      BY DEF Spared
    <2>. QED
      BY <1>1, <2>1, <2>2 DEF Leaving, Spared, NoGain

\* A step in which every request rests, and no user declines who has a request
\* that goes on.
LEMMA RestingStep ==
    ASSUME Single, RolesInv,
           \A q \in Requests : Rests(q) /\ req'[q].user \in {req[q].user, None},
           \A q \in Requests : req'[q] = req[q] /\ req[q].pc = "declineReleased"
                => Spared(req[q].user),
           \A q \in Requests : req'[q] = req[q] /\ req[q].pc # "idle"
                /\ invitation'[req[q].user] = "Declined"
                => invitation[req[q].user] = "Declined"
    PROVE  Single'
PROOF
  <1>1. OnePerUser'
    BY DEF Single, OnePerUser
  <1>2. Sized'
    <2> SUFFICES ASSUME NEW q \in Requests,
                        req'[q].pc \in {"create", "createChecked", "update"}
                 PROVE  req'[q].amount \in 1..MaxSeats
      BY DEF Sized
    <2>1. req'[q] = req[q]
      BY DEF Rests
    <2>. QED
      BY <2>1 DEF Single, Sized
  <1>3. NoneDeclined'
    <2> SUFFICES ASSUME NEW q \in Requests,
                        req'[q].pc \in {"create", "createChecked", "join",
                                        "joinChecked", "reserve"}
                 PROVE  req'[q].user = Owner \/ invitation'[req'[q].user] # "Declined"
      BY DEF NoneDeclined
    <2>1. req'[q] = req[q]
      BY DEF Rests
    <2>. QED
      BY <2>1 DEF Single, NoneDeclined
  <1>4. DeclinesHold'
    <2> SUFFICES ASSUME NEW q \in Requests, req'[q].pc = "declineReleased"
                 PROVE  Leaving(q)'
      BY DEF DeclinesHold
    <2>1. req'[q] = req[q]
      BY DEF Rests
    <2>. QED
      BY <2>1, SingleFollows
  <1>. QED
    BY <1>1, <1>2, <1>3, <1>4 DEF Single

\* Guests who have declined get nothing.
LEMMA DeclinedStep ==
    ASSUME DeclinedHoldsNothing, RolesInv',
           \A u \in Users \ {Owner} : invitation'[u] = "Declined"
                => invitation[u] = "Declined" /\ NoGain(u)
    PROVE  DeclinedHoldsNothing'
PROOF
  <1> SUFFICES ASSUME NEW u \in Users \ {Owner}, invitation'[u] = "Declined"
               PROVE  /\ \A c \in CarpoolIds : driver'[c] # u /\ u \notin passengers'[c]
                      /\ \A i \in Items : promise'[u][i] = 0
    BY DEF DeclinedHoldsNothing, DrivesIn, RidesIn
  <1>1. \A i \in Items : promise'[u][i] \in Nat
    BY DEF RolesInv, CarpoolTypeOK
  <1>2. /\ \A c \in CarpoolIds : driver[c] # u /\ u \notin passengers[c]
        /\ \A i \in Items : promise[u][i] = 0
    BY DEF DeclinedHoldsNothing, DrivesIn, RidesIn
  <1>. QED
    BY <1>1, <1>2 DEF NoGain

\* Requests of others than the user of r.
LEMMA OthersDiffer ==
    ASSUME Single, RolesInv, NEW r \in Requests, NEW q \in Requests, q # r,
           req[q].pc # "idle"
    PROVE  req[q].user # req[r].user /\ req[q].user \in Users
PROOF
  BY ParticipationAssumption
  DEF Single, OnePerUser, RolesInv, RolesInductive, RequestsAddressed,
      ParticipationAssumption

\* A request that ends.
LEMMA EndRests ==
    ASSUME RolesInv, NEW r \in Requests, NEW notice,
           Finish(r) \/ FinishThenNotify(r, notice)
    PROVE  /\ \A q \in Requests : Rests(q) /\ req'[q].user \in {req[q].user, None}
           /\ \A q \in Requests \ {r} : req'[q] = req[q]
           /\ req'[r].pc \in {"idle", "notify"}
PROOF
  <1>1. PICK x : /\ req' = [req EXCEPT ![r] = x]
                 /\ x.pc \in {"idle", "notify"}
                 /\ x.user \in {None, req[r].user}
    BY DEF Finish, FinishThenNotify, Notifying, Idle
  <1>2. \A q \in Requests : req'[q] = IF q = r THEN x ELSE req[q]
    BY <1>1 DEF RolesInv, CarpoolTypeOK
  <1>. QED
    BY <1>1, <1>2 DEF Rests

\* The database stays as it is.
LEMMA NothingGained ==
    UNCHANGED <<carpoolVars, itemVars>> => \A v : Spared(v)
PROOF
  BY DEF carpoolVars, itemVars, Spared, NoGain, Gone

LEMMA SeatsUnchanged ==
    SeatsCoverPassengers /\ UNCHANGED carpoolVars => SeatsCoverPassengers'
PROOF
  BY DEF carpoolVars, SeatsCoverPassengers

\* Requests begin.
LEMMA BeginSingle ==
    ASSUME OneRequestPerUser, SeatsInv, RolesInv', NEW r \in Requests, Begin(r)
    PROVE  Single' /\ DeclinedHoldsNothing'
PROOF
  <1> USE DEF SeatsInv
  <1>1. PICK u \in Users,
             pc \in {"create", "join", "leave", "accept", "decline", "reserve",
                     "custom", "drop", "update", "delete", "attach"} :
          \E target, amount :
            /\ Admit(r, u, pc, target, amount)
            /\ pc \in {"create", "update"} => amount \in 1..MaxSeats
            /\ pc \in {"create", "join", "reserve"} => Member(u)
            /\ UNCHANGED invitation \/ ExpireOverdue
            /\ pc \in {"create", "join", "reserve"} => UNCHANGED invitation
    <2>1. \A c \in CarpoolIds : driver[c] # None => driver[c] \in Users
      BY DEF RolesInv, CarpoolTypeOK
    <2>. QED
      BY <2>1, ParticipationAssumption
      DEF Begin, StartCreate, StartJoin, StartLeave, StartRespond,
          StartReserve, StartCustom, StartDrop, StartUpdate, StartDelete,
          StartAttach, Start, Live, memberVars, ParticipationAssumption
  <1>2. PICK target, amount :
            /\ Admit(r, u, pc, target, amount)
            /\ pc \in {"create", "update"} => amount \in 1..MaxSeats
    BY <1>1
  <1>3. PICK x : x = Beginning(u, pc, target, amount)
    OBVIOUS
  <1>4. /\ req' = [req EXCEPT ![r] = x]
        /\ UNCHANGED <<carpoolVars, itemVars>>
        /\ \A q \in Requests : req[q].user # u
    BY <1>2, <1>3 DEF Admit
  <1>5. x.pc = pc /\ x.user = u /\ x.amount = amount
    BY <1>3 DEF Beginning, Idle
  <1>6. \A q \in Requests : req'[q] = IF q = r THEN x ELSE req[q]
    BY <1>4 DEF RolesInv, CarpoolTypeOK
  <1>7. \A v \in Users : invitation'[v] = "Declined" => invitation[v] = "Declined"
    BY <1>1 DEF ExpireOverdue
  <1>8. OnePerUser'
    BY <1>4, <1>5, <1>6 DEF Single, OnePerUser
  <1>9. Sized'
    BY <1>2, <1>5, <1>6 DEF Single, Sized
  <1>10. NoneDeclined'
    <2> SUFFICES ASSUME NEW q \in Requests,
                        req'[q].pc \in {"create", "createChecked", "join",
                                        "joinChecked", "reserve"}
                 PROVE  req'[q].user = Owner \/ invitation'[req'[q].user] # "Declined"
      BY DEF NoneDeclined
    <2>1. CASE q = r
      BY <1>1, <1>5, <1>6, <2>1 DEF Member
    <2>2. CASE q # r
      <3>1. req'[q] = req[q]
        BY <1>6, <2>2
      <3>2. req[q].user \in Users
        BY <3>1 DEF RolesInv, RolesInductive, RequestsAddressed
      <3>. QED
        BY <1>7, <3>1, <3>2 DEF Single, NoneDeclined
    <2>. QED
      BY <2>1, <2>2
  <1>11. DeclinesHold'
    <2> SUFFICES ASSUME NEW q \in Requests, req'[q].pc = "declineReleased"
                 PROVE  Leaving(q)'
      BY DEF DeclinesHold
    <2>1. req'[q] = req[q]
      BY <1>5, <1>6
    <2>. QED
      BY <1>4, <2>1, NothingGained, SingleFollows
  <1>12. DeclinedHoldsNothing'
    BY <1>4, <1>7, NothingGained, DeclinedStep DEF Spared
  <1>. QED
    BY <1>8, <1>9, <1>10, <1>11, <1>12 DEF Single

\* A request reads, checks or takes locks.
LEMMA ReadSingle ==
    ASSUME SeatsInv, RolesInv', NEW r \in Requests,
           \/ CheckCreate(r) \/ CheckJoin(r) \/ ListPassengers(r)
           \/ ListPromises(r) \/ ReleasePromises(r)
    PROVE  Single' /\ DeclinedHoldsNothing'
PROOF
  <1> USE DEF SeatsInv
  <1>1. req[r] \in Request
    BY DEF RolesInv, CarpoolTypeOK
  <1>2. PICK x : /\ req' = [req EXCEPT ![r] = x]
                 /\ x.user = req[r].user /\ x.amount = req[r].amount
                 /\ \/ /\ x.pc = "createChecked" /\ req[r].pc = "create"
                    \/ /\ x.pc = "joinChecked" /\ req[r].pc = "join"
                    \/ x.pc \in {"deleteListed", "declineListed"}
                    \/ /\ ReleasePromises(r)
                       /\ x.dropped = {i \in Items : promise[req[r].user][i] > 0}
                       /\ x.owned = Only(DrivesIn(req[r].user))
                       /\ x.target = Only(RidesIn(req[r].user))
                       /\ x.pc = "declineReleased"
    <2>1. CASE CheckCreate(r)
      <3>1. PICK x : x = [req[r] EXCEPT !.pc = "createChecked"]
        OBVIOUS
      <3>2. x.pc = "createChecked" /\ x.user = req[r].user /\ x.amount = req[r].amount
        BY <1>1, <3>1 DEF Request
      <3>3. req' = [req EXCEPT ![r] = x]
        BY <2>1, <3>1 DEF CheckCreate
      <3>. QED
        BY <2>1, <3>2, <3>3 DEF CheckCreate
    <2>2. CASE CheckJoin(r)
      <3>1. PICK x : x = [req[r] EXCEPT !.pc = "joinChecked"]
        OBVIOUS
      <3>2. x.pc = "joinChecked" /\ x.user = req[r].user /\ x.amount = req[r].amount
        BY <1>1, <3>1 DEF Request
      <3>3. req' = [req EXCEPT ![r] = x]
        BY <2>2, <3>1 DEF CheckJoin
      <3>. QED
        BY <2>2, <3>2, <3>3 DEF CheckJoin
    <2>3. CASE ListPassengers(r)
      <3>1. PICK x : x = [req[r] EXCEPT !.pc = "deleteListed", !.riders = passengers[req[r].target]]
        OBVIOUS
      <3>2. x.pc = "deleteListed" /\ x.user = req[r].user /\ x.amount = req[r].amount
        BY <1>1, <3>1 DEF Request
      <3>3. req' = [req EXCEPT ![r] = x]
        BY <2>3, <3>1 DEF ListPassengers
      <3>. QED
        BY <2>3, <3>2, <3>3 DEF ListPassengers
    <2>4. CASE ListPromises(r)
      <3>1. PICK x : x = [req[r] EXCEPT !.pc = "declineListed", !.promised = promise[req[r].user]]
        OBVIOUS
      <3>2. x.pc = "declineListed" /\ x.user = req[r].user /\ x.amount = req[r].amount
        BY <1>1, <3>1 DEF Request
      <3>3. req' = [req EXCEPT ![r] = x]
        BY <2>4, <3>1 DEF ListPromises
      <3>. QED
        BY <2>4, <3>2, <3>3 DEF ListPromises
    <2>5. CASE ReleasePromises(r)
      <3>1. PICK D : D = {i \in Items : promise[req[r].user][i] > 0}
        OBVIOUS
      <3>2. req' = [req EXCEPT ![r] = [req[r] EXCEPT !.pc = "declineReleased",
                        !.dropped = D,
                        !.owned = Only(DrivesIn(req[r].user)),
                        !.target = Only(RidesIn(req[r].user))]]
        BY <2>5, <3>1 DEF ReleasePromises
      <3>3. PICK x : x = [req[r] EXCEPT !.pc = "declineReleased",
                        !.dropped = D,
                        !.owned = Only(DrivesIn(req[r].user)),
                        !.target = Only(RidesIn(req[r].user))]
        OBVIOUS
      <3>4. /\ x.user = req[r].user /\ x.amount = req[r].amount
            /\ x.dropped = D /\ x.pc = "declineReleased"
            /\ x.owned = Only(DrivesIn(req[r].user))
            /\ x.target = Only(RidesIn(req[r].user))
        BY <1>1, <3>3 DEF Request
      <3>. QED
        BY <2>5, <3>1, <3>2, <3>3, <3>4
    <2>. QED
      BY <2>1, <2>2, <2>3, <2>4, <2>5
  <1>3. \A q \in Requests : req'[q] = IF q = r THEN x ELSE req[q]
    BY <1>2 DEF RolesInv, CarpoolTypeOK
  <1>4. UNCHANGED <<memberVars, carpoolVars, itemVars>>
    BY DEF CheckCreate, CheckJoin, ListPassengers, ListPromises, ReleasePromises
  <1>5. OnePerUser'
    BY <1>2, <1>3 DEF Single, OnePerUser
  <1>6. Sized'
    BY <1>2, <1>3 DEF Single, Sized
  <1>7. NoneDeclined'
    BY <1>2, <1>3, <1>4 DEF Single, NoneDeclined, memberVars
  <1>8. DeclinesHold'
    <2> SUFFICES ASSUME NEW q \in Requests, req'[q].pc = "declineReleased"
                 PROVE  Leaving(q)'
      BY DEF DeclinesHold
    <2>1. CASE q # r
      <3>1. req'[q] = req[q]
        BY <1>3, <2>1
      <3>. QED
        BY <1>4, <3>1, NothingGained, SingleFollows
    <2>2. CASE q = r
      <3> DEFINE u == req[r].user
      <3>1. /\ req'[q].user = u /\ req'[q].owned = Only(DrivesIn(u))
            /\ req'[q].target = Only(RidesIn(u))
            /\ req'[q].dropped = {i \in Items : promise[u][i] > 0}
            /\ req[r].pc = "declineListed"
        BY <1>2, <1>3, <2>2 DEF ReleasePromises
      <3>2. u \in Users
        BY <3>1 DEF RolesInv, RolesInductive, RequestsAddressed
      <3>3. /\ \A c, d \in DrivesIn(u) : c = d
            /\ \A c, d \in RidesIn(u) : c = d
            /\ DrivesIn(u) = {} \/ RidesIn(u) = {}
        BY <3>2 DEF RolesInv, RolesInductive, OneRolePerUser, DrivesIn, RidesIn
      <3>4. None \notin CarpoolIds
        BY ParticipationAssumption DEF ParticipationAssumption
      <3>5. /\ DrivesIn(u) = {Only(DrivesIn(u))} \ {None}
            /\ RidesIn(u) = {Only(RidesIn(u))} \ {None}
        BY <3>3, <3>4 DEF Only, DrivesIn, RidesIn
      <3>6. UNCHANGED <<driver, passengers, promise, minted>>
        BY <1>4 DEF carpoolVars, itemVars
      <3>7. /\ DrivesIn(u)' = DrivesIn(u)
            /\ RidesIn(u)' = RidesIn(u)
        BY <1>3, <1>2, <3>6 DEF DrivesIn, RidesIn
      <3>. HIDE DEF u
      <3>8. /\ Only(RidesIn(u)) \in CarpoolIds \cup {None}
            /\ Only(RidesIn(u)) # None => u \in passengers[Only(RidesIn(u))]
            /\ Only(DrivesIn(u)) = None \/ Only(RidesIn(u)) = None
        BY <3>3, <3>5 DEF Only, RidesIn, DrivesIn
      <3>. QED
        BY <2>2, <3>1, <3>5, <3>6, <3>8 DEF Leaving, DrivesIn, RidesIn
    <2>. QED
      BY <2>1, <2>2
  <1>9. DeclinedHoldsNothing'
    BY <1>4, NothingGained, DeclinedStep DEF Spared, memberVars
  <1>. QED
    BY <1>5, <1>6, <1>7, <1>8, <1>9 DEF Single

-----------------------------------------------------------------------------
(* COMMITs, and requests that end.                                         *)

LEMMA CommitSingle ==
    ASSUME SeatsInv, NEW r \in Requests, NEW notice,
           Finish(r) \/ FinishThenNotify(r, notice),
           req[r].pc \notin {"idle", "notify"},
           \A q \in Requests \ {r} : req[q].pc = "declineReleased" => Spared(req[q].user),
           \A v \in Users \ {req[r].user} :
                invitation'[v] = "Declined" => invitation[v] = "Declined"
    PROVE  Single'
PROOF
  <1> USE DEF SeatsInv
  <1>1. /\ \A q \in Requests : Rests(q) /\ req'[q].user \in {req[q].user, None}
        /\ req'[r].pc \in {"idle", "notify"}
    BY EndRests
  <1>2. \A q \in Requests : req'[q] = req[q] => q # r
    BY <1>1
  <1>3. \A q \in Requests : req'[q] = req[q] /\ req[q].pc # "idle"
            => req[q].user \in Users \ {req[r].user}
    BY <1>2, OthersDiffer
  <1>. QED
    BY <1>1, <1>2, <1>3, RestingStep

\* Carpools are deleted, and others than v leave the carpools of others.
LEMMA DropSpares ==
    ASSUME RolesInv, NEW C, NEW u, NEW from, NEW freed, DropSeats(C, u, from, freed),
           NEW v \in Users, v # u,
           \A c \in CarpoolIds : c \in C => driver[c] # v,
           \A i \in Items : promise'[v][i] > 0 => promise[v][i] > 0
    PROVE  Spared(v)
PROOF
  <1>1. None \notin Users
    BY ParticipationAssumption DEF ParticipationAssumption
  <1>2. /\ minted' = minted
        /\ \A c \in CarpoolIds : driver'[c] = IF c \in C THEN None ELSE driver[c]
        /\ \A c \in CarpoolIds : passengers'[c] =
                IF c \in C THEN {} ELSE IF c \in from THEN passengers[c] \ {u}
                                        ELSE passengers[c]
    BY DEF DropSeats
  <1>3. \A c \in CarpoolIds : v \in passengers[c] => c \in minted
    BY DEF RolesInv, RolesInductive, DeadCarpoolsAreEmpty
  <1>4. NoGain(v)
    BY <1>1, <1>2 DEF NoGain
  <1>. QED
    BY <1>2, <1>3, <1>4 DEF Spared, Gone

LEMMA DropGivesNothing ==
    ASSUME NEW C, NEW u, NEW from, NEW freed, DropSeats(C, u, from, freed),
           NEW v \in Users,
           \A i \in Items : promise'[v][i] > 0 => promise[v][i] > 0
    PROVE  NoGain(v)
PROOF
  BY ParticipationAssumption DEF ParticipationAssumption, DropSeats, NoGain

\* A COMMIT of a request of a user who has not declined.
LEMMA MemberCommits ==
    ASSUME SeatsInv, RolesInv', NEW r \in Requests,
           Finish(r), UNCHANGED invitation,
           req[r].pc \in {"createChecked", "joinChecked", "reserve"},
           \A v \in Users \ {req[r].user} : Spared(v)
    PROVE  Single' /\ DeclinedHoldsNothing'
PROOF
  <1> USE DEF SeatsInv
  <1>1. Single'
    BY OthersDiffer, CommitSingle
  <1>2. req[r].user = Owner \/ invitation[req[r].user] # "Declined"
    BY DEF Single, NoneDeclined
  <1>3. DeclinedHoldsNothing'
    BY <1>2, DeclinedStep DEF Spared
  <1>. QED
    BY <1>1, <1>3

LEMMA CreateSingle ==
    ASSUME SeatsInv, RolesInv', NEW r \in Requests, CommitCreate(r)
    PROVE  Single' /\ DeclinedHoldsNothing'
PROOF
  <1>1. PICK c \in CarpoolIds \ minted :
            /\ minted' = minted \cup {c}
            /\ driver' = [driver EXCEPT ![c] = req[r].user]
    BY DEF CommitCreate
  <1>2. Finish(r) /\ UNCHANGED <<memberVars, itemVars, passengers>>
    BY DEF CommitCreate
  <1>3. \A d \in CarpoolIds : driver'[d] = IF d = c THEN req[r].user ELSE driver[d]
    BY <1>1 DEF SeatsInv, RolesInv, CarpoolTypeOK
  <1>4. driver[c] = None
    BY DEF SeatsInv, RolesInv, RolesInductive, DeadCarpoolsAreEmpty
  <1>5. \A v \in Users \ {req[r].user} : Spared(v)
    BY <1>1, <1>2, <1>3, <1>4, ParticipationAssumption
    DEF Spared, NoGain, Gone, itemVars, ParticipationAssumption
  <1>. QED
    BY <1>2, <1>5, MemberCommits DEF CommitCreate, memberVars

LEMMA JoinSingle ==
    ASSUME SeatsInv, RolesInv', NEW r \in Requests, CommitJoin(r)
    PROVE  Single' /\ DeclinedHoldsNothing'
PROOF
  <1>1. /\ passengers' = [passengers EXCEPT ![req[r].target] = @ \cup {req[r].user}]
        /\ Finish(r) /\ UNCHANGED <<memberVars, itemVars, minted, driver>>
    BY DEF CommitJoin
  <1>2. \A c \in CarpoolIds :
            passengers'[c] \in {passengers[c], passengers[c] \cup {req[r].user}}
    BY <1>1 DEF SeatsInv, RolesInv, CarpoolTypeOK
  <1>3. \A v \in Users \ {req[r].user} : Spared(v)
    BY <1>1, <1>2 DEF Spared, NoGain, Gone, itemVars
  <1>. QED
    BY <1>1, <1>3, MemberCommits DEF CommitJoin, memberVars

LEMMA ReserveSingle ==
    ASSUME SeatsInv, RolesInv', NEW r \in Requests, CommitReserve(r)
    PROVE  Single' /\ DeclinedHoldsNothing'
PROOF
  <1>1. /\ promise' = [promise EXCEPT ![req[r].user][req[r].target] = req[r].amount]
        /\ Finish(r) /\ UNCHANGED <<memberVars, carpoolVars>>
    BY DEF CommitReserve
  <1>2. \A v \in Users \ {req[r].user} : promise'[v] = promise[v]
    BY <1>1 DEF SeatsInv, RolesInv, CarpoolTypeOK
  <1>3. \A v \in Users \ {req[r].user} : Spared(v)
    BY <1>1, <1>2 DEF Spared, NoGain, Gone, carpoolVars
  <1>. QED
    BY <1>1, <1>3, MemberCommits DEF CommitReserve, memberVars

\* A COMMIT that gives nobody anything.
LEMMA PlainCommits ==
    ASSUME SeatsInv, RolesInv', NEW r \in Requests, NEW notice,
           Finish(r) \/ FinishThenNotify(r, notice),
           req[r].pc \notin {"idle", "notify"},
           \A v \in Users : invitation'[v] = "Declined" => invitation[v] = "Declined",
           \A v \in Users : NoGain(v),
           \A q \in Requests \ {r} : req[q].pc = "declineReleased" => Spared(req[q].user)
    PROVE  Single' /\ DeclinedHoldsNothing'
PROOF
  BY CommitSingle, DeclinedStep DEF SeatsInv

LEMMA LeaveSingle ==
    ASSUME SeatsInv, RolesInv', NEW r \in Requests, CommitLeave(r)
    PROVE  Single' /\ DeclinedHoldsNothing'
PROOF
  <1>1. /\ passengers' = [passengers EXCEPT ![req[r].target] = @ \ {req[r].user}]
        /\ \E notice : FinishThenNotify(r, notice)
        /\ UNCHANGED <<memberVars, itemVars, minted, driver>>
        /\ req[r].pc = "leave"
    BY DEF CommitLeave
  <1>2. \A c \in CarpoolIds :
            passengers'[c] \in {passengers[c], passengers[c] \ {req[r].user}}
    BY <1>1 DEF SeatsInv, RolesInv, CarpoolTypeOK
  <1>3. \A v \in Users : NoGain(v)
    BY <1>1, <1>2 DEF NoGain, itemVars
  <1>4. \A v \in Users \ {req[r].user} : Spared(v)
    BY <1>1, <1>2, <1>3 DEF Spared, Gone
  <1>5. \A q \in Requests \ {r} : req[q].pc = "declineReleased" => Spared(req[q].user)
    BY <1>4, OthersDiffer DEF SeatsInv
  <1>. QED
    BY <1>1, <1>3, <1>5, PlainCommits DEF memberVars

LEMMA UpdateSingle ==
    ASSUME SeatsInv, RolesInv', NEW r \in Requests, CommitUpdate(r)
    PROVE  Single' /\ DeclinedHoldsNothing'
PROOF
  <1>1. /\ UNCHANGED <<memberVars, itemVars, minted, driver, passengers>>
        /\ Finish(r) /\ req[r].pc = "update"
    BY DEF CommitUpdate
  <1>2. \A v : NoGain(v) /\ Spared(v)
    BY <1>1 DEF NoGain, Spared, Gone, itemVars
  <1>. QED
    BY <1>1, <1>2, PlainCommits DEF memberVars

\* The deleted carpool is not that of a driver who is declining: its row is held.
LEMMA DeleteSingle ==
    ASSUME SeatsInv, RolesInv', NEW r \in Requests, CommitDelete(r)
    PROVE  Single' /\ DeclinedHoldsNothing'
PROOF
  <1> DEFINE t == req[r].target
  <1>1. /\ DropSeats({t}, None, {}, {}) /\ Finish(r) /\ req[r].pc = "deleteListed"
        /\ UNCHANGED <<memberVars, itemVars>>
        /\ \A q \in Requests \ {r} : req[q].pc = "declineReleased" => req[q].owned # t
    BY DEF CommitDelete, CarpoolFree
  <1>2. \A v \in Users : NoGain(v)
    BY <1>1, DropGivesNothing DEF itemVars
  <1>3. ASSUME NEW q \in Requests \ {r}, req[q].pc = "declineReleased"
        PROVE  Spared(req[q].user)
    <2>1. req[q].user \in Users /\ req[q].user # None
      BY <1>3, ParticipationAssumption
      DEF SeatsInv, RolesInv, RolesInductive, RequestsAddressed, ParticipationAssumption
    <2>2. DrivesIn(req[q].user) = {req[q].owned} \ {None}
      BY <1>3 DEF SeatsInv, Single, DeclinesHold, Leaving
    <2>3. \A c \in CarpoolIds : c \in {t} => driver[c] # req[q].user
      BY <1>1, <1>3, <2>2 DEF DrivesIn
    <2>. QED
      BY <1>1, <2>1, <2>3, DropSpares DEF SeatsInv, itemVars
  <1>. QED
    BY <1>1, <1>2, <1>3, PlainCommits DEF memberVars

LEMMA ItemSingle ==
    ASSUME SeatsInv, RolesInv', NEW r \in Requests,
           CommitAttach(r) \/ CommitCustom(r) \/ CommitDrop(r)
    PROVE  Single' /\ DeclinedHoldsNothing'
PROOF
  <1>1. /\ Finish(r) /\ req[r].pc \in {"attach", "custom", "drop"}
        /\ UNCHANGED <<memberVars, carpoolVars>>
    BY DEF CommitAttach, CommitCustom, CommitDrop
  <1>2. \A v \in Users, i \in Items : promise'[v][i] > 0 => promise[v][i] > 0
    BY DEF CommitAttach, CommitCustom, CommitDrop, DropItems
  <1>3. \A v \in Users : NoGain(v) /\ Spared(v)
    BY <1>1, <1>2 DEF NoGain, Spared, Gone, carpoolVars
  <1>4. \A q \in Requests \ {r} : req[q].pc = "declineReleased" => Spared(req[q].user)
    BY <1>3, OthersDiffer DEF SeatsInv
  <1>. QED
    BY <1>1, <1>3, <1>4, PlainCommits DEF memberVars

LEMMA AcceptSingle ==
    ASSUME SeatsInv, RolesInv', NEW r \in Requests, CommitAccept(r)
    PROVE  Single' /\ DeclinedHoldsNothing'
PROOF
  <1>1. /\ \E notice : FinishThenNotify(r, notice)
        /\ req[r].pc = "accept"
        /\ invitation' = [invitation EXCEPT ![req[r].user] = "Accepted"]
        /\ UNCHANGED <<carpoolVars, itemVars>>
    BY DEF CommitAccept
  <1>2. \A v \in Users : invitation'[v] = "Declined" => invitation[v] = "Declined"
    BY <1>1 DEF SeatsInv, RolesInv, CarpoolTypeOK
  <1>. QED
    BY <1>1, <1>2, NothingGained, PlainCommits DEF Spared

\* A decline takes all that its user holds.
LEMMA DeclineSingle ==
    ASSUME SeatsInv, RolesInv', NEW r \in Requests, CommitDecline(r)
    PROVE  Single' /\ DeclinedHoldsNothing'
PROOF
  <1> DEFINE u == req[r].user
  <1>1. /\ req[r].pc = "declineReleased"
        /\ invitation' = [invitation EXCEPT ![u] = "Declined"]
        /\ promise' = [promise EXCEPT ![u] =
                [i \in Items |-> IF i \in req[r].dropped THEN 0 ELSE promise[u][i]]]
        /\ DropSeats({req[r].owned}, u, {req[r].target}, {req[r].target})
        /\ \E notice : FinishThenNotify(r, notice)
    BY DEF CommitDecline
  <1>2. u \in Users /\ None \notin Users
    BY <1>1, ParticipationAssumption
    DEF SeatsInv, RolesInv, RolesInductive, RequestsAddressed, ParticipationAssumption
  <1>3. Leaving(r)
    BY <1>1 DEF SeatsInv, Single, DeclinesHold
  <1>4. \A c \in CarpoolIds : c \in {req[r].owned} => driver[c] = u
    BY <1>3, ParticipationAssumption DEF Leaving, DrivesIn, ParticipationAssumption
  <1>5. \A v \in Users \ {u} : promise'[v] = promise[v]
    BY <1>1 DEF SeatsInv, RolesInv, CarpoolTypeOK
  <1>6. \A v \in Users \ {u} : Spared(v)
    BY <1>1, <1>4, <1>5, DropSpares DEF SeatsInv
  <1>7. \A v \in Users \ {u} : invitation'[v] = invitation[v]
    BY <1>1 DEF SeatsInv, RolesInv, CarpoolTypeOK
  <1>8. Single'
    <2>1. \A q \in Requests \ {r} : req[q].pc = "declineReleased" => Spared(req[q].user)
      BY <1>6, OthersDiffer DEF SeatsInv
    <2>. QED
      BY <1>1, <1>7, <2>1, CommitSingle
  <1>9. /\ \A c \in CarpoolIds : driver'[c] # u /\ u \notin passengers'[c]
        /\ \A i \in Items : promise'[u][i] = 0
    <2>1. \A i \in Items : promise'[u][i] = IF i \in req[r].dropped THEN 0 ELSE promise[u][i]
      BY <1>1, <1>2 DEF SeatsInv, RolesInv, CarpoolTypeOK
    <2>2. \A i \in Items : promise[u][i] \in Nat
      BY <1>2 DEF SeatsInv, RolesInv, CarpoolTypeOK
    <2>3. \A i \in Items : promise'[u][i] = 0
      BY <1>3, <2>1, <2>2 DEF Leaving
    <2>4. \A c \in CarpoolIds : driver'[c] # u
      BY <1>1, <1>2, <1>3 DEF Leaving, DrivesIn, DropSeats
    <2>5. \A c \in CarpoolIds : u \notin passengers'[c]
      BY <1>1, <1>3 DEF Leaving, RidesIn, DropSeats
    <2>. QED
      BY <2>3, <2>4, <2>5
  <1>10. DeclinedHoldsNothing'
    <2> SUFFICES ASSUME NEW v \in Users \ {Owner}, invitation'[v] = "Declined"
                 PROVE  /\ \A c \in CarpoolIds : driver'[c] # v /\ v \notin passengers'[c]
                        /\ \A i \in Items : promise'[v][i] = 0
      BY DEF DeclinedHoldsNothing, DrivesIn, RidesIn
    <2>1. CASE v = u
      BY <1>9, <2>1
    <2>2. CASE v # u
      <3>1. invitation[v] = "Declined" /\ NoGain(v)
        BY <1>6, <1>7, <2>2 DEF Spared
      <3>2. /\ \A c \in CarpoolIds : driver[c] # v /\ v \notin passengers[c]
            /\ \A i \in Items : promise[v][i] = 0
        BY <3>1 DEF SeatsInv, DeclinedHoldsNothing, DrivesIn, RidesIn
      <3>3. \A i \in Items : promise'[v][i] = 0
        BY <1>5, <2>2, <3>2
      <3>. QED
        BY <3>1, <3>2, <3>3 DEF NoGain
    <2>. QED
      BY <2>1, <2>2
  <1>. QED
    BY <1>8, <1>10

\* Steps of no request, and requests that end without a COMMIT.
LEMMA OtherSingle ==
    ASSUME SeatsInv, RolesInv',
           \/ \E r \in Requests : Fail(r) \/ Notify(r)
           \/ \E u \in Users : Invite(u) \/ RemoveGuest(u) \/ DeleteAccount(u)
           \/ Cleanup
           \/ Reschedule
    PROVE  Single' /\ DeclinedHoldsNothing'
PROOF
  <1> USE DEF SeatsInv
  <1>1. ASSUME NEW r \in Requests, Fail(r) \/ Notify(r)
        PROVE  Single' /\ DeclinedHoldsNothing'
    <2>1. Finish(r) /\ UNCHANGED <<memberVars, carpoolVars, itemVars>>
      BY <1>1 DEF Fail, Notify
    <2>2. \A v : Spared(v)
      BY <2>1, NothingGained
    <2>3. Single'
      BY <2>1, <2>2, EndRests, RestingStep DEF memberVars
    <2>. QED
      BY <2>1, <2>2, <2>3, DeclinedStep DEF Spared, memberVars
  <1>2. ASSUME UNCHANGED <<carpoolVars, itemVars, req>>,
               \A v \in Users : invitation'[v] = "Declined" => invitation[v] = "Declined"
        PROVE  Single' /\ DeclinedHoldsNothing'
    <2>1. \A q \in Requests : Rests(q) /\ req'[q].user = req[q].user
      BY <1>2 DEF Rests
    <2>2. \A q \in Requests : req[q].pc # "idle" => req[q].user \in Users
      BY DEF RolesInv, RolesInductive, RequestsAddressed
    <2>3. \A v : Spared(v)
      BY <1>2, NothingGained
    <2>. QED
      BY <1>2, <2>1, <2>2, <2>3, RestingStep, DeclinedStep DEF Spared
  <1>3. ASSUME NEW u \in Users, Invite(u) \/ RemoveGuest(u)
        PROVE  Single' /\ DeclinedHoldsNothing'
    <2>1. \A v \in Users : invitation'[v] = "Declined" => invitation[v] = "Declined"
      BY <1>3 DEF Invite, RemoveGuest, RolesInv, CarpoolTypeOK
    <2>. QED
      BY <1>2, <1>3, <2>1 DEF Invite, RemoveGuest
  <1>4. CASE Cleanup \/ Reschedule
    <2>1. \A v \in Users : invitation'[v] = "Declined" => invitation[v] = "Declined"
      BY <1>4 DEF Cleanup, ExpireOverdue, Reschedule
    <2>. QED
      BY <1>2, <1>4, <2>1 DEF Cleanup, Reschedule
  <1>5. ASSUME NEW u \in Users, DeleteAccount(u)
        PROVE  Single' /\ DeclinedHoldsNothing'
    <2>1. /\ DropSeats(DrivesIn(u), u, CarpoolIds, {})
          /\ invitation' = [invitation EXCEPT ![u] = "None"]
          /\ UNCHANGED req
          /\ InvitationFree(None, u)
      BY <1>5 DEF DeleteAccount
    <2>2. \A v \in Users, i \in Items : promise'[v][i] > 0 => promise[v][i] > 0
      BY <1>5 DEF DeleteAccount
    <2>3. \A v \in Users : NoGain(v)
      BY <2>1, <2>2, DropGivesNothing
    <2>4. \A v \in Users : invitation'[v] = "Declined" => invitation[v] = "Declined"
      BY <2>1 DEF RolesInv, CarpoolTypeOK
    <2>5. ASSUME NEW q \in Requests, req[q].pc = "declineReleased"
          PROVE  Spared(req[q].user)
      <3>1. req[q].user # u
        BY <2>1, <2>5, ParticipationAssumption
        DEF InvitationFree, ParticipationAssumption
      <3>2. req[q].user \in Users
        BY <2>5 DEF RolesInv, RolesInductive, RequestsAddressed
      <3>3. \A c \in CarpoolIds : c \in DrivesIn(u) => driver[c] # req[q].user
        BY <3>1 DEF DrivesIn
      <3>. QED
        BY <2>1, <2>2, <3>1, <3>2, <3>3, DropSpares
    <2>6. \A q \in Requests : Rests(q) /\ req'[q].user = req[q].user
      BY <2>1 DEF Rests
    <2>7. \A q \in Requests : req[q].pc # "idle" => req[q].user \in Users
      BY DEF RolesInv, RolesInductive, RequestsAddressed
    <2>. QED
      BY <2>3, <2>4, <2>5, <2>6, <2>7, RestingStep, DeclinedStep
  <1>. QED
    BY <1>1, <1>3, <1>4, <1>5

-----------------------------------------------------------------------------
(* Seats.                                                                  *)

LEMMA RidersAreFinite ==
    ASSUME RolesInv, NEW c \in CarpoolIds
    PROVE  /\ IsFiniteSet(passengers[c])
           /\ Cardinality(passengers[c]) \in Nat
           /\ seatsTaken[c] \in Nat /\ seatsTotal[c] \in Nat
PROOF
  <1>1. IsFiniteSet(Users) /\ passengers[c] \in SUBSET Users
    BY ParticipationAssumption DEF ParticipationAssumption, RolesInv, CarpoolTypeOK
  <1>2. IsFiniteSet(passengers[c])
    BY <1>1, FS_Subset
  <1>. QED
    BY <1>2, FS_CardinalityType DEF RolesInv, CarpoolTypeOK

\* One rider less and one seat less, in the carpools in freed.
LEMMA DropCovers ==
    ASSUME RolesInv, SeatsCoverPassengers,
           NEW C, NEW u, NEW from, NEW freed, DropSeats(C, u, from, freed),
           \A c \in CarpoolIds : c \in freed =>
                c \in from /\ (u \in passengers[c] \/ Gone(c))
    PROVE  SeatsCoverPassengers'
PROOF
  <1> SUFFICES ASSUME NEW c \in CarpoolIds
               PROVE  /\ Cardinality(passengers'[c]) <= seatsTaken'[c]
                      /\ seatsTaken'[c] <= seatsTotal'[c]
    BY DEF SeatsCoverPassengers
  <1>1. /\ Cardinality(passengers[c]) <= seatsTaken[c]
        /\ seatsTaken[c] <= seatsTotal[c]
        /\ seatsTaken[c] \in Nat /\ seatsTotal[c] \in Nat
        /\ IsFiniteSet(passengers[c])
        /\ Cardinality(passengers[c]) \in Nat
    BY RidersAreFinite DEF SeatsCoverPassengers
  <1>2. CASE c \in C
    <2>1. passengers'[c] = {} /\ seatsTaken'[c] = 0 /\ seatsTotal'[c] = 0
      BY <1>2 DEF DropSeats
    <2>. QED
      BY <2>1, FS_EmptySet
  <1>3. CASE c \notin C
    <2>1. /\ passengers'[c] = IF c \in from THEN passengers[c] \ {u} ELSE passengers[c]
          /\ seatsTaken'[c] = IF c \in freed THEN OneSeatLess(seatsTaken[c]) ELSE seatsTaken[c]
          /\ seatsTotal'[c] = seatsTotal[c]
      BY <1>3 DEF DropSeats
    <2>2. /\ Cardinality(passengers[c] \ {u}) \in Nat
          /\ Cardinality(passengers[c] \ {u}) =
                IF u \in passengers[c] THEN Cardinality(passengers[c]) - 1
                ELSE Cardinality(passengers[c])
      BY <1>1, FS_RemoveElement, FS_CardinalityType
    <2>3. CASE c \notin freed
      BY <1>1, <2>1, <2>2, <2>3
    <2>4. CASE c \in freed /\ u \in passengers[c]
      BY <1>1, <2>1, <2>2, <2>4 DEF OneSeatLess
    <2>5. CASE c \in freed /\ Gone(c)
      <3>1. passengers[c] = {} /\ seatsTotal[c] = 0
        BY <2>5 DEF Gone, RolesInv, RolesInductive, DeadCarpoolsAreEmpty
      <3>2. Cardinality(passengers[c]) = 0
        BY <3>1, FS_EmptySet
      <3>. QED
        BY <1>1, <2>1, <2>2, <2>5, <3>1, <3>2 DEF OneSeatLess
    <2>. QED
      BY <2>3, <2>4, <2>5
  <1>. QED
    BY <1>2, <1>3

LEMMA DeclineCovers ==
    ASSUME SeatsInv, NEW r \in Requests, CommitDecline(r)
    PROVE  SeatsCoverPassengers'
PROOF
  <1>1. Leaving(r)
    BY DEF SeatsInv, Single, DeclinesHold, CommitDecline
  <1>2. DropSeats({req[r].owned}, req[r].user, {req[r].target}, {req[r].target})
    BY DEF CommitDecline
  <1>3. \A c \in CarpoolIds : c \in {req[r].target} =>
            c \in {req[r].target} /\ (req[r].user \in passengers[c] \/ Gone(c))
    BY <1>1, ParticipationAssumption DEF Leaving, ParticipationAssumption
  <1>. QED
    BY <1>2, <1>3, DropCovers DEF SeatsInv

LEMMA CommitCovers ==
    ASSUME SeatsInv, NEW r \in Requests,
           CommitCreate(r) \/ CommitJoin(r) \/ CommitLeave(r) \/ CommitUpdate(r)
    PROVE  SeatsCoverPassengers'
PROOF
  <1> USE DEF SeatsInv
  <1> SUFFICES ASSUME NEW c \in CarpoolIds
               PROVE  /\ Cardinality(passengers'[c]) <= seatsTaken'[c]
                      /\ seatsTaken'[c] <= seatsTotal'[c]
    BY DEF SeatsCoverPassengers
  <1>1. /\ Cardinality(passengers[c]) <= seatsTaken[c]
        /\ seatsTaken[c] <= seatsTotal[c]
        /\ seatsTaken[c] \in Nat /\ seatsTotal[c] \in Nat
        /\ IsFiniteSet(passengers[c])
        /\ Cardinality(passengers[c]) \in Nat
    BY RidersAreFinite DEF SeatsCoverPassengers
  <1>2. /\ seatsTaken \in [CarpoolIds -> Nat] /\ seatsTotal \in [CarpoolIds -> Nat]
        /\ passengers \in [CarpoolIds -> SUBSET Users]
        /\ req[r].amount \in Nat
    BY DEF RolesInv, CarpoolTypeOK, Request
  <1>3. CASE CommitCreate(r)
    <2>1. PICK d \in CarpoolIds \ minted :
            /\ seatsTotal' = [seatsTotal EXCEPT ![d] = req[r].amount]
            /\ seatsTaken' = [seatsTaken EXCEPT ![d] = 0]
      BY <1>3 DEF CommitCreate
    <2>2. passengers[d] = {} /\ passengers' = passengers
      BY <1>3 DEF CommitCreate, RolesInv, RolesInductive, DeadCarpoolsAreEmpty
    <2>3. Cardinality(passengers[d]) = 0
      BY <2>2, FS_EmptySet
    <2>. QED
      BY <1>1, <1>2, <2>1, <2>2, <2>3
  <1>4. CASE CommitJoin(r)
    <2>1. /\ HasSeat(req[r].target)
          /\ seatsTaken' = [seatsTaken EXCEPT ![req[r].target] = @ + 1]
          /\ passengers' = [passengers EXCEPT ![req[r].target] = @ \cup {req[r].user}]
          /\ UNCHANGED seatsTotal
      BY <1>4 DEF CommitJoin
    <2>2. CASE c = req[r].target
      <3>1. /\ passengers'[c] = passengers[c] \cup {req[r].user}
            /\ seatsTaken'[c] = seatsTaken[c] + 1
            /\ seatsTaken[c] < seatsTotal[c] /\ seatsTotal'[c] = seatsTotal[c]
        BY <1>2, <2>1, <2>2 DEF HasSeat
      <3>2. Cardinality(passengers[c] \cup {req[r].user}) =
                IF req[r].user \in passengers[c] THEN Cardinality(passengers[c])
                ELSE Cardinality(passengers[c]) + 1
        BY <1>1, FS_AddElement
      <3>3. Cardinality(passengers'[c]) <= Cardinality(passengers[c]) + 1
        BY <1>1, <3>1, <3>2
      <3>. QED
        BY <1>1, <3>1, <3>2, <3>3
    <2>3. CASE c # req[r].target
      BY <1>1, <1>2, <2>1, <2>3
    <2>. QED
      BY <2>2, <2>3
  <1>5. CASE CommitLeave(r)
    <2>1. /\ req[r].user \in passengers[req[r].target]
          /\ seatsTaken' = [seatsTaken EXCEPT ![req[r].target] = OneSeatLess(@)]
          /\ passengers' = [passengers EXCEPT ![req[r].target] = @ \ {req[r].user}]
          /\ UNCHANGED seatsTotal
      BY <1>5 DEF CommitLeave, WasJoined
    <2>2. CASE c = req[r].target
      <3>1. /\ passengers'[c] = passengers[c] \ {req[r].user}
            /\ seatsTaken'[c] = OneSeatLess(seatsTaken[c])
            /\ seatsTotal'[c] = seatsTotal[c]
        BY <1>2, <2>1, <2>2
      <3>2. Cardinality(passengers'[c]) = Cardinality(passengers[c]) - 1
        BY <1>1, <2>1, <2>2, <3>1, FS_RemoveElement
      <3>3. Cardinality(passengers'[c]) \in Nat
        BY <1>1, <3>1, FS_RemoveElement, FS_CardinalityType
      <3>. QED
        BY <1>1, <3>1, <3>2, <3>3 DEF OneSeatLess
    <2>3. CASE c # req[r].target
      BY <1>1, <1>2, <2>1, <2>3
    <2>. QED
      BY <2>2, <2>3
  <1>6. CASE CommitUpdate(r)
    BY <1>1, <1>2, <1>6 DEF CommitUpdate
  <1>. QED
    BY <1>3, <1>4, <1>5, <1>6

LEMMA NextCovers ==
    ASSUME SeatsInv, Next
    PROVE  SeatsCoverPassengers'
PROOF
  <1> USE DEF SeatsInv
  <1>1. ASSUME NEW r \in Requests, Begin(r) \/ Fail(r)
        PROVE  SeatsCoverPassengers'
    <2>1. CASE Begin(r)
      BY <2>1, BeginUnchecked, SeatsUnchanged
      DEF ReqTyped, RolesInv, RolesInductive, CarpoolTypeOK
    <2>2. CASE Fail(r)
      BY <2>2, SeatsUnchanged DEF Fail
    <2>. QED
      BY <1>1, <2>1, <2>2
  <1>2. ASSUME NEW r \in Requests, Advance(r)
        PROVE  SeatsCoverPassengers'
    <2>1. CASE CommitDelete(r)
      BY <2>1, DropCovers DEF CommitDelete
    <2>2. CASE UNCHANGED carpoolVars
      BY <2>2, SeatsUnchanged
    <2>. QED
      BY <1>2, <2>1, <2>2, DeclineCovers, CommitCovers
      DEF Advance, CheckCreate, CheckJoin, ListPassengers, ListPromises,
          ReleasePromises, CommitAccept, CommitReserve, CommitAttach,
          CommitCustom, CommitDrop, Notify
  <1>3. ASSUME NEW u \in Users, DeleteAccount(u)
        PROVE  SeatsCoverPassengers'
    BY <1>3, DropCovers DEF DeleteAccount
  <1>4. CASE \/ \E u \in Users : Invite(u) \/ RemoveGuest(u)
             \/ Cleanup \/ Reschedule
    BY <1>4, SeatsUnchanged DEF Invite, RemoveGuest, Cleanup, Reschedule
  <1>. QED
    BY <1>1, <1>2, <1>3, <1>4 DEF Next

LEMMA SeatsInductive ==
    ASSUME OneRequestPerUser, SeatsInv, [Next]_vars
    PROVE  SeatsInv'
PROOF
  <1>1. RolesInv'
    BY StepRolesInv, ParticipationAssumption DEF SeatsInv
  <1>2. CASE UNCHANGED vars
    <2>1. /\ UNCHANGED <<memberVars, carpoolVars, itemVars, req>>
          /\ UNCHANGED invitation
      BY <1>2 DEF vars, memberVars
    <2>2. \A q \in Requests : Rests(q) /\ req'[q].user = req[q].user
      BY <2>1 DEF Rests
    <2>3. Single' /\ DeclinedHoldsNothing'
      BY <1>1, <2>1, <2>2, NothingGained, RestingStep, DeclinedStep DEF Spared, SeatsInv
    <2>. QED
      BY <1>1, <2>1, <2>3, SeatsUnchanged DEF SeatsInv
  <1>3. CASE Next
    <2>1. Single' /\ DeclinedHoldsNothing'
      BY <1>1, <1>3, BeginSingle, ReadSingle, CreateSingle, JoinSingle, LeaveSingle,
         UpdateSingle, DeleteSingle, AcceptSingle, DeclineSingle, ReserveSingle,
         ItemSingle, OtherSingle DEF Next, Advance
    <2>. QED
      BY <1>1, <1>3, <2>1, NextCovers DEF SeatsInv
  <1>. QED
    BY <1>2, <1>3

LEMMA SeatsInitially == Init => SeatsInv
PROOF
  <1> SUFFICES ASSUME Init PROVE SeatsInv
    OBVIOUS
  <1>1. RolesInv
    BY InitRolesInv, ParticipationAssumption
  <1>2. Single
    BY IdleIsARequest
    DEF Init, Single, OnePerUser, Sized, NoneDeclined, DeclinesHold, Idle
  <1>3. SeatsCoverPassengers
    BY FS_EmptySet DEF Init, SeatsCoverPassengers
  <1>4. DeclinedHoldsNothing
    BY DEF Init, DeclinedHoldsNothing
  <1>. QED
    BY <1>1, <1>2, <1>3, <1>4 DEF SeatsInv

\* When no user has two requests under way, what a decline has read holds until
\* it commits, and no user declines between a check and the COMMIT behind it.
THEOREM SeatsAreInductive == ASSUME OneRequestPerUser PROVE Spec => []SeatsInv
PROOF
  <1>1. SeatsInv /\ [Next]_vars => SeatsInv'
    BY SeatsInductive
  <1>. QED
    BY <1>1, SeatsInitially, PTL DEF Spec

\* seats_taken never counts fewer people than ride, and no carpool is overfull.
THEOREM SeatsCover == ASSUME OneRequestPerUser PROVE Spec => []SeatsCoverPassengers
PROOF
  <1>1. SeatsInv => SeatsCoverPassengers
    BY DEF SeatsInv
  <1>. QED
    BY <1>1, SeatsAreInductive, PTL

\* A guest who has declined drives nobody, rides with nobody, promises nothing.
THEOREM DeclinesRelease == ASSUME OneRequestPerUser PROVE Spec => []DeclinedHoldsNothing
PROOF
  <1>1. SeatsInv => DeclinedHoldsNothing
    BY DEF SeatsInv
  <1>. QED
    BY <1>1, SeatsAreInductive, PTL

-----------------------------------------------------------------------------
(* The board of rides.                                                     *)

\* The board counts riders as the model counts passengers.
LEMMA SameCount == \A S : Board!Cardinality(S) = Cardinality(S)
PROOF
  BY DEF Board!Cardinality, Cardinality

LEMMA BoardInitially == Init => Board!Init
PROOF
  BY DEF Init, Board!Init

\* Carpools of one user go, or the user steps off: one of the two.
LEMMA DropOnBoard ==
    ASSUME RolesInv, NEW u \in Users, NEW C, NEW from, NEW freed,
           DropSeats(C, u, from, freed),
           C \cap CarpoolIds = DrivesIn(u)
    PROVE  Board!Next \/ UNCHANGED Board!board
PROOF
  <1>1. /\ driver \in [CarpoolIds -> Users \cup {None}]
        /\ seatsTotal \in [CarpoolIds -> Nat]
        /\ passengers \in [CarpoolIds -> SUBSET Users]
    BY DEF RolesInv, CarpoolTypeOK
  <1>2. /\ \A c, d \in DrivesIn(u) : c = d
        /\ \A c, d \in RidesIn(u) : c = d
        /\ DrivesIn(u) = {} \/ RidesIn(u) = {}
    BY DEF RolesInv, RolesInductive, OneRolePerUser, DrivesIn, RidesIn
  <1>3. /\ driver' = [c \in CarpoolIds |-> IF c \in DrivesIn(u) THEN None ELSE driver[c]]
        /\ seatsTotal' = [c \in CarpoolIds |->
                              IF c \in DrivesIn(u) THEN 0 ELSE seatsTotal[c]]
        /\ passengers' = [c \in CarpoolIds |->
                IF c \in DrivesIn(u) THEN {}
                ELSE IF c \in from THEN passengers[c] \ {u} ELSE passengers[c]]
    BY DEF DropSeats
  <1>4. CASE \E c \in CarpoolIds : c \in DrivesIn(u)
    <2>1. PICK c \in CarpoolIds : c \in DrivesIn(u)
      BY <1>4
    <2>2. \A d \in CarpoolIds : (d \in DrivesIn(u) <=> d = c) /\ u \notin passengers[d]
      BY <1>2, <2>1 DEF RidesIn
    <2>3. driver[c] # None
      BY <2>1, ParticipationAssumption DEF DrivesIn, ParticipationAssumption
    <2>4. driver' = [driver EXCEPT ![c] = None]
      BY <1>1, <1>3, <2>2
    <2>5. seatsTotal' = [seatsTotal EXCEPT ![c] = 0]
      BY <1>1, <1>3, <2>2
    <2>6. passengers' = [passengers EXCEPT ![c] = {}]
      BY <1>1, <1>3, <2>2
    <2>7. Board!CallOff(c)
      BY <2>3, <2>4, <2>5, <2>6 DEF Board!CallOff
    <2>. QED
      BY <2>7 DEF Board!Next
  <1>5. CASE DrivesIn(u) = {} /\ \E c \in CarpoolIds : c \in RidesIn(u) /\ c \in from
    <2>1. PICK c \in CarpoolIds : c \in RidesIn(u) /\ c \in from
      BY <1>5
    <2>2. \A d \in CarpoolIds : u \in passengers[d] <=> d = c
      BY <1>2, <2>1 DEF RidesIn
    <2>3. driver' = driver /\ seatsTotal' = seatsTotal
      BY <1>1, <1>3, <1>5
    <2>4. passengers' = [passengers EXCEPT ![c] = @ \ {u}]
      <3>1. \A d \in CarpoolIds : d # c => passengers[d] \ {u} = passengers[d]
        BY <2>2
      <3>. QED
        BY <1>1, <1>3, <1>5, <2>1, <3>1
    <2>5. Board!StepOff(u, c)
      BY <2>2, <2>3, <2>4 DEF Board!StepOff
    <2>. QED
      BY <2>5 DEF Board!Next
  <1>6. CASE DrivesIn(u) = {} /\ ~ \E c \in CarpoolIds : c \in RidesIn(u) /\ c \in from
    <2>1. \A c \in CarpoolIds : c \in from => passengers[c] \ {u} = passengers[c]
      BY <1>6 DEF RidesIn
    <2>2. passengers' = passengers
      BY <1>1, <1>3, <1>6, <2>1
    <2>3. driver' = driver /\ seatsTotal' = seatsTotal
      BY <1>1, <1>3, <1>6
    <2>. QED
      BY <2>2, <2>3 DEF Board!board
  <1>. QED
    BY <1>4, <1>5, <1>6 DEF DrivesIn

LEMMA CreateOnBoard ==
    ASSUME SeatsInv, NEW r \in Requests, CommitCreate(r)
    PROVE  Board!Next
PROOF
  <1> DEFINE u == req[r].user
             n == req[r].amount
  <1>1. PICK c \in CarpoolIds \ minted :
            /\ driver' = [driver EXCEPT ![c] = u]
            /\ seatsTotal' = [seatsTotal EXCEPT ![c] = n]
    BY DEF CommitCreate
  <1>2. passengers' = passengers /\ req[r].pc = "createChecked"
    BY DEF CommitCreate
  <1>3. Board!HasNoPlace(u)
    BY <1>2
    DEF Board!HasNoPlace, SeatsInv, RolesInv, RolesInductive, NoRoleOnceChecked, Checked
  <1>4. u \in Users /\ n \in 1..MaxSeats /\ driver[c] = None
    BY <1>2
    DEF SeatsInv, Single, Sized, RolesInv, RolesInductive, RequestsAddressed,
        DeadCarpoolsAreEmpty
  <1>5. Board!Offer(u, c, n)
    BY <1>1, <1>2, <1>3, <1>4 DEF Board!Offer
  <1>. QED
    BY <1>4, <1>5 DEF Board!Next

LEMMA JoinOnBoard ==
    ASSUME SeatsInv, NEW r \in Requests, CommitJoin(r)
    PROVE  Board!Next
PROOF
  <1> DEFINE u == req[r].user
             c == req[r].target
  <1>1. /\ req[r].pc = "joinChecked" /\ HasSeat(c)
        /\ passengers' = [passengers EXCEPT ![c] = @ \cup {u}]
        /\ UNCHANGED <<driver, seatsTotal>>
    BY DEF CommitJoin
  <1>2. u \in Users /\ c \in CarpoolIds
    BY <1>1 DEF SeatsInv, RolesInv, RolesInductive, RequestsAddressed
  <1>3. Board!HasNoPlace(u)
    BY <1>1
    DEF Board!HasNoPlace, SeatsInv, RolesInv, RolesInductive, NoRoleOnceChecked, Checked
  <1>4. /\ Cardinality(passengers[c]) <= seatsTaken[c]
        /\ Cardinality(passengers[c]) \in Nat
        /\ seatsTaken[c] \in Nat /\ seatsTotal[c] \in Nat
    BY <1>2, RidersAreFinite DEF SeatsInv, SeatsCoverPassengers
  <1>5. Cardinality(passengers[c]) < seatsTotal[c]
    BY <1>1, <1>4 DEF HasSeat
  <1>6. driver[c] # None
    BY <1>2, <1>4, <1>5 DEF SeatsInv, RolesInv, RolesInductive, DeadCarpoolsAreEmpty
  <1>7. Board!Ride(u, c)
    BY <1>1, <1>3, <1>5, <1>6, SameCount DEF Board!Ride
  <1>. QED
    BY <1>2, <1>7 DEF Board!Next

LEMMA LeaveOnBoard ==
    ASSUME SeatsInv, NEW r \in Requests, CommitLeave(r)
    PROVE  Board!Next
PROOF
  <1> DEFINE u == req[r].user
             c == req[r].target
  <1>1. /\ req[r].pc = "leave" /\ u \in passengers[c]
        /\ passengers' = [passengers EXCEPT ![c] = @ \ {u}]
        /\ UNCHANGED <<driver, seatsTotal>>
    BY DEF CommitLeave, WasJoined
  <1>2. u \in Users /\ c \in CarpoolIds
    BY <1>1 DEF SeatsInv, RolesInv, RolesInductive, RequestsAddressed
  <1>3. Board!StepOff(u, c)
    BY <1>1 DEF Board!StepOff
  <1>. QED
    BY <1>2, <1>3 DEF Board!Next

LEMMA UpdateOnBoard ==
    ASSUME SeatsInv, NEW r \in Requests, CommitUpdate(r)
    PROVE  Board!Next
PROOF
  <1> DEFINE c == req[r].target
             n == req[r].amount
  <1>1. /\ req[r].pc = "update" /\ driver[c] # None /\ n >= seatsTaken[c]
        /\ seatsTotal' = [seatsTotal EXCEPT ![c] = n]
        /\ UNCHANGED <<driver, passengers>>
    BY DEF CommitUpdate, Live
  <1>2. c \in CarpoolIds /\ n \in 1..MaxSeats
    BY <1>1 DEF SeatsInv, Single, Sized, RolesInv, RolesInductive, RequestsAddressed
  <1>3. /\ Cardinality(passengers[c]) <= seatsTaken[c]
        /\ Cardinality(passengers[c]) \in Nat /\ seatsTaken[c] \in Nat
    BY <1>2, RidersAreFinite DEF SeatsInv, SeatsCoverPassengers
  <1>4. Cardinality(passengers[c]) <= n
    BY <1>1, <1>2, <1>3
  <1>5. Board!Resize(c, n)
    BY <1>1, <1>4, SameCount DEF Board!Resize
  <1>. QED
    BY <1>2, <1>5 DEF Board!Next

\* A carpool that is gone by now is not called off a second time.
LEMMA DeleteOnBoard ==
    ASSUME SeatsInv, NEW r \in Requests, CommitDelete(r)
    PROVE  Board!Next \/ UNCHANGED Board!board
PROOF
  <1> DEFINE c == req[r].target
  <1>1. req[r].pc = "deleteListed" /\ DropSeats({c}, None, {}, {})
    BY DEF CommitDelete
  <1>2. c \in CarpoolIds
    BY <1>1 DEF SeatsInv, RolesInv, RolesInductive, RequestsAddressed
  <1>3. /\ driver \in [CarpoolIds -> Users \cup {None}]
        /\ seatsTotal \in [CarpoolIds -> Nat]
        /\ passengers \in [CarpoolIds -> SUBSET Users]
    BY DEF SeatsInv, RolesInv, CarpoolTypeOK
  <1>4. /\ driver' = [driver EXCEPT ![c] = None]
        /\ seatsTotal' = [seatsTotal EXCEPT ![c] = 0]
        /\ passengers' = [passengers EXCEPT ![c] = {}]
    BY <1>1, <1>3 DEF DropSeats
  <1>5. CASE driver[c] # None
    <2>1. Board!CallOff(c)
      BY <1>4, <1>5 DEF Board!CallOff
    <2>. QED
      BY <1>2, <2>1 DEF Board!Next
  <1>6. CASE driver[c] = None
    <2>1. passengers[c] = {} /\ seatsTotal[c] = 0
      BY <1>2, <1>6 DEF SeatsInv, RolesInv, RolesInductive, DeadCarpoolsAreEmpty
    <2>. QED
      BY <1>2, <1>3, <1>4, <1>6, <2>1 DEF Board!board
  <1>. QED
    BY <1>5, <1>6

LEMMA DeclineOnBoard ==
    ASSUME SeatsInv, NEW r \in Requests, CommitDecline(r)
    PROVE  Board!Next \/ UNCHANGED Board!board
PROOF
  <1> DEFINE u == req[r].user
  <1>1. /\ req[r].pc = "declineReleased"
        /\ DropSeats({req[r].owned}, u, {req[r].target}, {req[r].target})
    BY DEF CommitDecline
  <1>2. u \in Users
    BY <1>1 DEF SeatsInv, RolesInv, RolesInductive, RequestsAddressed
  <1>3. {req[r].owned} \cap CarpoolIds = DrivesIn(u)
    <2>1. DrivesIn(u) = {req[r].owned} \ {None} /\ DrivesIn(u) \subseteq CarpoolIds
      BY <1>1 DEF SeatsInv, Single, DeclinesHold, Leaving, DrivesIn
    <2>. QED
      BY <2>1, ParticipationAssumption DEF ParticipationAssumption
  <1>. QED
    BY <1>1, <1>2, <1>3, DropOnBoard DEF SeatsInv

LEMMA StepOnBoard ==
    ASSUME SeatsInv, [Next]_vars
    PROVE  Board!Next \/ UNCHANGED Board!board
PROOF
  <1>1. CASE UNCHANGED carpoolVars
    BY <1>1 DEF carpoolVars, Board!board
  <1>2. ASSUME NEW r \in Requests, Begin(r)
        PROVE  UNCHANGED carpoolVars
    BY <1>2, BeginUnchecked
    DEF SeatsInv, ReqTyped, RolesInv, RolesInductive, CarpoolTypeOK
  <1>3. ASSUME NEW r \in Requests, Advance(r)
        PROVE  Board!Next \/ UNCHANGED Board!board
    BY <1>1, <1>3, CreateOnBoard, JoinOnBoard, LeaveOnBoard, UpdateOnBoard,
       DeleteOnBoard, DeclineOnBoard
    DEF Advance, CheckCreate, CheckJoin, ListPassengers, ListPromises,
        ReleasePromises, CommitAccept, CommitReserve, CommitAttach,
        CommitCustom, CommitDrop, Notify
  <1>4. ASSUME NEW u \in Users, DeleteAccount(u)
        PROVE  Board!Next \/ UNCHANGED Board!board
    <2>1. DropSeats(DrivesIn(u), u, CarpoolIds, {})
      BY <1>4 DEF DeleteAccount
    <2>2. DrivesIn(u) \cap CarpoolIds = DrivesIn(u)
      BY DEF DrivesIn
    <2>. QED
      BY <2>1, <2>2, DropOnBoard DEF SeatsInv
  <1>. QED
    BY <1>1, <1>2, <1>3, <1>4
    DEF Next, Fail, Invite, RemoveGuest, Cleanup, Reschedule, vars

\* With one request per user, each COMMIT is one move on the board of rides, and
\* all else that requests do is none.
THEOREM BoardKept == ASSUME OneRequestPerUser PROVE Spec => ImplementsBoard
PROOF
  <1>1. SeatsInv /\ [Next]_vars => [Board!Next]_(Board!board)
    BY StepOnBoard
  <1>. QED
    BY <1>1, BoardInitially, SeatsAreInductive, PTL DEF Spec, ImplementsBoard, Board!Spec
-----------------------------------------------------------------------------
(* Totals.  A total is a sum over all users, which the library computes by *)
(* recursion over a set: what a sum is comes first.  Induction is that a   *)
(* non-empty family of subsets of a finite set has a minimal member.       *)

\* What MapThenFoldSet takes from a set first.
Pick(S) == CHOOSE x \in S : TRUE

\* The sum over a set, and the function on its subsets that defines it.
Sum(f, S) == MapThenSumSet(LAMBDA x : f[x], S)

Adds(g, f, S) ==
    g = [s \in SUBSET S |-> IF s = {} THEN 0 ELSE f[Pick(s)] + g[s \ {Pick(s)}]]

LEMMA PickIsThere == \A S : S # {} => Pick(S) \in S
  BY DEF Pick

\* Induction over a finite set: what fails for some subset fails for one that is
\* minimal.
LEMMA MinimalSubset ==
    ASSUME NEW S, IsFiniteSet(S), NEW F \in SUBSET (SUBSET S), F # {}
    PROVE  \E A \in F : \A B \in F : B \subseteq A => B = A
<1>1. IsWellFoundedOn(StrictSubsetOrdering(S), SUBSET S)
  BY FS_StrictSubsetOrderingWellFounded, FS_FiniteSubsetsOfFinite
<1>2. PICK A \in F : \A B \in F : <<B, A>> \notin StrictSubsetOrdering(S)
  BY <1>1, WFMin
<1>3. QED
  BY <1>2 DEF StrictSubsetOrdering

LEMMA AddsApart ==
    ASSUME NEW g, NEW f, NEW S, Adds(g, f, S)
    PROVE  \A s \in SUBSET S :
              g[s] = IF s = {} THEN 0 ELSE f[Pick(s)] + g[s \ {Pick(s)}]
  BY DEF Adds

LEMMA AddsTheSame ==
    ASSUME NEW S, IsFiniteSet(S), NEW f, NEW A \in SUBSET S, NEW B \in SUBSET S,
           NEW g, NEW h, Adds(g, f, A), Adds(h, f, B)
    PROVE  \A C \in SUBSET (A \cap B) : g[C] = h[C]
<1> DEFINE F == {C \in SUBSET (A \cap B) : g[C] # h[C]}
<1>1. SUFFICES ASSUME F # {} PROVE FALSE
  OBVIOUS
<1>2. PICK C \in F : \A D \in F : D \subseteq C => D = C
  <2>1. F \in SUBSET (SUBSET S)
    OBVIOUS
  <2> HIDE DEF F
  <2>2. QED
    BY <1>1, <2>1, MinimalSubset
<1>3. C # {}
  BY AddsApart
<1>4. Pick(C) \in C /\ C \ {Pick(C)} \in SUBSET (A \cap B)
  BY <1>3, PickIsThere
<1>5. g[C \ {Pick(C)}] = h[C \ {Pick(C)}]
  BY <1>2, <1>4
<1>6. g[C] = f[Pick(C)] + g[C \ {Pick(C)}] /\ h[C] = f[Pick(C)] + h[C \ {Pick(C)}]
  BY <1>3, AddsApart
<1>7. QED
  BY <1>5, <1>6

LEMMA SumsExist ==
    ASSUME NEW S, IsFiniteSet(S), NEW f
    PROVE  \E g : Adds(g, f, S)
<1> DEFINE F == {A \in SUBSET S : ~ \E g : Adds(g, f, A)}
<1>1. SUFFICES ASSUME F # {} PROVE FALSE
  OBVIOUS
<1>2. PICK A \in F : \A B \in F : B \subseteq A => B = A
  <2>1. F \in SUBSET (SUBSET S)
    OBVIOUS
  <2> HIDE DEF F
  <2>2. QED
    BY <1>1, <2>1, MinimalSubset
<1> DEFINE below(B) == CHOOSE g : Adds(g, f, B)
           at(B) == below(B)[B]
           top == [s \in SUBSET A |-> IF s = {} THEN 0
                                      ELSE f[Pick(s)] + at(s \ {Pick(s)})]
<1>3. \A B \in SUBSET A : B # A => Adds(below(B), f, B)
  <2>1. SUFFICES ASSUME NEW B \in SUBSET A, B # A PROVE Adds(below(B), f, B)
    OBVIOUS
  <2>2. \E g : Adds(g, f, B)
    BY <1>2, <2>1
  <2>3. QED
    BY <2>2
<1>4. ASSUME NEW t \in SUBSET A, t # A
      PROVE  at(t) = IF t = {} THEN 0 ELSE f[Pick(t)] + at(t \ {Pick(t)})
  <2> HIDE DEF below
  <2>1. Adds(below(t), f, t)
    BY <1>3, <1>4
  <2>2. at(t) = IF t = {} THEN 0 ELSE f[Pick(t)] + below(t)[t \ {Pick(t)}]
    BY <2>1, AddsApart
  <2>3. CASE t # {}
    <3> DEFINE u == t \ {Pick(t)}
    <3>1. u \in SUBSET A /\ u # A /\ u \subseteq t
      BY <1>4, <2>3, PickIsThere
    <3>2. Adds(below(u), f, u)
      BY <1>3, <3>1
    <3>3. below(t)[u] = below(u)[u]
      BY <2>1, <3>1, <3>2, AddsTheSame
    <3>4. QED
      BY <2>2, <2>3, <3>3
  <2>4. QED
    BY <2>2, <2>3
<1>5. Adds(top, f, A)
  <2> HIDE DEF below, at
  <2>1. ASSUME NEW s \in SUBSET A, s # {}
        PROVE  at(s \ {Pick(s)}) = top[s \ {Pick(s)}]
    <3> DEFINE t == s \ {Pick(s)}
    <3>1. t \in SUBSET A /\ t # A
      BY <2>1, PickIsThere
    <3>2. at(t) = IF t = {} THEN 0 ELSE f[Pick(t)] + at(t \ {Pick(t)})
      BY <1>4, <3>1
    <3>3. top[t] = IF t = {} THEN 0 ELSE f[Pick(t)] + at(t \ {Pick(t)})
      BY <3>1
    <3>4. QED
      BY <3>2, <3>3
  <2>2. top = [s \in SUBSET A |-> IF s = {} THEN 0 ELSE f[Pick(s)] + top[s \ {Pick(s)}]]
    BY <2>1
  <2>3. QED
    BY <2>2 DEF Adds
<1>6. QED
  BY <1>2, <1>5

LEMMA SumIsAdded ==
    ASSUME NEW S, IsFiniteSet(S), NEW f
    PROVE  \E g : Adds(g, f, S) /\ Sum(f, S) = g[S]
<1> DEFINE g == CHOOSE g : Adds(g, f, S)
<1>1. Adds(g, f, S)
  BY SumsExist
<1>2. Sum(f, S) = g[S]
  BY DEF Sum, MapThenSumSet, MapThenFoldSet, Adds, Pick
<1>3. QED
  BY <1>1, <1>2

LEMMA SumEmpty == \A f : Sum(f, {}) = 0
<1>1. SUFFICES ASSUME NEW f PROVE Sum(f, {}) = 0
  OBVIOUS
<1>2. PICK g : Adds(g, f, {}) /\ Sum(f, {}) = g[{}]
  BY SumIsAdded, FS_EmptySet
<1>3. QED
  BY <1>2, AddsApart

LEMMA SumPicks ==
    ASSUME NEW S, IsFiniteSet(S), S # {}, NEW f
    PROVE  Sum(f, S) = f[Pick(S)] + Sum(f, S \ {Pick(S)})
<1> DEFINE T == S \ {Pick(S)}
<1>1. IsFiniteSet(T)
  BY FS_RemoveElement
<1>2. PICK g : Adds(g, f, S) /\ Sum(f, S) = g[S]
  BY SumIsAdded
<1>3. PICK h : Adds(h, f, T) /\ Sum(f, T) = h[T]
  BY <1>1, SumIsAdded
<1>4. g[T] = h[T]
  <2>1. S \in SUBSET S /\ T \in SUBSET S /\ T \in SUBSET (S \cap T)
    OBVIOUS
  <2> HIDE DEF T
  <2>2. QED
    BY <1>2, <1>3, <2>1, AddsTheSame
<1>5. QED
  BY <1>2, <1>3, <1>4, AddsApart

\* A sum of integers is an integer, and of naturals a natural.
LEMMA SumTyped ==
    ASSUME NEW S, IsFiniteSet(S), NEW f, \A x \in S : f[x] \in Int
    PROVE  /\ Sum(f, S) \in Int
           /\ (\A x \in S : f[x] >= 0) => Sum(f, S) >= 0
<1> DEFINE Good(A) == /\ Sum(f, A) \in Int
                      /\ (\A x \in A : f[x] >= 0) => Sum(f, A) >= 0
           F == {A \in SUBSET S : ~Good(A)}
<1>1. SUFFICES ASSUME F # {} PROVE FALSE
  OBVIOUS
<1>2. PICK A \in F : \A B \in F : B \subseteq A => B = A
  <2>1. F \in SUBSET (SUBSET S)
    OBVIOUS
  <2> HIDE DEF F
  <2>2. QED
    BY <1>1, <2>1, MinimalSubset
<1>3. A # {}
  BY SumEmpty
<1> DEFINE x == Pick(A)
<1>4. x \in A /\ A \ {x} \in SUBSET S /\ A \ {x} # A
  BY <1>3, PickIsThere
<1>5. Good(A \ {x})
  BY <1>2, <1>4
<1>6. Sum(f, A) = f[x] + Sum(f, A \ {x})
  BY <1>3, SumPicks, FS_Subset
<1>7. Good(A)
  <2> HIDE DEF x
  <2>1. QED
    BY <1>4, <1>5, <1>6
<1>8. QED
  BY <1>2, <1>7

\* Whichever element is taken out.
LEMMA SumTakesOut ==
    ASSUME NEW S, IsFiniteSet(S), NEW f, \A y \in S : f[y] \in Int
    PROVE  \A x \in S : Sum(f, S) = f[x] + Sum(f, S \ {x})
<1> DEFINE Good(A) == \A x \in A : Sum(f, A) = f[x] + Sum(f, A \ {x})
           F == {A \in SUBSET S : ~Good(A)}
<1>1. SUFFICES ASSUME F # {} PROVE FALSE
  OBVIOUS
<1>2. PICK A \in F : \A B \in F : B \subseteq A => B = A
  <2>1. F \in SUBSET (SUBSET S)
    OBVIOUS
  <2> HIDE DEF F
  <2>2. QED
    BY <1>1, <2>1, MinimalSubset
<1>3. PICK x \in A : Sum(f, A) # f[x] + Sum(f, A \ {x})
  OBVIOUS
<1> DEFINE p == Pick(A)
           C == A \ {p, x}
<1>4. p \in A /\ A \in SUBSET S
  BY <1>3, PickIsThere
<1>5. Sum(f, A) = f[p] + Sum(f, A \ {p})
  BY <1>3, <1>4, SumPicks, FS_Subset
<1>6. p # x
  BY <1>3, <1>5
<1> HIDE DEF p
<1>7. Sum(f, A \ {p}) = f[x] + Sum(f, C)
  <2>1. Good(A \ {p})
    BY <1>2, <1>4
  <2>2. x \in A \ {p} /\ (A \ {p}) \ {x} = C
    BY <1>6
  <2>3. QED
    BY <2>1, <2>2
<1>8. Sum(f, A \ {x}) = f[p] + Sum(f, C)
  <2>1. Good(A \ {x})
    BY <1>2, <1>4
  <2>2. p \in A \ {x} /\ (A \ {x}) \ {p} = C
    BY <1>4, <1>6
  <2>3. QED
    BY <2>1, <2>2
<1>9. /\ f[p] \in Int /\ f[x] \in Int
      /\ Sum(f, C) \in Int
  BY <1>4, SumTyped, FS_Subset
<1>10. QED
  BY <1>3, <1>5, <1>7, <1>8, <1>9

\* Sums over the same summands are the same.
LEMMA SumsAgree ==
    ASSUME NEW S, IsFiniteSet(S), NEW f, NEW g, \A x \in S : f[x] = g[x]
    PROVE  Sum(f, S) = Sum(g, S)
<1> DEFINE F == {A \in SUBSET S : Sum(f, A) # Sum(g, A)}
<1>1. SUFFICES ASSUME F # {} PROVE FALSE
  OBVIOUS
<1>2. PICK A \in F : \A B \in F : B \subseteq A => B = A
  <2>1. F \in SUBSET (SUBSET S)
    OBVIOUS
  <2> HIDE DEF F
  <2>2. QED
    BY <1>1, <2>1, MinimalSubset
<1>3. A # {}
  BY SumEmpty
<1> DEFINE p == Pick(A)
<1>4. p \in A /\ A \in SUBSET S /\ IsFiniteSet(A)
  BY <1>3, PickIsThere, FS_Subset
<1>5. Sum(f, A) = f[p] + Sum(f, A \ {p}) /\ Sum(g, A) = g[p] + Sum(g, A \ {p})
  BY <1>3, <1>4, SumPicks
<1>6. Sum(f, A \ {p}) = Sum(g, A \ {p})
  BY <1>2, <1>4
<1>7. QED
  BY <1>4, <1>5, <1>6

LEMMA SumOfZeros ==
    ASSUME NEW S, IsFiniteSet(S), NEW f, \A x \in S : f[x] = 0
    PROVE  Sum(f, S) = 0
<1> DEFINE F == {A \in SUBSET S : Sum(f, A) # 0}
<1>1. SUFFICES ASSUME F # {} PROVE FALSE
  OBVIOUS
<1>2. PICK A \in F : \A B \in F : B \subseteq A => B = A
  <2>1. F \in SUBSET (SUBSET S)
    OBVIOUS
  <2> HIDE DEF F
  <2>2. QED
    BY <1>1, <2>1, MinimalSubset
<1>3. A # {}
  BY SumEmpty
<1> DEFINE p == Pick(A)
<1>4. p \in A /\ A \in SUBSET S /\ IsFiniteSet(A)
  BY <1>3, PickIsThere, FS_Subset
<1>5. Sum(f, A) = f[p] + Sum(f, A \ {p})
  BY <1>3, <1>4, SumPicks
<1>6. Sum(f, A \ {p}) = 0
  BY <1>2, <1>4
<1>7. QED
  BY <1>4, <1>5, <1>6


-----------------------------------------------------------------------------
(* What the users promise of an item.                                      *)

\* SUM(user_items.quantity), of any table of promises.
Total(p, S, i) == MapThenSumSet(LAMBDA v : p[v][i], S)

LEMMA TotalIsSum ==
    ASSUME NEW p, NEW S, IsFiniteSet(S), NEW i
    PROVE  Total(p, S, i) = Sum([v \in S |-> p[v][i]], S)
PROOF
  <1> DEFINE f == [v \in S |-> p[v][i]]
             Is(g) == g = [s \in SUBSET S |->
                             IF s = {} THEN 0 ELSE p[Pick(s)][i] + g[s \ {Pick(s)}]]
             g == CHOOSE g : Is(g)
  <1>1. ASSUME NEW h PROVE Is(h) <=> Adds(h, f, S)
    <2>1. \A s \in SUBSET S : s # {} => f[Pick(s)] = p[Pick(s)][i]
      BY PickIsThere
    <2> HIDE DEF f
    <2>2. QED
      BY <2>1 DEF Adds
  <1>2. Is(g)
    <2>1. \E h : Is(h)
      BY <1>1, SumsExist
    <2> HIDE DEF Is
    <2>2. QED
      BY <2>1
  <1>3. Total(p, S, i) = g[S]
    BY DEF Total, MapThenSumSet, MapThenFoldSet, Pick
  <1> HIDE DEF g, Is, f
  <1>4. PICK h : Adds(h, f, S) /\ Sum(f, S) = h[S]
    BY SumIsAdded
  <1>5. g[S] = h[S]
    BY <1>1, <1>2, <1>4, AddsTheSame
  <1> QED
    BY <1>3, <1>4, <1>5 DEF f

LEMMA TotalTyped ==
    ASSUME NEW p, NEW i, NEW S, IsFiniteSet(S), \A v \in S : p[v][i] \in Nat
    PROVE  Total(p, S, i) \in Nat
PROOF
  <1> DEFINE f == [v \in S |-> p[v][i]]
  <1>1. \A v \in S : f[v] \in Int /\ f[v] >= 0
    OBVIOUS
  <1> HIDE DEF f
  <1>2. Sum(f, S) \in Nat
    BY <1>1, SumTyped
  <1> QED
    BY <1>2, TotalIsSum DEF f

LEMMA TotalTakesOut ==
    ASSUME NEW p, NEW i, NEW S, IsFiniteSet(S), \A v \in S : p[v][i] \in Nat,
           NEW u \in S
    PROVE  Total(p, S, i) = p[u][i] + Total(p, S \ {u}, i)
PROOF
  <1> DEFINE f == [v \in S |-> p[v][i]]
             T == S \ {u}
             h == [v \in T |-> p[v][i]]
  <1>1. /\ \A v \in S : f[v] \in Int
        /\ f[u] = p[u][i]
        /\ \A v \in T : f[v] = h[v]
        /\ IsFiniteSet(T)
    BY FS_RemoveElement
  <1>2. Total(p, S, i) = Sum(f, S)
    BY TotalIsSum
  <1>3. Total(p, T, i) = Sum(h, T)
    <2> HIDE DEF T
    <2> QED
      BY <1>1, TotalIsSum
  <1> HIDE DEF f, h
  <1>4. Sum(f, S) = f[u] + Sum(f, T)
    BY <1>1, SumTakesOut
  <1>5. Sum(f, T) = Sum(h, T)
    BY <1>1, SumsAgree
  <1> QED
    BY <1>1, <1>2, <1>3, <1>4, <1>5

LEMMA TotalsAgree ==
    ASSUME NEW p, NEW q, NEW i, NEW S, IsFiniteSet(S), \A v \in S : p[v][i] = q[v][i]
    PROVE  Total(p, S, i) = Total(q, S, i)
PROOF
  <1> DEFINE f == [v \in S |-> p[v][i]]
             h == [v \in S |-> q[v][i]]
  <1>1. \A v \in S : f[v] = h[v]
    OBVIOUS
  <1>2. Total(p, S, i) = Sum(f, S) /\ Total(q, S, i) = Sum(h, S)
    BY TotalIsSum
  <1> HIDE DEF f, h
  <1> QED
    BY <1>1, <1>2, SumsAgree

\* One user's promises of an item change.
LEMMA TotalMoves ==
    ASSUME NEW i, NEW u \in Users,
           \A v \in Users : promise[v][i] \in Nat /\ promise'[v][i] \in Nat,
           \A v \in Users \ {u} : promise'[v][i] = promise[v][i]
    PROVE  /\ Total(promise', Users, i)
                = Total(promise, Users, i) - promise[u][i] + promise'[u][i]
           /\ Total(promise, Users \ {u}, i) = Total(promise, Users, i) - promise[u][i]
           /\ Total(promise, Users, i) \in Nat
PROOF
  <1>1. PICK p, q : p = promise /\ q = promise'
    OBVIOUS
  <1>2. IsFiniteSet(Users) /\ IsFiniteSet(Users \ {u})
    BY ParticipationAssumption, FS_RemoveElement DEF ParticipationAssumption
  <1>3. /\ \A v \in Users : p[v][i] \in Nat
        /\ \A v \in Users : q[v][i] \in Nat
        /\ \A v \in Users \ {u} : p[v][i] = q[v][i]
    BY <1>1
  <1>4. Total(q, Users, i) = q[u][i] + Total(q, Users \ {u}, i)
    BY <1>2, <1>3, TotalTakesOut
  <1>5. Total(p, Users, i) = p[u][i] + Total(p, Users \ {u}, i)
    BY <1>2, <1>3, TotalTakesOut
  <1>6. Total(p, Users \ {u}, i) = Total(q, Users \ {u}, i)
    BY <1>2, <1>3, TotalsAgree
  <1>7. Total(p, Users \ {u}, i) \in Nat
    BY <1>2, <1>3, TotalTyped
  <1> QED
    BY <1>1, <1>3, <1>4, <1>5, <1>6, <1>7

\* Nobody promises anything.
LEMMA NothingPromised ==
    ASSUME NEW p, NEW i, NEW S, IsFiniteSet(S), \A v \in S : p[v][i] = 0
    PROVE  Total(p, S, i) = 0
PROOF
  <1> DEFINE f == [v \in S |-> p[v][i]]
  <1>1. \A v \in S : f[v] = 0
    OBVIOUS
  <1> HIDE DEF f
  <1>2. Sum(f, S) = 0
    BY <1>1, SumOfZeros
  <1> QED
    BY <1>2, TotalIsSum DEF f

LEMMA PromisedIsTotal ==
    ASSUME NEW i
    PROVE  /\ \A S : Promised(S, i) = Total(promise, S, i)
           /\ Promised(Users, i)' = Total(promise', Users, i)
PROOF
  <1>1. ASSUME NEW S PROVE Promised(S, i) = Total(promise, S, i)
    BY DEF Promised, Total
  <1>2. Promised(Users, i)' = Total(promise', Users, i)
    BY DEF Promised, Total, MapThenSumSet, MapThenFoldSet
  <1> QED
    BY <1>1, <1>2

-----------------------------------------------------------------------------
(* Types of the item rows.                                                 *)

\* Who writes the item rows.
LEMMA ItemRowsRest ==
    ASSUME Next
    PROVE  \/ UNCHANGED itemVars
           \/ \E r \in Requests : \/ CommitReserve(r) \/ CommitAttach(r) \/ CommitCustom(r)
                                  \/ CommitDrop(r) \/ CommitDecline(r)
           \/ \E u \in Users : DeleteAccount(u)
PROOF
  <1>1. ASSUME NEW r \in Requests, Begin(r)
        PROVE  UNCHANGED itemVars
    BY <1>1
    DEF Begin, StartCreate, StartJoin, StartLeave, StartRespond, StartReserve, StartCustom,
        StartDrop, StartUpdate, StartDelete, StartAttach, Start, Admit
  <1>2. ASSUME NEW r \in Requests,
               \/ CheckCreate(r) \/ CommitCreate(r) \/ CheckJoin(r) \/ CommitJoin(r)
               \/ CommitLeave(r) \/ CommitUpdate(r) \/ ListPassengers(r) \/ CommitDelete(r)
               \/ CommitAccept(r) \/ ListPromises(r) \/ ReleasePromises(r)
               \/ Notify(r) \/ Fail(r)
        PROVE  UNCHANGED itemVars
    BY <1>2
    DEF CheckCreate, CommitCreate, CheckJoin, CommitJoin, CommitLeave, CommitUpdate,
        ListPassengers, CommitDelete, CommitAccept, ListPromises, ReleasePromises, Notify, Fail
  <1>3. CASE \/ \E u \in Users : Invite(u) \/ RemoveGuest(u)
             \/ Cleanup \/ Reschedule
    BY <1>3 DEF Invite, RemoveGuest, Cleanup, Reschedule
  <1> QED
    BY <1>1, <1>2, <1>3 DEF Next, Advance

LEMMA ItemTypes ==
    ASSUME RolesInv, RolesInv', TypeOK, Next
    PROVE  TypeOK'
PROOF
  <1>1. /\ maxQty \in [Items -> Nat]
        /\ reserved \in [Items -> Nat]
        /\ creator \in [Items -> Users \cup {None}]
        /\ Owner \in Users /\ IsFiniteSet(Users)
        /\ req \in [Requests -> Request]
    BY ParticipationAssumption DEF TypeOK, RolesInv, CarpoolTypeOK, ParticipationAssumption
  <1> SUFFICES /\ maxQty' \in [Items -> Nat]
               /\ reserved' \in [Items -> Nat]
               /\ creator' \in [Items -> Users \cup {None}]
    BY DEF TypeOK, RolesInv
  <1>2. CASE \E r \in Requests : CommitReserve(r)
    <2>1. PICK r \in Requests : CommitReserve(r)
      BY <1>2
    <2> DEFINE i == req[r].target
               total == NewTotal(req[r].user, i, req[r].amount)
    <2>2. reserved' = [reserved EXCEPT ![i] = total] /\ UNCHANGED <<maxQty, creator>>
      BY <2>1 DEF CommitReserve
    <2>3. i \in Items => total \in Nat
      <3>1. total \in 0..maxQty[i]
        BY <2>1 DEF CommitReserve
      <3> HIDE DEF total
      <3> QED
        BY <1>1, <3>1
    <2> HIDE DEF i, total
    <2> QED
      BY <1>1, <2>2, <2>3
  <1>3. CASE \E r \in Requests : CommitAttach(r) \/ CommitCustom(r)
    <2>1. PICK r \in Requests : CommitAttach(r) \/ CommitCustom(r)
      BY <1>3
    <2>2. req[r].amount \in Nat
      BY <1>1 DEF Request
    <2>3. req[r].pc # "idle" /\ req[r].user \in Users
      BY <2>1 DEF RolesInv, RolesInductive, RequestsAddressed, CommitAttach, CommitCustom
    <2>4. maxQty' \in [Items -> Nat]
      BY <1>1, <2>1, <2>2 DEF CommitAttach, CommitCustom
    <2>5. creator' \in [Items -> Users \cup {None}] /\ reserved' = reserved
      BY <1>1, <2>1, <2>3 DEF CommitAttach, CommitCustom
    <2> QED
      BY <1>1, <2>4, <2>5
  <1>4. CASE \E r \in Requests : CommitDrop(r)
    <2>1. PICK r \in Requests : CommitDrop(r)
      BY <1>4
    <2> QED
      BY <1>1, <2>1 DEF CommitDrop, DropItems
  <1>5. CASE \E r \in Requests : CommitDecline(r)
    <2>1. PICK r \in Requests : CommitDecline(r)
      BY <1>5
    <2>2. req[r].promised \in [Items -> Nat]
      BY <1>1 DEF Request
    <2>3. reserved' \in [Items -> Nat]
      BY <1>1, <2>1, <2>2 DEF CommitDecline
    <2> QED
      BY <1>1, <2>1, <2>3 DEF CommitDecline
  <1>6. CASE \E u \in Users : DeleteAccount(u)
    <2>1. PICK u \in Users : DeleteAccount(u)
      BY <1>6
    <2>2. \A i \in Items : Promised(Users \ {u}, i) \in Nat
      <3> SUFFICES ASSUME NEW i \in Items PROVE Promised(Users \ {u}, i) \in Nat
        OBVIOUS
      <3>1. IsFiniteSet(Users \ {u})
        BY <1>1, FS_RemoveElement
      <3>2. \A v \in Users \ {u} : promise[v][i] \in Nat
        BY DEF RolesInv, CarpoolTypeOK
      <3> QED
        BY <3>1, <3>2, TotalTyped, PromisedIsTotal
    <2>3. reserved' \in [Items -> Nat]
      BY <1>1, <2>1, <2>2 DEF DeleteAccount
    <2> QED
      BY <1>1, <2>1, <2>3 DEF DeleteAccount
  <1>7. CASE UNCHANGED <<maxQty, reserved, creator>>
    BY <1>1, <1>7
  <1> QED
    BY <1>2, <1>3, <1>4, <1>5, <1>6, <1>7, ItemRowsRest DEF itemVars

\* Types of all variables: no total, maximum or promise is ever negative.
THEOREM ParticipationTyped == Spec => []TypeOK
PROOF
  <1>1. Init => RolesInv /\ TypeOK
    <2> SUFFICES ASSUME Init PROVE RolesInv /\ TypeOK
      OBVIOUS
    <2>1. RolesInv
      BY InitRolesInv, ParticipationAssumption
    <2> QED
      BY <2>1 DEF Init, TypeOK, RolesInv
  <1>2. RolesInv /\ TypeOK /\ [Next]_vars => (RolesInv /\ TypeOK)'
    <2> SUFFICES ASSUME RolesInv, TypeOK, [Next]_vars PROVE RolesInv' /\ TypeOK'
      OBVIOUS
    <2>1. RolesInv'
      BY StepRolesInv, ParticipationAssumption
    <2>2. CASE UNCHANGED vars
      BY <2>1, <2>2 DEF vars, itemVars, TypeOK, RolesInv
    <2> QED
      BY <2>1, <2>2, ItemTypes
  <1> QED
    BY <1>1, <1>2, PTL DEF Spec

-----------------------------------------------------------------------------
(* Totals.                                                                 *)

Listed(r) == req[r].pc \in {"declineListed", "declineReleased"}

\* Reservations that a decline has listed and deleted are as they were, as their
\* rows are locked, and the user has no other request to add one with.
ListsHold ==
    \A r \in Requests : Listed(r) =>
        /\ \A i \in Items : req[r].promised[i] = promise[req[r].user][i]
        /\ req[r].pc = "declineReleased" =>
              req[r].dropped = {i \in Items : promise[req[r].user][i] > 0}

TotalsInv == SeatsInv /\ TypeOK /\ ListsHold /\ TotalsMatchPromises

\* Requests that do not come to decline, of users whose promises stay.
LEMMA ListsStay ==
    ASSUME ListsHold,
           \A q \in Requests : req'[q] = req[q] \/ ~Listed(q)',
           \A q \in Requests : Listed(q) /\ req'[q] = req[q] =>
               \A i \in Items : promise'[req[q].user][i] = promise[req[q].user][i]
    PROVE  ListsHold'
PROOF
  <1> SUFFICES ASSUME NEW r \in Requests, Listed(r)'
               PROVE  /\ \A i \in Items : req'[r].promised[i] = promise'[req'[r].user][i]
                      /\ req'[r].pc = "declineReleased" =>
                           req'[r].dropped = {i \in Items : promise'[req'[r].user][i] > 0}
    BY DEF ListsHold
  <1>1. req'[r] = req[r] /\ Listed(r)
    BY DEF Listed
  <1>2. \A i \in Items : promise'[req[r].user][i] = promise[req[r].user][i]
    BY <1>1
  <1> QED
    BY <1>1, <1>2 DEF ListsHold

LEMMA TotalsStay ==
    ASSUME TotalsMatchPromises, UNCHANGED <<reserved, promise>>
    PROVE  TotalsMatchPromises'
PROOF
  BY PromisedIsTotal DEF TotalsMatchPromises

\* One user's promises change, and the totals with them.
LEMMA TotalsFollow ==
    ASSUME TotalsInv, SeatsInv', NEW u \in Users,
           \A v \in Users \ {u}, i \in Items : promise'[v][i] = promise[v][i],
           \A i \in Items : reserved'[i] = reserved[i] - promise[u][i] + promise'[u][i]
    PROVE  TotalsMatchPromises'
PROOF
  <1> SUFFICES ASSUME NEW i \in Items PROVE reserved'[i] = Promised(Users, i)'
    BY DEF TotalsMatchPromises
  <1>1. \A v \in Users : promise[v][i] \in Nat /\ promise'[v][i] \in Nat
    BY DEF TotalsInv, SeatsInv, RolesInv, CarpoolTypeOK
  <1>2. reserved[i] = Total(promise, Users, i)
    BY PromisedIsTotal DEF TotalsInv, TotalsMatchPromises
  <1>3. Total(promise', Users, i) = Total(promise, Users, i) - promise[u][i] + promise'[u][i]
    BY <1>1, TotalMoves
  <1> QED
    BY <1>2, <1>3, PromisedIsTotal

LEMMA ReserveTotals ==
    ASSUME OneRequestPerUser, TotalsInv, SeatsInv', NEW r \in Requests, CommitReserve(r)
    PROVE  ListsHold' /\ TotalsMatchPromises'
PROOF
  <1> USE DEF TotalsInv
  <1> DEFINE u == req[r].user
             t == req[r].target
  <1>1. u \in Users
    BY DEF SeatsInv, RolesInv, RolesInductive, RequestsAddressed, CommitReserve
  <1>2. /\ promise \in [Users -> [Items -> Nat]]
        /\ reserved \in [Items -> Nat]
        /\ req \in [Requests -> Request]
    BY DEF TypeOK, CarpoolTypeOK
  <1>3. /\ \A v \in Users \ {u} : promise'[v] = promise[v]
        /\ \A i \in Items \ {t} : promise'[u][i] = promise[u][i] /\ reserved'[i] = reserved[i]
        /\ t \in Items => promise'[u][t] = req[r].amount
        /\ t \in Items => reserved'[t] = reserved[t] - promise[u][t] + req[r].amount
    BY <1>1, <1>2 DEF CommitReserve, NewTotal
  <1>4. ListsHold'
    <2>1. \A q \in Requests : req'[q] = IF q = r THEN Idle ELSE req[q]
      BY <1>2 DEF CommitReserve, Finish
    <2>2. \A q \in Requests : Listed(q) /\ q # r => req[q].user \in Users \ {u}
      BY OthersDiffer DEF SeatsInv, Listed
    <2>3. ~Listed(r)
      BY DEF CommitReserve, Listed
    <2> QED
      BY <1>3, <2>1, <2>2, <2>3, ListsStay DEF Listed, Idle
  <1>5. \A i \in Items : reserved'[i] = reserved[i] - promise[u][i] + promise'[u][i]
    BY <1>1, <1>2, <1>3
  <1> HIDE DEF u
  <1>6. TotalsMatchPromises'
    BY <1>1, <1>3, <1>5, TotalsFollow
  <1> QED
    BY <1>4, <1>6

LEMMA DeclineTotals ==
    ASSUME OneRequestPerUser, TotalsInv, SeatsInv', NEW r \in Requests, CommitDecline(r)
    PROVE  ListsHold' /\ TotalsMatchPromises'
PROOF
  <1> USE DEF TotalsInv
  <1> DEFINE u == req[r].user
  <1>1. u \in Users
    BY DEF SeatsInv, RolesInv, RolesInductive, RequestsAddressed, CommitDecline
  <1>2. /\ promise \in [Users -> [Items -> Nat]]
        /\ reserved \in [Items -> Nat]
        /\ req \in [Requests -> Request]
    BY DEF TypeOK, CarpoolTypeOK
  <1>3. /\ \A i \in Items : req[r].promised[i] = promise[u][i]
        /\ req[r].dropped = {i \in Items : promise[u][i] > 0}
    BY DEF ListsHold, Listed, CommitDecline
  <1>4. /\ \A v \in Users \ {u} : promise'[v] = promise[v]
        /\ \A i \in Items : promise'[u][i] = 0
    BY <1>1, <1>2, <1>3 DEF CommitDecline
  <1>5. \A i \in Items : reserved[i] >= promise[u][i]
    <2> SUFFICES ASSUME NEW i \in Items PROVE reserved[i] >= promise[u][i]
      OBVIOUS
    <2>1. reserved[i] = Total(promise, Users, i)
      BY PromisedIsTotal DEF TotalsMatchPromises
    <2>2. \A v \in Users : promise[v][i] \in Nat
      BY <1>2
    <2>3. IsFiniteSet(Users) /\ IsFiniteSet(Users \ {u})
      BY ParticipationAssumption, FS_RemoveElement DEF ParticipationAssumption
    <2>4. Total(promise, Users, i) = promise[u][i] + Total(promise, Users \ {u}, i)
      BY <1>1, <2>2, <2>3, TotalTakesOut
    <2>5. Total(promise, Users \ {u}, i) \in Nat
      BY <2>2, <2>3, TotalTyped
    <2> QED
      BY <1>1, <2>1, <2>2, <2>4, <2>5
  <1>6. \A i \in Items : reserved'[i] = reserved[i] - promise[u][i] + promise'[u][i]
    <2> SUFFICES ASSUME NEW i \in Items
                 PROVE  reserved'[i] = reserved[i] - promise[u][i] + promise'[u][i]
      OBVIOUS
    <2>1. reserved'[i] = IF reserved[i] > promise[u][i] THEN reserved[i] - promise[u][i] ELSE 0
      BY <1>3 DEF CommitDecline
    <2>2. promise'[u][i] = 0 /\ reserved[i] \in Nat /\ promise[u][i] \in Nat
      BY <1>1, <1>2, <1>4
    <2> QED
      BY <1>5, <2>1, <2>2
  <1>7. ListsHold'
    <2>1. /\ \A q \in Requests \ {r} : req'[q] = req[q]
          /\ req'[r].pc \in {"idle", "notify"}
      BY EndRests DEF CommitDecline, SeatsInv
    <2>2. \A q \in Requests : Listed(q) /\ q # r => req[q].user \in Users \ {u}
      BY OthersDiffer DEF SeatsInv, Listed
    <2>3. \A q \in Requests : Listed(q) /\ req'[q] = req[q] => q # r
      BY <2>1 DEF Listed
    <2>4. \A q \in Requests : req'[q] = req[q] \/ ~Listed(q)'
      BY <2>1 DEF Listed
    <2> QED
      BY <1>4, <2>2, <2>3, <2>4, ListsStay
  <1> HIDE DEF u
  <1> QED
    BY <1>1, <1>4, <1>6, <1>7, TotalsFollow

\* An item goes with all its reservations.
LEMMA DropTotals ==
    ASSUME TotalsInv, NEW r \in Requests, CommitDrop(r)
    PROVE  ListsHold' /\ TotalsMatchPromises'
PROOF
  <1> USE DEF TotalsInv
  <1> DEFINE t == req[r].target
  <1>1. /\ promise \in [Users -> [Items -> Nat]]
        /\ reserved \in [Items -> Nat]
        /\ req \in [Requests -> Request]
    BY DEF TypeOK, CarpoolTypeOK
  <1>2. /\ \A v \in Users, i \in Items : promise'[v][i] = IF i = t THEN 0 ELSE promise[v][i]
        /\ \A i \in Items : reserved'[i] = IF i = t THEN 0 ELSE reserved[i]
    BY <1>1 DEF CommitDrop, DropItems
  <1>3. ListsHold'
    <2>1. \A q \in Requests : req'[q] = IF q = r THEN Idle ELSE req[q]
      BY <1>1 DEF CommitDrop, Finish
    <2>2. ASSUME NEW q \in Requests, Listed(q), NEW i \in Items
          PROVE  promise'[req[q].user][i] = promise[req[q].user][i]
      <3>1. req[q].user \in Users /\ q # r
        BY <2>2 DEF Listed, SeatsInv, RolesInv, RolesInductive, RequestsAddressed, CommitDrop
      <3>2. i = t => req[q].promised[i] = 0
        BY <2>2, <3>1 DEF CommitDrop, PromiseFree, Listed
      <3>3. req[q].promised[i] = promise[req[q].user][i]
        BY <2>2 DEF ListsHold
      <3> QED
        BY <1>2, <3>1, <3>2, <3>3
    <2> QED
      BY <2>1, <2>2, ListsStay DEF Listed, Idle
  <1>4. ASSUME NEW i \in Items PROVE reserved'[i] = Promised(Users, i)'
    <2>1. IsFiniteSet(Users)
      BY ParticipationAssumption DEF ParticipationAssumption
    <2>2. CASE i = t
      BY <1>2, <2>1, <2>2, NothingPromised, PromisedIsTotal
    <2>3. CASE i # t
      <3>1. \A v \in Users : promise'[v][i] = promise[v][i]
        BY <1>2, <2>3
      <3>2. Total(promise', Users, i) = Total(promise, Users, i)
        BY <2>1, <3>1, TotalsAgree
      <3> QED
        BY <1>2, <2>3, <3>2, PromisedIsTotal DEF TotalsMatchPromises
    <2> QED
      BY <2>2, <2>3
  <1> QED
    BY <1>3, <1>4 DEF TotalsMatchPromises

\* delete_account sums up again what others promise of the items it touches.
LEMMA AccountTotals ==
    ASSUME TotalsInv, NEW u \in Users, DeleteAccount(u)
    PROVE  ListsHold' /\ TotalsMatchPromises'
PROOF
  <1> USE DEF TotalsInv
  <1> DEFINE touched == {i \in Items : creator[i] = u \/ promise[u][i] > 0}
             brings  == {i \in Items : creator[i] = u /\ Kind[i] = "bring"}
  <1>1. /\ promise \in [Users -> [Items -> Nat]]
        /\ reserved \in [Items -> Nat]
        /\ req \in [Requests -> Request]
        /\ IsFiniteSet(Users) /\ None \notin Requests
    BY ParticipationAssumption DEF TypeOK, CarpoolTypeOK, ParticipationAssumption
  <1>2. /\ \A v \in Users, i \in Items :
              promise'[v][i] = IF v = u \/ i \in brings THEN 0 ELSE promise[v][i]
        /\ \A i \in Items : reserved'[i] = IF i \in brings THEN 0
                                           ELSE IF i \in touched THEN Promised(Users \ {u}, i)
                                           ELSE reserved[i]
        /\ \A i \in touched, v \in Users : PromiseFree(None, v, i)
        /\ InvitationFree(None, u)
        /\ req' = req
        /\ brings \subseteq touched
    BY DEF DeleteAccount
  <1> HIDE DEF brings
  <1>3. ListsHold'
    <2>1. ASSUME NEW q \in Requests, Listed(q), NEW i \in Items
          PROVE  promise'[req[q].user][i] = promise[req[q].user][i]
      <3>1. req[q].user \in Users /\ q # None
        BY <1>1, <2>1 DEF Listed, SeatsInv, RolesInv, RolesInductive, RequestsAddressed
      <3>2. req[q].user # u
        BY <1>2, <2>1, <3>1 DEF InvitationFree, Listed
      <3>3. i \in brings => req[q].promised[i] = 0
        BY <1>2, <2>1, <3>1 DEF PromiseFree, Listed
      <3>4. req[q].promised[i] = promise[req[q].user][i]
        BY <2>1 DEF ListsHold
      <3> QED
        BY <1>2, <3>1, <3>2, <3>3, <3>4
    <2> QED
      BY <1>2, <2>1, ListsStay
  <1>4. ASSUME NEW i \in Items PROVE reserved'[i] = Promised(Users, i)'
    <2>1. \A v \in Users : promise[v][i] \in Nat /\ promise'[v][i] \in Nat
      BY <1>1, <1>2
    <2>2. CASE i \in brings
      BY <1>1, <1>2, <2>2, NothingPromised, PromisedIsTotal
    <2>3. CASE i \notin brings
      <3>1. /\ \A v \in Users \ {u} : promise[v][i] = promise'[v][i]
            /\ promise'[u][i] = 0
        BY <1>2, <2>3
      <3>2. /\ Total(promise', Users, i) = Total(promise, Users, i) - promise[u][i] + promise'[u][i]
            /\ Total(promise, Users \ {u}, i) = Total(promise, Users, i) - promise[u][i]
            /\ Total(promise, Users, i) \in Nat
        BY <2>1, <3>1, TotalMoves
      <3>3. reserved[i] = Total(promise, Users, i)
        BY PromisedIsTotal DEF TotalsMatchPromises
      <3>4. i \notin touched => promise[u][i] = 0
        BY <2>1
      <3>5. reserved'[i] = IF i \in touched THEN Total(promise, Users \ {u}, i) ELSE reserved[i]
        BY <1>2, <2>3, PromisedIsTotal
      <3> QED
        BY <2>1, <3>1, <3>2, <3>3, <3>4, <3>5, PromisedIsTotal
    <2> QED
      BY <2>2, <2>3
  <1> QED
    BY <1>3, <1>4 DEF TotalsMatchPromises

\* A decline lists and deletes reservations, in its transaction.
LEMMA ListingTotals ==
    ASSUME TotalsInv, NEW r \in Requests, ListPromises(r) \/ ReleasePromises(r)
    PROVE  ListsHold'
PROOF
  <1> USE DEF TotalsInv
  <1>1. /\ req \in [Requests -> Request]
        /\ promise' = promise
        /\ \A q \in Requests \ {r} : req'[q] = req[q]
    BY DEF TypeOK, CarpoolTypeOK, ListPromises, ReleasePromises, itemVars
  <1>2. ASSUME NEW q \in Requests, q # r, Listed(q)'
        PROVE  /\ \A i \in Items : req'[q].promised[i] = promise'[req'[q].user][i]
               /\ req'[q].pc = "declineReleased" =>
                    req'[q].dropped = {i \in Items : promise'[req'[q].user][i] > 0}
    BY <1>1, <1>2 DEF ListsHold, Listed
  <1>3. CASE ListPromises(r)
    <2>1. /\ req'[r].pc = "declineListed" /\ req'[r].user = req[r].user
          /\ req'[r].promised = promise[req[r].user]
      BY <1>1, <1>3 DEF ListPromises, Request
    <2> QED
      BY <1>1, <1>2, <2>1 DEF ListsHold
  <1>4. CASE ReleasePromises(r)
    <2>1. /\ req'[r].pc = "declineReleased" /\ req'[r].user = req[r].user
          /\ req'[r].promised = req[r].promised
          /\ req'[r].dropped = {i \in Items : promise[req[r].user][i] > 0}
      <3> DEFINE u == req[r].user
      <3>1. PICK x : x = req[r]
        OBVIOUS
      <3>2. x \in Request
        BY <1>1, <3>1
      <3>3. req'[r] = [x EXCEPT !.pc = "declineReleased",
                               !.dropped = {i \in Items : promise[u][i] > 0},
                               !.owned = Only(DrivesIn(u)),
                               !.target = Only(RidesIn(u))]
        BY <1>1, <1>4, <3>1 DEF ReleasePromises
      <3> HIDE DEF u
      <3>4. /\ req'[r].pc = "declineReleased" /\ req'[r].user = x.user
            /\ req'[r].promised = x.promised
            /\ req'[r].dropped = {i \in Items : promise[u][i] > 0}
        BY <3>2, <3>3 DEF Request
      <3> QED
        BY <3>1, <3>4 DEF u
    <2>2. \A i \in Items : req[r].promised[i] = promise[req[r].user][i]
      BY <1>4 DEF ReleasePromises, ListsHold, Listed
    <2> QED
      BY <1>1, <1>2, <2>1, <2>2 DEF ListsHold
  <1> QED
    BY <1>3, <1>4

\* Everything else leaves totals and promises, and begins no listing.
LEMMA OtherTotals ==
    ASSUME TotalsInv, Next,
           ~ \E r \in Requests : \/ CommitReserve(r) \/ CommitDecline(r) \/ CommitDrop(r)
                                 \/ ListPromises(r) \/ ReleasePromises(r),
           ~ \E u \in Users : DeleteAccount(u)
    PROVE  ListsHold'
PROOF
  <1> USE DEF TotalsInv
  <1>1. req \in [Requests -> Request]
    BY DEF TypeOK, CarpoolTypeOK
  <1>2. promise' = promise
    BY ItemRowsRest DEF CommitAttach, CommitCustom, itemVars
  <1>3. \A q \in Requests : req'[q] = req[q] \/ ~Listed(q)'
    <2>1. ASSUME NEW r \in Requests, NEW x, req' = [req EXCEPT ![r] = x],
                 x.pc \notin {"declineListed", "declineReleased"}
          PROVE  \A q \in Requests : req'[q] = req[q] \/ ~Listed(q)'
      BY <1>1, <2>1 DEF Listed
    <2>2. ASSUME NEW r \in Requests, Begin(r)
          PROVE  \A q \in Requests : req'[q] = req[q] \/ ~Listed(q)'
      <3>1. PICK u \in Users,
                 pc \in {"create", "join", "leave", "accept", "decline", "reserve",
                         "custom", "drop", "update", "delete", "attach"} :
              \E target, amount : Admit(r, u, pc, target, amount)
        <4>1. \A c \in CarpoolIds : driver[c] # None => driver[c] \in Users
          BY DEF TypeOK, CarpoolTypeOK
        <4> QED
          BY <2>2, <4>1, ParticipationAssumption
          DEF Begin, StartCreate, StartJoin, StartLeave, StartRespond, StartReserve,
              StartCustom, StartDrop, StartUpdate, StartDelete, StartAttach, Start, Live,
              ParticipationAssumption
      <3>3. PICK target, amount : Admit(r, u, pc, target, amount)
        BY <3>1
      <3>2. Beginning(u, pc, target, amount).pc = pc
        BY DEF Beginning, Idle
      <3> QED
        BY <2>1, <3>3, <3>2 DEF Admit
    <2>3. ASSUME NEW r \in Requests, CheckCreate(r) \/ CheckJoin(r) \/ ListPassengers(r)
          PROVE  \A q \in Requests : req'[q] = req[q] \/ ~Listed(q)'
      BY <1>1, <2>3 DEF CheckCreate, CheckJoin, ListPassengers, Request, Listed
    <2>4. ASSUME NEW r \in Requests, NEW notice, Finish(r) \/ FinishThenNotify(r, notice)
          PROVE  \A q \in Requests : req'[q] = req[q] \/ ~Listed(q)'
      BY <2>4, EndRests DEF SeatsInv, Listed
    <2>5. ASSUME NEW r \in Requests,
                 \/ CommitCreate(r) \/ CommitJoin(r) \/ CommitLeave(r) \/ CommitUpdate(r)
                 \/ CommitDelete(r) \/ CommitAccept(r) \/ CommitAttach(r) \/ CommitCustom(r)
                 \/ Notify(r) \/ Fail(r)
          PROVE  \A q \in Requests : req'[q] = req[q] \/ ~Listed(q)'
      BY <2>4, <2>5
      DEF CommitCreate, CommitJoin, CommitLeave, CommitUpdate, CommitDelete, CommitAccept,
          CommitAttach, CommitCustom, Notify, Fail
    <2>6. CASE \/ \E u \in Users : Invite(u) \/ RemoveGuest(u)
               \/ Cleanup \/ Reschedule
      BY <2>6 DEF Invite, RemoveGuest, Cleanup, Reschedule
    <2> QED
      BY <2>2, <2>3, <2>5, <2>6 DEF Next, Advance
  <1> QED
    BY <1>2, <1>3, ListsStay

LEMMA TotalsInductive ==
    ASSUME OneRequestPerUser, TotalsInv, [Next]_vars
    PROVE  TotalsInv'
PROOF
  <1>1. SeatsInv'
    BY SeatsInductive DEF TotalsInv
  <1>2. CASE UNCHANGED vars
    <2>1. TypeOK'
      BY <1>1, <1>2 DEF TotalsInv, TypeOK, vars, itemVars, SeatsInv, RolesInv
    <2>2. ListsHold'
      BY <1>2 DEF TotalsInv, ListsHold, Listed, vars, itemVars
    <2>3. TotalsMatchPromises'
      BY <1>2, TotalsStay DEF TotalsInv, vars, itemVars
    <2> QED
      BY <1>1, <2>1, <2>2, <2>3 DEF TotalsInv
  <1>3. CASE Next
    <2>1. TypeOK'
      BY <1>1, <1>3, ItemTypes DEF TotalsInv, SeatsInv
    <2>2. CASE \/ \E r \in Requests : CommitReserve(r) \/ CommitDecline(r) \/ CommitDrop(r)
               \/ \E u \in Users : DeleteAccount(u)
      <3>1. ListsHold' /\ TotalsMatchPromises'
        BY <1>1, <2>2, ReserveTotals, DeclineTotals, DropTotals, AccountTotals
      <3> QED
        BY <1>1, <2>1, <3>1 DEF TotalsInv
    <2>3. CASE ~ \/ \E r \in Requests : CommitReserve(r) \/ CommitDecline(r) \/ CommitDrop(r)
                 \/ \E u \in Users : DeleteAccount(u)
      <3>1. UNCHANGED <<reserved, promise>>
        BY <1>3, <2>3, ItemRowsRest DEF CommitAttach, CommitCustom, itemVars
      <3>2. TotalsMatchPromises'
        BY <3>1, TotalsStay DEF TotalsInv
      <3>3. ListsHold'
        BY <1>3, <2>3, ListingTotals, OtherTotals
      <3> QED
        BY <1>1, <2>1, <3>2, <3>3 DEF TotalsInv
    <2> QED
      BY <2>2, <2>3
  <1> QED
    BY <1>2, <1>3

LEMMA TotalsInitially == Init => TotalsInv
PROOF
  <1> SUFFICES ASSUME Init PROVE TotalsInv
    OBVIOUS
  <1>1. SeatsInv
    BY SeatsInitially
  <1>2. TypeOK
    BY <1>1 DEF Init, TypeOK, SeatsInv, RolesInv
  <1>3. ListsHold
    BY DEF Init, ListsHold, Listed, Idle
  <1>4. TotalsMatchPromises
    <2> SUFFICES ASSUME NEW i \in Items PROVE reserved[i] = Promised(Users, i)
      BY DEF TotalsMatchPromises
    <2>1. IsFiniteSet(Users) /\ \A v \in Users : promise[v][i] = 0
      BY ParticipationAssumption DEF Init, NoPromise, ParticipationAssumption
    <2> QED
      BY <2>1, NothingPromised, PromisedIsTotal DEF Init
  <1> QED
    BY <1>1, <1>2, <1>3, <1>4 DEF TotalsInv

\* events_items.quantity is the sum of the promises of all users, for any number
\* of them: reservations, declines, dropped items and deleted accounts keep the
\* total that they write in step with the rows.
THEOREM TotalsAreSums == ASSUME OneRequestPerUser PROVE Spec => []TotalsMatchPromises
PROOF
  <1>1. TotalsInv /\ [Next]_vars => TotalsInv'
    BY TotalsInductive
  <1>2. TotalsInv => TotalsMatchPromises
    BY DEF TotalsInv
  <1> QED
    BY <1>1, <1>2, TotalsInitially, PTL DEF Spec
=============================================================================
