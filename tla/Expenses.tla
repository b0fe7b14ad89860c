------------------------------ MODULE Expenses ------------------------------
(***************************************************************************)
(* The shared expenses of one event: members add and delete them and ask   *)
(* for the summary, while guests change their answers and accounts are     *)
(* deleted.                                                                *)
(*                                                                         *)
(* A summary reads in statements of their own: the ids of the expenses,    *)
(* their rows, and their participants.  Whether the event is writable is   *)
(* left to chance: a handler may refuse at any time (End).                 *)
(***************************************************************************)
EXTENDS Settlement

CONSTANTS
    None,          \* SQL's NULL
    Owner,         \* the organizer
    Payloads,      \* expenses that members add: payer, amount, participants
    Requests,      \* requests in flight
    MaxExpenses    \* bound on the expenses ever added

Amounts == {p.amount : p \in Payloads}
Expense == [paidBy : Users, amount : Amounts, among : SUBSET Users]

ASSUME ExpensesAssumption ==
    /\ Owner \in Users
    /\ None \notin Users
    /\ MaxExpenses \in Nat
    /\ Payloads \subseteq Expense
    /\ \A p \in Payloads : p.amount \in Nat \ {0} /\ p.among # {}

VARIABLES
    accounts,   \* users whose account exists
    accepted,   \* guests who accepted
    expense,    \* event_expenses with event_expense_participants
    lastId,     \* the sequence of expense_id
    request

vars == <<accounts, accepted, expense, lastId, request>>

Ids     == 1..MaxExpenses
Stored  == {x \in Ids : expense[x] # None}
Members == accepted \cup {Owner}

Row  == [paidBy : Users, amount : Amounts, among : SUBSET Users, createdBy : Users]
Bill == UNION {[X -> Expense] : X \in SUBSET Ids}

NoRequest == [pc |-> "idle", user |-> None, row |-> None, ids |-> {}, bill |-> <<>>]

Request == [pc   : {"asking", "checked", "summing", "listed", "read", "answered"},
            user : Users \cup {None},      \* who adds an expense
            row  : Payloads \cup {None},   \* the expense to add
            ids  : SUBSET Ids,             \* the expenses a summary found
            bill : Bill]                   \* what it read of them

\* The types, and the foreign keys of both tables.
TypeOK ==
    /\ accounts \in SUBSET Users /\ Owner \in accounts
    /\ accepted \in SUBSET (accounts \ {Owner})
    /\ lastId \in 0..MaxExpenses
    /\ DOMAIN expense = Ids
    /\ \A x \in Stored : /\ x <= lastId
                         /\ expense[x] \in Row
                         /\ {expense[x].paidBy, expense[x].createdBy} \subseteq accounts
                         /\ expense[x].among \subseteq accounts
    /\ DOMAIN request = Requests
    /\ \A r \in Requests : request[r] \in Request \cup {NoRequest}

Init ==
    /\ accounts = Users
    /\ accepted = Users \ {Owner}
    /\ expense = [x \in Ids |-> None]
    /\ lastId = 0
    /\ request = [r \in Requests |-> NoRequest]

-----------------------------------------------------------------------------
\* Invitations are answered, made and deleted; expenses stay.
AnswerChanges(u) ==
    /\ u \in accounts \ {Owner}
    /\ accepted' = IF u \in accepted THEN accepted \ {u} ELSE accepted \cup {u}
    /\ UNCHANGED <<accounts, expense, lastId, request>>

\* What ON DELETE CASCADE leaves of a row.
Bereft(row, u) ==
    IF u \in {row.paidBy, row.createdBy} THEN None
                                         ELSE [row EXCEPT !.among = @ \ {u}]

DeleteAccount(u) ==
    /\ u \in accounts \ {Owner}
    /\ accounts' = accounts \ {u}
    /\ accepted' = accepted \ {u}
    /\ expense' = [x \in Ids |-> IF x \in Stored THEN Bereft(expense[x], u) ELSE None]
    /\ UNCHANGED <<lastId, request>>

\* create_event_expense: ensure_event_member.
StartAdd(r, u) ==
    /\ request[r] = NoRequest
    /\ u \in Members
    /\ request' = [request EXCEPT ![r].pc = "asking", ![r].user = u]
    /\ UNCHANGED <<accounts, accepted, expense, lastId>>

\* Payer and participants are looked up in the directory of members.
CheckAdd(r, row) ==
    /\ request[r].pc = "asking"
    /\ row.among \cup {row.paidBy} \subseteq Members
    /\ request' = [request EXCEPT ![r].pc = "checked", ![r].row = row]
    /\ UNCHANGED <<accounts, accepted, expense, lastId>>

\* Mutant: the id of a deleted expense is used again.
FreeId == IF Stored = Ids THEN MaxExpenses ELSE Min(Ids \ Stored)

\* BIGSERIAL.
NextId == lastId + 1

\* The INSERTs, their foreign keys, and COMMIT.
CommitAdd(r) ==
    LET q == request[r]
    IN  /\ q.pc = "checked"
        /\ lastId < MaxExpenses
        /\ {q.user, q.row.paidBy} \cup q.row.among \subseteq accounts
        /\ expense' = [expense EXCEPT ![NextId] =
                         [paidBy    |-> q.row.paidBy,
                          amount    |-> q.row.amount,
                          among     |-> q.row.among,
                          createdBy |-> q.user]]
        /\ lastId' = lastId + 1
        /\ request' = [request EXCEPT ![r] = NoRequest]
        /\ UNCHANGED <<accounts, accepted>>

\* delete_event_expense, by the organizer, the payer or the creator: what it
\* checks of the row never changes while the row exists.
DeleteExpense(x) ==
    /\ x \in Stored
    /\ expense' = [expense EXCEPT ![x] = None]
    /\ UNCHANGED <<accounts, accepted, lastId, request>>

\* get_event_expenses_summary: ensure_event_member lets the organizer pass, if
\* nobody else; the rest is the same for everybody.
StartSummary(r) ==
    /\ request[r] = NoRequest
    /\ request' = [request EXCEPT ![r].pc = "summing"]
    /\ UNCHANGED <<accounts, accepted, expense, lastId>>

\* fetch_event_expenses.
ListExpenses(r) ==
    /\ request[r].pc = "summing"
    /\ request' = [request EXCEPT ![r].pc = "listed", ![r].ids = Stored]
    /\ UNCHANGED <<accounts, accepted, expense, lastId>>

\* expense_rows.
ReadRows(r) ==
    /\ request[r].pc = "listed"
    /\ request' = [request EXCEPT
         ![r].pc = "read",
         ![r].bill = [x \in request[r].ids \cap Stored |->
                        [paidBy |-> expense[x].paidBy,
                         amount |-> expense[x].amount,
                         among  |-> {}]]]
    /\ UNCHANGED <<accounts, accepted, expense, lastId>>

\* participant_rows; the rest of the summary is computed from what was read.
ReadParticipants(r) ==
    LET bill == request[r].bill
    IN  /\ request[r].pc = "read"
        /\ request' = [request EXCEPT
             ![r].pc = "answered",
             ![r].bill = [x \in DOMAIN bill |->
                 [bill[x] EXCEPT !.among = IF x \in Stored THEN expense[x].among ELSE {}]]]
        /\ UNCHANGED <<accounts, accepted, expense, lastId>>

\* The answer is sent, the request is refused, or a statement fails.
End(r) ==
    /\ request[r] # NoRequest
    /\ request' = [request EXCEPT ![r] = NoRequest]
    /\ UNCHANGED <<accounts, accepted, expense, lastId>>

Next ==
    \/ \E u \in Users : AnswerChanges(u) \/ DeleteAccount(u)
    \/ \E x \in Ids : DeleteExpense(x)
    \/ \E r \in Requests :
          \/ \E u \in Users : StartAdd(r, u)
          \/ StartSummary(r)
          \/ \E row \in Payloads : CheckAdd(r, row)
          \/ CommitAdd(r) \/ ListExpenses(r) \/ ReadRows(r) \/ ReadParticipants(r)
          \/ End(r)

Spec == Init /\ [][Next]_vars

-----------------------------------------------------------------------------
Answered == {r \in Requests : request[r].pc = "answered"}

\* The transfers of a summary settle all that anybody owes, to the cent,
\* whatever was deleted while it was read; what remains was paid for expenses
\* whose participants, or which themselves, were deleted. They are no more than
\* it takes, and each goes from a debtor to a creditor.
TransfersClearDebts ==
    \A r \in Answered : Clears(request[r].bill) /\ Frugal(request[r].bill)

\* A summary leaves out no expense that it found and that is still there, and
\* is right about it, up to participants whose account is deleted since.
SummariesAreFaithful ==
    \A r \in Answered :
       LET q == request[r]
       IN  \A x \in q.ids \cap Stored :
              /\ x \in DOMAIN q.bill
              /\ q.bill[x].paidBy = expense[x].paidBy
              /\ q.bill[x].amount = expense[x].amount
              /\ expense[x].among = q.bill[x].among \cap accounts
=============================================================================
