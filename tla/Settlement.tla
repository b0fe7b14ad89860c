----------------------------- MODULE Settlement -----------------------------
(***************************************************************************)
(* The summary of shared expenses, as functions of what it read: who owes  *)
(* how much, and the transfers it suggests.                                *)
(*                                                                         *)
(* A bill maps the ids of expenses to records of payer, amount in cents    *)
(* and participants.  Users are numbered, as their ids decide who pays the *)
(* cents that cannot be shared.                                            *)
(***************************************************************************)
EXTENDS Integers, SequencesExt, FiniteSetsExt

CONSTANT Users

ASSUME UsersAssumption == Users \subseteq Nat /\ IsFiniteSet(Users)

\* Mutant: one participant too many pays a cent more.
ShareWithExtraCent(e, u) ==
    LET n == Cardinality(e.among)
    IN  e.amount \div n
          + IF Cardinality({v \in e.among : v < u}) <= e.amount % n THEN 1 ELSE 0

\* What the participant u of the expense e owes.
Share(e, u) ==
    LET n == Cardinality(e.among)
    IN  e.amount \div n
          + IF Cardinality({v \in e.among : v < u}) < e.amount % n THEN 1 ELSE 0

Paid(bill, u) ==
    LET paid == {x \in DOMAIN bill : bill[x].paidBy = u}
    IN  SumFunction([x \in paid |-> bill[x].amount])

Owed(bill, u) ==
    LET owed == {x \in DOMAIN bill : u \in bill[x].among}
    IN  SumFunction([x \in owed |-> Share(bill[x], u)])

Balance(bill, u) == Paid(bill, u) - Owed(bill, u)

\* The users us, highest balance first, with what is open.
Ranking(bill, us) ==
    LET Above(u, v) == \/ Balance(bill, u) > Balance(bill, v)
                       \/ Balance(bill, u) = Balance(bill, v) /\ u < v
        ranked == CHOOSE s \in [1..Cardinality(us) -> us] :
                     \A i, j \in DOMAIN s : i < j => Above(s[i], s[j])
    IN  [i \in DOMAIN ranked |->
            [user |-> ranked[i], open |-> Max({Balance(bill, ranked[i]),
                                              -Balance(bill, ranked[i])})]]

Creditors(bill) == Ranking(bill, {u \in Users : Balance(bill, u) > 0})
Debtors(bill)   == Ranking(bill, {u \in Users : Balance(bill, u) < 0})

\* The list without what its head has paid or received.
Less(list, amount) ==
    IF Head(list).open = amount THEN Tail(list)
                                ELSE [list EXCEPT ![1].open = @ - amount]

\* The first debtor pays the first creditor as much as one owes or the other
\* is owed.
Pay(s) ==
    LET amount == Min({Head(s.creditors).open, Head(s.debtors).open})
    IN  [creditors |-> Less(s.creditors, amount),
         debtors   |-> Less(s.debtors, amount),
         transfers |-> Append(s.transfers, [from   |-> Head(s.debtors).user,
                                            to     |-> Head(s.creditors).user,
                                            amount |-> amount])]

\* As long as there are creditors and debtors; every turn crosses one off.
Transfers(bill) ==
    LET start == [creditors |-> Creditors(bill),
                  debtors   |-> Debtors(bill),
                  transfers |-> <<>>]
        after[n \in Nat] ==
            IF n = 0 THEN start
            ELSE LET s == after[n - 1]
                 IN  IF s.creditors = <<>> \/ s.debtors = <<>> THEN s ELSE Pay(s)
    IN  after[Len(start.creditors) + Len(start.debtors)].transfers

-----------------------------------------------------------------------------
\* What u is owed once the transfers are made; negative when u still owes.
Remainder(bill, transfers, u) ==
    LET amount == [i \in DOMAIN transfers |-> transfers[i].amount]
    IN  Balance(bill, u)
          + SumFunctionOnSet(amount, {i \in DOMAIN transfers : transfers[i].from = u})
          - SumFunctionOnSet(amount, {i \in DOMAIN transfers : transfers[i].to = u})

\* Nobody owes anything any more, and what is still owed to somebody is what
\* was paid for expenses that came without participants.
Clears(bill) ==
    LET transfers == Transfers(bill)
        unshared  == {x \in DOMAIN bill : bill[x].among = {}}
    IN  /\ \A u \in Users : Remainder(bill, transfers, u) >= 0
        /\ SumFunction([u \in Users |-> Remainder(bill, transfers, u)])
             = SumFunction([x \in unshared |-> bill[x].amount])

\* Every transfer moves money, from a debtor to a creditor, and there are
\* fewer of them than people with an open balance.
Frugal(bill) ==
    LET ts     == Transfers(bill)
        people == {u \in Users : Balance(bill, u) # 0}
    IN  /\ \A i \in DOMAIN ts : /\ ts[i].amount > 0
                                /\ Balance(bill, ts[i].from) < 0
                                /\ Balance(bill, ts[i].to) > 0
        /\ people # {} => Len(ts) < Cardinality(people)
=============================================================================
