----------------------------- MODULE MCExpenses -----------------------------
(***************************************************************************)
(* Small instances of Expenses for TLC.                                    *)
(***************************************************************************)
EXTENDS Expenses

\* Amounts that the participants can share evenly and amounts that they
\* cannot, payers who take part and one who does not.  Dinner and Taxi leave
\* two creditors and two debtors, of different amounts.
Dinner == [paidBy |-> 1, amount |-> 7, among |-> {1, 2, 3, 4}]
Taxi   == [paidBy |-> 2, amount |-> 3, among |-> {3, 4}]
Drinks == [paidBy |-> 3, amount |-> 4, among |-> {2, 3}]

Evening == {Dinner, Taxi, Drinks}

Symmetry == Permutations(Requests)
=============================================================================
