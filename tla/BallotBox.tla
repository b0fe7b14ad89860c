------------------------------ MODULE BallotBox ------------------------------
(***************************************************************************)
(* What polls promise: voters come to a box one after the other, each      *)
(* replaces its ballot as a whole or leaves it as it was, a box that is    *)
(* closed takes the ballot of whoever stands before it and no other, and   *)
(* one that is removed does not come back.                                 *)
(***************************************************************************)
CONSTANTS Users, Boxes, Options

VARIABLES
    people,     \* those who have an account
    kind,       \* of each box: none yet, single or multiple choice, or gone
    open,       \* boxes that take new voters
    atBox,      \* the voter before each box, as a set
    ballot      \* options each user has chosen at each box

vars == <<people, kind, open, atBox, ballot>>

AtMostOne(S) == \A x, y \in S : x = y
Stands(b)    == kind[b] \in {"single", "multiple"}

Init ==
    /\ people = Users
    /\ kind = [b \in Boxes |-> "none"]
    /\ open = {}
    /\ atBox = [b \in Boxes |-> {}]
    /\ ballot = [b \in Boxes |-> [u \in Users |-> {}]]

SetUp(b) ==
    /\ kind[b] = "none"
    /\ \E k \in {"single", "multiple"} : kind' = [kind EXCEPT ![b] = k]
    /\ open' = open \cup {b}
    /\ UNCHANGED <<people, atBox, ballot>>

StepUp(b, u) ==
    /\ Stands(b)
    /\ b \in open
    /\ atBox[b] = {}
    /\ atBox' = [atBox EXCEPT ![b] = {u}]
    /\ UNCHANGED <<people, kind, open, ballot>>

\* Only people may have a ballot in the box; anyone may take its own out.
Cast(b, u) ==
    /\ atBox[b] = {u}
    /\ \E c \in SUBSET Options :
         /\ kind[b] = "single" => AtMostOne(c)
         /\ c # {} => u \in people
         /\ ballot' = [ballot EXCEPT ![b][u] = c]
    /\ atBox' = [atBox EXCEPT ![b] = {}]
    /\ UNCHANGED <<people, kind, open>>

Leave(b) ==
    /\ atBox' = [atBox EXCEPT ![b] = {}]
    /\ UNCHANGED <<people, kind, open, ballot>>

Close(b) ==
    /\ open' = open \ {b}
    /\ UNCHANGED <<people, kind, atBox, ballot>>

Remove(b) ==
    /\ Stands(b)
    /\ atBox[b] = {}
    /\ kind' = [kind EXCEPT ![b] = "gone"]
    /\ open' = open \ {b}
    /\ ballot' = [ballot EXCEPT ![b] = [u \in Users |-> {}]]
    /\ UNCHANGED <<people, atBox>>

Forget(u) ==
    /\ people' = people \ {u}
    /\ ballot' = [b \in Boxes |-> [ballot[b] EXCEPT ![u] = {}]]
    /\ UNCHANGED <<kind, open, atBox>>

Next ==
    \/ \E b \in Boxes : SetUp(b) \/ Leave(b) \/ Close(b) \/ Remove(b)
    \/ \E b \in Boxes, u \in Users : StepUp(b, u) \/ Cast(b, u)
    \/ \E u \in Users : Forget(u)

Spec == Init /\ [][Next]_vars
=============================================================================
