------------------------------ MODULE DoorList ------------------------------
(***************************************************************************)
(* What the tickets of an event promise: a list at the door on which each  *)
(* guest is ticked off once, for as long as the event is kept.             *)
(***************************************************************************)
CONSTANT Guests

VARIABLES
    kept,  \* whether the event, and with it the list, is kept
    came   \* the guests who are ticked off

list == <<kept, came>>

Init ==
    /\ kept = TRUE
    /\ came = {}

\* A guest who is not ticked off comes in.
TickOff(g) ==
    /\ kept
    /\ g \notin came
    /\ came' = came \cup {g}
    /\ UNCHANGED kept

\* The list goes with its event.
Discard ==
    /\ kept
    /\ kept' = FALSE
    /\ came' = {}

Next == Discard \/ \E g \in Guests : TickOff(g)

Spec == Init /\ [][Next]_list
=============================================================================
