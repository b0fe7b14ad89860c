---------------------------- MODULE CarpoolBoard ----------------------------
(***************************************************************************)
(* What the carpools of an event promise, without requests, locks or       *)
(* counters: a board of rides on which a user has at most one place, and   *)
(* no ride has more riders than seats.                                     *)
(***************************************************************************)
EXTENDS Integers, FiniteSets

CONSTANTS
    Users,     \* who may offer a ride or take one
    Carpools,  \* the rides that may be offered
    Seats,     \* the numbers of seats a driver may offer
    None       \* nobody

VARIABLES
    driver,    \* who offers each ride, None when it is not offered
    capacity,  \* seats offered
    riders     \* who rides along

board == <<driver, capacity, riders>>

Init ==
    /\ driver = [c \in Carpools |-> None]
    /\ capacity = [c \in Carpools |-> 0]
    /\ riders = [c \in Carpools |-> {}]

HasNoPlace(u) == \A c \in Carpools : driver[c] # u /\ u \notin riders[c]

\* A user without a place offers a new ride with n seats.
Offer(u, c, n) ==
    /\ HasNoPlace(u)
    /\ driver[c] = None
    /\ driver' = [driver EXCEPT ![c] = u]
    /\ capacity' = [capacity EXCEPT ![c] = n]
    /\ UNCHANGED riders

\* A user without a place takes a free seat.
Ride(u, c) ==
    /\ HasNoPlace(u)
    /\ driver[c] # None
    /\ Cardinality(riders[c]) < capacity[c]
    /\ riders' = [riders EXCEPT ![c] = @ \cup {u}]
    /\ UNCHANGED <<driver, capacity>>

\* The driver offers another number of seats, enough for the riders.
Resize(c, n) ==
    /\ driver[c] # None
    /\ Cardinality(riders[c]) <= n
    /\ capacity' = [capacity EXCEPT ![c] = n]
    /\ UNCHANGED <<driver, riders>>

\* A rider gets off.
StepOff(u, c) ==
    /\ u \in riders[c]
    /\ riders' = [riders EXCEPT ![c] = @ \ {u}]
    /\ UNCHANGED <<driver, capacity>>

\* A ride is called off, for all its riders at once.
CallOff(c) ==
    /\ driver[c] # None
    /\ driver' = [driver EXCEPT ![c] = None]
    /\ capacity' = [capacity EXCEPT ![c] = 0]
    /\ riders' = [riders EXCEPT ![c] = {}]

Next ==
    \E c \in Carpools :
        \/ CallOff(c)
        \/ \E u \in Users : Ride(u, c) \/ StepOff(u, c)
        \/ \E n \in Seats : Resize(c, n) \/ \E u \in Users : Offer(u, c, n)

Spec == Init /\ [][Next]_board
=============================================================================
