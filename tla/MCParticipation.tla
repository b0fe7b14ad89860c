--------------------------- MODULE MCParticipation ---------------------------
(***************************************************************************)
(* Small instances of Participation for TLC.                               *)
(***************************************************************************)
EXTENDS Participation, TLC

\* The kind of each item of an instance.
AllNeeds  == [i \in Items |-> "need"]
AllBrings == [i \in Items |-> "bring"]

\* Guests are interchangeable, and so are request slots: the model tells a user
\* from another only as Owner, and CHOOSEs a carpool only, never a user.
Symmetry == Permutations(Users \ {Owner}) \cup Permutations(Requests)
=============================================================================
