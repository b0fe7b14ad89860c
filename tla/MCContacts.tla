----------------------------- MODULE MCContacts -----------------------------
(***************************************************************************)
(* Small instances of Contacts for TLC.                                    *)
(***************************************************************************)
EXTENDS Contacts, TLC

\* Slots are interchangeable.
Symmetry == Permutations(Slots)
=============================================================================
