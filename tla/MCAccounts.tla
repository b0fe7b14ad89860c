----------------------------- MODULE MCAccounts -----------------------------
(***************************************************************************)
(* Small instances of Accounts for TLC.                                    *)
(***************************************************************************)
EXTENDS Accounts

\* What the providers assert of each subject: an address, or none at later
\* sign-ins, as Apple does.
AllVerified == [s \in Subjects |-> Emails \cup {None}]
=============================================================================
