------------------------------- MODULE MCPolls -------------------------------
(***************************************************************************)
(* Small instances of PollViews for TLC.                                   *)
(***************************************************************************)
EXTENDS PollViews

\* Every ballot, the empty one included, which takes the votes back.
AllBallots == SUBSET Options
=============================================================================
