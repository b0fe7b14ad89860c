------------------------ MODULE MCNotificationOutbox ------------------------
(***************************************************************************)
(* Small instances of NotificationOutbox for TLC.                          *)
(***************************************************************************)
EXTENDS NotificationOutbox, TLC

\* Every constant is given by outbox.cfg. Workers are not a symmetry set there:
\* the run checks liveness.
=============================================================================
