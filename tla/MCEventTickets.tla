--------------------------- MODULE MCEventTickets ---------------------------
(***************************************************************************)
(* Small instances of Events, with its tickets, for TLC.                   *)
(***************************************************************************)
EXTENDS EventTickets, TLC

\* An event on the second day, with neither deadline nor playlist.
SecondDay == [date |-> 1, time |-> 0, endDate |-> 1, endTime |-> 0, deadline |-> None,
              provider |-> None, url |-> None, features |-> {"items"}]

JustSecondDay == {SecondDay}

\* Begin a day earlier, end a day earlier: the second is valid after the first,
\* and neither goes with a replacement by the second day.
Reschedulings == {("date" :> 0), ("endDate" :> 0)}
=============================================================================
