------------------------------- MODULE Events -------------------------------
(***************************************************************************)
(* One event: how its row is edited, put in the trash, restored, hidden by *)
(* moderation and purged.                                                  *)
(*                                                                         *)
(* PUT and PATCH check first and write last, in statements of their own:   *)
(* the UPDATE of a PATCH sets the columns its payload names, and always    *)
(* the features it derived from the row it read.  What two edits make of a *)
(* row is up to the CHECK constraints of the table.                        *)
(*                                                                         *)
(* Of the columns, the schedule, the playlist and the features are         *)
(* modelled.  Instants are integers, DayLength of them to a day, in the    *)
(* event's time zone.  A playlist link stands for the provider whose       *)
(* pattern it matches.                                                     *)
(*                                                                         *)
(* The notices that members get of an edit are NotificationOutbox's.       *)
(***************************************************************************)
EXTENDS Integers

CONSTANTS
    None,          \* SQL's NULL
    Editors,       \* requests of the organizer or an administrator
    Dates,         \* dates of schedules
    DayLength,     \* instants of a day
    Horizon,       \* bound on the clock
    CleanupDays,   \* days after its end when an event goes to the trash
    Providers,     \* playlist providers
    Patches,       \* payloads of PATCH: columns and their new values
    Replacements   \* payloads of POST and PUT: values for every column

Times    == 0..(DayLength - 1)
Features == {"items", "playlist"}

Values == [date     |-> Dates,
           time     |-> Times,
           endDate  |-> Dates \cup {None},
           endTime  |-> Times \cup {None},
           deadline |-> Dates \cup {None},
           provider |-> Providers \cup {None},
           url      |-> Providers \cup {None},
           features |-> SUBSET Features]

Columns == DOMAIN Values

\* Values for the columns that s names.
Setting(s) == DOMAIN s \subseteq Columns /\ \A c \in DOMAIN s : s[c] \in Values[c]

ASSUME EventsAssumption ==
    /\ Dates \subseteq Nat
    /\ DayLength \in Nat \ {0}
    /\ Horizon \in Nat
    /\ CleanupDays \in Nat
    /\ None \notin Dates \cup Times
    /\ None \notin Providers
    /\ \A p \in Patches : Setting(p)
    /\ \A r \in Replacements : Setting(r) /\ DOMAIN r = Columns

VARIABLES
    now,      \* the clock
    column,   \* the columns of the event's row
    trash,    \* deletion_reason; "no" without one, "purged" without a row
    purge,    \* purge_at: "none", "ahead" or "due"
    hidden,   \* moderation_hidden
    edit      \* PUT and PATCH requests

eventVars == <<now, column, trash, purge, hidden, edit>>

Reasons == {"owner", "retention", "moderation"}

NoEdit == [pc |-> "idle", set |-> [c \in {} |-> None]]

EventTypeOK ==
    /\ now \in 0..Horizon
    /\ Setting(column) /\ DOMAIN column = Columns
    /\ trash \in Reasons \cup {"no", "purged"}
    /\ purge \in {"none", "ahead", "due"}
    /\ hidden \in BOOLEAN
    /\ DOMAIN edit = Editors
    /\ \A e \in Editors :
          /\ DOMAIN edit[e] = {"pc", "set"}
          /\ edit[e].pc \in {"idle", "checked", "ready"}
          /\ Setting(edit[e].set)

-----------------------------------------------------------------------------
Instant(d, t) == d * DayLength + t
Today         == now \div DayLength

\* fiestaaa_sync_event_instants keeps both in step with the schedule.
StartsAt(c) == Instant(c.date, c.time)
EndsAt(c)   == IF c.endDate # None /\ c.endTime # None
               THEN Instant(c.endDate, c.endTime)
               ELSE Instant(c.date + 1, 0)

\* The end is after the start, and its date and time come together.
ScheduleOK(c) ==
    \/ c.endDate = None /\ c.endTime = None
    \/ /\ c.endDate # None /\ c.endTime # None
       /\ StartsAt(c) <= Instant(c.endDate, c.endTime)

\* The deadline is not after the day of the event.
DeadlineInTime(c) == c.deadline # None => c.deadline <= c.date

DeadlineOK(c) == DeadlineInTime(c) /\ (c.deadline # None => Today <= c.deadline)

HasPlaylist(c) == c.provider # None /\ c.url # None

\* Provider and link come together, and the link is one of the provider's.
PlaylistOK(c) == c.provider = c.url

FeaturesOK(c) == "playlist" \in c.features => HasPlaylist(c)

\* What the handlers validate before they write.
Valid(c) == ScheduleOK(c) /\ DeadlineOK(c) /\ PlaylistOK(c) /\ FeaturesOK(c)

\* A CHECK that is NULL passes, as the playlist's is without a provider.
PlaylistStorable(c) == c.url = None => c.provider = None

\* Mutant: the table has no constraint on schedules.
UnconstrainedSchedule(c) == PlaylistStorable(c)

\* The CHECK constraints of the table.
Storable(c) ==
    /\ ScheduleOK(c)
    /\ DeadlineInTime(c)
    /\ StartsAt(c) <= EndsAt(c)
    /\ PlaylistStorable(c)

\* The row c, with the columns that s names set to it.
Merge(s, c) == [k \in Columns |-> IF k \in DOMAIN s THEN s[k] ELSE c[k]]

-----------------------------------------------------------------------------
\* The event has just been created.
EventInit ==
    /\ now = 0
    /\ column \in {r \in Replacements : Valid(r) /\ Storable(r)}
    /\ trash = "no"
    /\ purge = "none"
    /\ hidden = FALSE
    /\ edit = [e \in Editors |-> NoEdit]

Exists   == trash # "purged"
Listed   == trash = "no"
Writable == Listed /\ now <= EndsAt(column)
Stale    == EndsAt(column) + CleanupDays * DayLength < now

Tick ==
    /\ now < Horizon
    /\ now' = now + 1
    /\ UNCHANGED <<column, trash, purge, hidden, edit>>

\* replace_event and update_event: ensure_event_owner, ensure_event_writable.
StartEdit(e) ==
    /\ edit[e] = NoEdit
    /\ Writable
    /\ edit' = [edit EXCEPT ![e].pc = "checked"]
    /\ UNCHANGED <<now, column, trash, purge, hidden>>

\* replace_event validates its payload, and will write every column.
CheckReplacement(e, r) ==
    /\ edit[e].pc = "checked"
    /\ edit' = [edit EXCEPT ![e] =
                  IF Valid(r) THEN [pc |-> "ready", set |-> r] ELSE NoEdit]
    /\ UNCHANGED <<now, column, trash, purge, hidden>>

\* sync_optional_features, unless the payload asks for features.
Target(p) ==
    LET merged == Merge(p, column)
        synced == IF HasPlaylist(merged) THEN merged.features \cup {"playlist"}
                                         ELSE merged.features \ {"playlist"}
    IN  [merged EXCEPT !.features = IF "features" \in DOMAIN p THEN @ ELSE synced]

\* A PATCH may clear the provider and the link of a playlist, but not one.
ClearsHalf(p) ==
    LET Clears(c) == c \in DOMAIN p /\ p[c] = None
    IN  Clears("provider") # Clears("url")

\* update_event reads the row and validates what it would become.
CheckPatch(e, p) ==
    /\ edit[e].pc = "checked"
    /\ edit' = [edit EXCEPT ![e] =
          IF Exists /\ ~ClearsHalf(p) /\ Valid(Target(p))
          THEN [pc  |-> "ready",
                set |-> [c \in DOMAIN p \cup {"features"} |-> Target(p)[c]]]
          ELSE NoEdit]
    /\ UNCHANGED <<now, column, trash, purge, hidden>>

\* Their UPDATE: WHERE event_id only. It fails on a constraint.
CommitEdit(e) ==
    /\ edit[e].pc = "ready"
    /\ edit' = [edit EXCEPT ![e] = NoEdit]
    /\ column' = IF Exists /\ Storable(Merge(edit[e].set, column))
                 THEN Merge(edit[e].set, column)
                 ELSE column
    /\ UNCHANGED <<now, trash, purge, hidden>>

\* A lookup finds nothing, the text is refused, or the database is away.
FailEdit(e) ==
    /\ edit[e] # NoEdit
    /\ edit' = [edit EXCEPT ![e] = NoEdit]
    /\ UNCHANGED <<now, column, trash, purge, hidden>>

-----------------------------------------------------------------------------
\* delete_event, WHERE deleted_at IS NULL.
DeleteEvent ==
    /\ Listed
    /\ trash' = "owner"
    /\ purge' = "ahead"
    /\ UNCHANGED <<now, column, hidden, edit>>

\* Mutant: no trigger looks at moderation_hidden.
RestorableHidden == Exists /\ ~Listed

\* WHERE deleted_at IS NOT NULL, and the trigger's content_hidden.
Restorable == Exists /\ ~Listed /\ ~hidden

\* restore_event.
RestoreEvent ==
    /\ Restorable
    /\ trash' = "no"
    /\ purge' = "none"
    /\ UNCHANGED <<now, column, hidden, edit>>

\* moderate: hide_event.
HideEvent ==
    /\ Exists
    /\ hidden' = TRUE
    /\ trash' = "moderation"
    /\ purge' = "none"
    /\ UNCHANGED <<now, column, edit>>

\* The clock reaches purge_at.
PurgeFallsDue ==
    /\ purge = "ahead"
    /\ purge' = "due"
    /\ UNCHANGED <<now, column, trash, hidden, edit>>

\* cleanup_expired_events, its UPDATE.
TrashStale ==
    /\ Listed
    /\ Stale
    /\ trash' = "retention"
    /\ purge' = "ahead"
    /\ UNCHANGED <<now, column, hidden, edit>>

\* Mutant: the cleanup purges what itself put in the trash, and no more.
PurgeableByRetention == purge = "due" /\ trash = "retention"

\* WHERE purge_at <= NOW().
Purgeable == purge = "due"

\* cleanup_expired_events, its DELETE.
PurgeEvent ==
    /\ Purgeable
    /\ trash' = "purged"
    /\ purge' = "none"
    /\ UNCHANGED <<now, column, hidden, edit>>

EditStep(e) ==
    \/ StartEdit(e)
    \/ \E r \in Replacements : CheckReplacement(e, r)
    \/ \E p \in Patches : CheckPatch(e, p)
    \/ CommitEdit(e)
    \/ FailEdit(e)

\* The steps that leave the row in its table.
RowStep ==
    \/ Tick \/ DeleteEvent \/ RestoreEvent \/ HideEvent
    \/ PurgeFallsDue \/ TrashStale
    \/ \E e \in Editors : EditStep(e)

-----------------------------------------------------------------------------
\* Whatever two edits interleave, and whatever either of them read, the end of
\* an event is complete and not before its start, and its deadline not after it.
ScheduleInOrder == ScheduleOK(column) /\ DeadlineInTime(column)

\* What moderation hides stays hidden and stays stored: its owner does not
\* restore it, and no cleanup trashes it anew or purges it.
HiddenStaysHidden == hidden => trash = "moderation" /\ purge = "none"
=============================================================================
