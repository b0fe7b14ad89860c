SPECIFICATION FairSpec
CONSTANTS
    None = None
    Editors = {e1, e2}
    Dates = {0, 1}
    DayLength = 1
    Horizon = 2
    CleanupDays = 0
    Providers = {spotify}
    Patches <- Reschedulings
    Replacements <- JustSecondDay
    Guests = {g}
    Requests = {r1, r2}
    MaxTokens = 2
INVARIANTS
    TypeOK
    
    HiddenStaysHidden
    LetInOnce
PROPERTIES
    ImplementsDoorList
    EventsEnd
CHECK_DEADLOCK
    FALSE
