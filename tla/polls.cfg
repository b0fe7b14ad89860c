SPECIFICATION FairSpec
CONSTANTS
    None = None
    Users = {o, a}
    Owner = o
    Admins = {a}
    Options = {x, y}
    Choices <- AllBallots
    Requests = {r1, r2}
    MaxPolls = 1
    Viewers = {a}
    Together = 1
INVARIANTS
    PollsInv
    HeardAllIsCurrent
PROPERTIES
    ImplementsBallotBox
    ViewersCatchUp
CHECK_DEADLOCK
    FALSE
