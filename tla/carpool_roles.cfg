SPECIFICATION Spec
CONSTANTS
    None = None
    Users = {o, a}
    Owner = o
    CarpoolIds = {c1, c2}
    Items = {}
    Kind <- AllNeeds
    Requests = {r1, r2}
    MaxSeats = 1
    MaxQty = 1
    OneRequestPerUser = FALSE
    EventChanges = TRUE
INVARIANT
    OneRolePerUser
SYMMETRY
    Symmetry
