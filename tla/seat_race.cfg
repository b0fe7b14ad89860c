SPECIFICATION Spec
CONSTANTS
    None = None
    Users = {o, a, b}
    Owner = o
    CarpoolIds = {c1}
    Items = {}
    Kind <- AllNeeds
    Requests = {r1, r2}
    MaxSeats = 2
    MaxQty = 1
    OneRequestPerUser = FALSE
    EventChanges = FALSE
INVARIANT
    SeatsCoverPassengers
SYMMETRY
    Symmetry
