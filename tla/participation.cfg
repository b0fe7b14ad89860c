SPECIFICATION Spec
CONSTANTS
    None = None
    Users = {o, a}
    Owner = o
    CarpoolIds = {c1}
    Items = {i1}
    Kind <- AllBrings
    Requests = {r1, r2}
    MaxSeats = 1
    MaxQty = 2
    OneRequestPerUser = TRUE
    EventChanges = FALSE
INVARIANTS
    TypeOK
    
    TotalsMatchPromises
SYMMETRY
    Symmetry
