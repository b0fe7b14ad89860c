SPECIFICATION Spec
CONSTANTS
    None = None
    PasswordAtFirst = TRUE
    Devices = {d1}
    Requests = {r1, r2}
    MaxIssued = 3
    MaxEras = 1
    MaxLinks = 1
    MaxTicks = 1
INVARIANTS
    TypeOK
    ProofsAreCurrent
    DeviceKeepsItsSession
    LogoutEndsSession
    SignedOutStaysOut
SYMMETRY
    Symmetry
CHECK_DEADLOCK
    FALSE
