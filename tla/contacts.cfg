SPECIFICATION Spec
CONSTANTS
    None = None
    Owner = owner
    Users = {owner, u1}
    Slots = {r1, r2}
    MaxRequests = 2
    MaxLinks = 1
INVARIANTS
    TypeOK
    BlockEndsContact
    FriendshipsWereAccepted
PROPERTIES
    
    LinkUsedOnce
SYMMETRY
    Symmetry
