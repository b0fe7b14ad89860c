SPECIFICATION Spec
CONSTANTS
    None = None
    Users = {1, 2, 3, 4}
    Owner = 1
    Payloads <- Evening
    Requests = {r1, r2}
    MaxExpenses = 2
INVARIANTS
    TransfersClearDebts
    SummariesAreFaithful
SYMMETRY
    Symmetry
