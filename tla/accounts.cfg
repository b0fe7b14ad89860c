SPECIFICATION FairSpec
CONSTANTS
    None = None
    Emails = {e1}
    Subjects = {s1}
    Apple = {s1}
    Verified <- AllVerified
    Clients = {app}
    Requests = {r1, r2}
    Workers = {w1}
    Legacy = {e1}
    MaxAccounts = 2
    MaxTokens = 2
    MaxGrants = 2
    RefreshDuringDeletion = FALSE
INVARIANTS
    AccountsInv
    LinkOpensOneAccount
    TokensAccountedFor
PROPERTIES
    DeletedWithRevocation
    RevokedInTheEnd
CHECK_DEADLOCK
    FALSE
