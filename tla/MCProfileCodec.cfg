SPECIFICATION Spec
CONSTANTS
    StringLimit = 2
    CredentialMin = 1
    CredentialLimit = 2
    CipherLimit = 2
    BindingLimit = 12
    RecordLimit = 18
    MultiLimit = 53
    KeyLimit = 3
    Sids <- MCSids
    Accounts <- MCAccounts
    Cells <- MCCells
    Profiles <- MCProfiles
    MaxEdits = 2
CHECK_DEADLOCK FALSE
INVARIANTS
    SavedProfileLoads
    AcceptedIsCanonical
