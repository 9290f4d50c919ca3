SPECIFICATION RecoverSpec
CONSTANTS
    Installs = {"C", "D"}
    Letters = {"E"}
    MaxSticks = 2
    MaxKeys = 2
    Pairers = {1, 2}
    Legacy = {"D"}
    ProviderLimit = 2
INVARIANTS
    VerifierHasCredential
    ReportedPairingIsDurable
    RestrictedIsRecoverable
    RegisteredFilterHides
    SuccessIsDurable
PROPERTIES
    PairingNotReplaced
    TargetTouchedOnlyAuthorized
