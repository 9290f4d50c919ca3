SPECIFICATION FairSpec
CONSTANTS
    Requests = {"r1", "r2"}
    Devices = {"k1", "k2", "other"}
    Yubico = {"k1", "k2"}
    Credentials = {"a", "b", "x"}
    Holds <- MCHolds
    Enrolled <- MCEnrolled
    Lax = {"k2"}
    NoDevice = "none"
    NoCred = "none"
    Timeout = 3
    Probe = 2
    MaxNow = 4
INVARIANTS
    WithinDeadline
    ProofIsOfSelectedProfile
PROPERTIES
    CallEnds
CHECK_DEADLOCK FALSE
