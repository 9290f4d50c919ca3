SPECIFICATION FairSpec
CONSTANTS
    Requests = {"r1"}
    Devices = {"k1", "k2", "other"}
    Yubico = {"k1", "k2"}
    Credentials = {"a", "b", "x"}
    Holds <- MCHolds
    Enrolled <- MCEnrolledOne
    Lax = {"k2"}
    NoDevice = "none"
    NoCred = "none"
    Timeout = 3
    Probe = 2
    MaxNow = 3
PROPERTIES
    SwapIsWaitedFor
CHECK_DEADLOCK FALSE
