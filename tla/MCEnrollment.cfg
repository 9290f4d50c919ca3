SPECIFICATION InstallSpec
CONSTANTS
    Sessions = {s1, s2}
    Keys = {k1, k2}
    Pins = {p1, p2}
    None = none
    MaxChanges = 1
INVARIANTS
    SaveIsAtomic
    EitherKeyUnlocks
    RegisteredCanSignIn
    ReceiptDescribesProfile
PROPERTIES
    FirstProfileStays
CHECK_DEADLOCK FALSE
