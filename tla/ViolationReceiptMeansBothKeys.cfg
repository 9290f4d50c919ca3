SPECIFICATION Spec
CONSTANTS
    Sessions = {s1, s2}
    Keys = {k1, k2}
    Pins = {p1, p2}
    None = none
    MaxChanges = 1
INVARIANT
    ReceiptMeansBothKeys
CHECK_DEADLOCK FALSE
