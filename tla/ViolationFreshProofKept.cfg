SPECIFICATION Spec
CONSTANTS
    MaxObjects = 1
    MaxGeneration = 3
    MaxTick = 1
    Expiry = 1
    PinTiles = {1}
CHECK_DEADLOCK FALSE
PROPERTIES FreshProofKept
