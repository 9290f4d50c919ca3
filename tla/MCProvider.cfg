SPECIFICATION PSpec
CONSTANTS
    MaxObjects = 2
    MaxGeneration = 2
    MaxTick = 0
    Expiry = 1
    PinTiles = {1}
    MaxUsers = 1
CHECK_DEADLOCK FALSE
INVARIANTS ListMatchesConfiguration TilesFollowSink NoThreadInUnloadedModule
