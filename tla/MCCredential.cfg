SPECIFICATION FairSpec
CONSTANTS
    MaxObjects = 1
    MaxGeneration = 3
    MaxTick = 1
    Expiry = 0
    PinTiles = {1}
CHECK_DEADLOCK FALSE
INVARIANTS ProofSpentOnce TileInvariant ReferencesExact TouchStatusTruthful
PROPERTIES NeverFromCanceled AutomaticHonoured ImplementsAuthority
           RequestEnds ProofAnnounced OrphanDestroyed
