SPECIFICATION Spec
CONSTANTS
    MaxBridges = 4
    MaxPins = 3
    MaxGeneration = 6
    ProviderLimit = 2
    Pumps = {"create", "scenario", "advise", "users", "enumerate", "connect",
             "select", "fields", "set", "get", "clear", "clearFailed",
             "teardown"}
INVARIANTS
    NothingLeftBehind
    PinOfferedOnce
    BridgeOutlivesCall
    BridgeKeptForResult
    StuckIsCanceled
PROPERTIES
    FilterOnlyHides
