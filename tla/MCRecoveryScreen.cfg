SPECIFICATION FairScreenSpec
CONSTANTS
    Installs = {"C", "D"}
    Letters = {"E", "F"}
    MaxSticks = 1
    MaxKeys = 1
    Pairers = {}
    Legacy = {}
    ProviderLimit = 0
INVARIANTS
    CompleteIsTrue
    RestoreWasChecked
PROPERTIES
    NeverLeavesWhileWorking
    ScreenComesBack
