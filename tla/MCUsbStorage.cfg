CONSTANTS
    Items = {"cbw", "data", "csw"}
    NoItem = NoItem
    Endpoints = {"in", "out"}
    InEndpoints = {"in"}
    Sizes = {1}
    Requests = {"GetMaxLun", "ClearHalt", "Reset"}
    MaxControl = 4
    MaxChunks = 2
    MaxAborts = 1
    kMaxCapacityRetries = 1
SPECIFICATION FairStorageSpec
INVARIANTS FinishedIsQuiet OkMeansServed
PROPERTIES CommandFinishes BringUpCompletes
CHECK_DEADLOCK FALSE
