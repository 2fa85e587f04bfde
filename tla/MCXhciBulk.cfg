CONSTANTS
    Size = 4
    Items = {b1}
    NoItem = NoItem
    Endpoints = {e1}
    InEndpoints = {e1}
    TrbLen = 1
    MaxTrbs = 4
    MaxControl = 1
    BehindTT = TRUE
SPECIFICATION FairBulkSpec
INVARIANTS OnlyPendingExecuted LengthExact
PROPERTIES ImplementsQueue ImplementsPipe TransferSettles
CHECK_DEADLOCK FALSE
