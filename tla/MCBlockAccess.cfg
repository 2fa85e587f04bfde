CONSTANTS
    BlockSize = 3
    TotalBlocks = 4
    SliceAddress = 1
    MaxTransfer = 2
    MaxLength = 9
    MaxCalls = 2
SPECIFICATION Spec
INVARIANTS CountIsTrue ShortOnlyOnFailure
PROPERTIES OnlyRequested CallsReturn
CHECK_DEADLOCK FALSE
