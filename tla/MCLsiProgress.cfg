CONSTANTS
    Requests = {r1, r2}
    ClockModulus = 4
    TimeoutArgs = {1, 3}
    Nexuses = {n1}
    Origins = {o1}
    Opcodes = {"SENSE"}
    NoObject = NoObject
    GlobalCredits = 3
    ReplyDepth = 1
    MaxContext = 2
    MaxLatency = 1
    InterruptModes = {FALSE}
    AdapterFaults = {"fault"}
    Forgetful = {r1}
SPECIFICATION FairSpec
INVARIANTS AgeUnambiguous
PROPERTIES QueueContract EventuallyCompleted
