CONSTANTS
    Requests = {r1, r2, r3}
    ClockModulus = 4
    TimeoutArgs = {1}
    Nexuses = {n1, n2}
    Origins = {o1}
    Opcodes = {"RW"}
    NoObject = NoObject
    GlobalCredits = 3
    ReplyDepth = 2
    MaxContext = 2
    MaxLatency = 0
    InterruptModes = {TRUE, FALSE}
    AdapterFaults = {"stray", "fault"}
    Forgetful = {}
SPECIFICATION Spec
SYMMETRY RequestSymmetry
INVARIANTS NoLostWakeup FailedMeansFinished ContextsUnique RepliesMatch FramesSuffice
PROPERTIES NexusFifo
