CONSTANTS
    Requests = {r1, r2, r3}
    ClockModulus = 4
    TimeoutArgs = {1}
    Nexuses = {n1}
    Origins = {o1, o2}
    Opcodes = {"INQUIRY", "SENSE"}
    NoObject = NoObject
    ClockBound = 1
    ClockLoad = 1
SPECIFICATION MCSpec
SYMMETRY RequestSymmetry
INVARIANTS DmaSafe NoDmaLeak OneObjectPerNexus SenseReportedOnce UntaggedExclusive
CHECK_DEADLOCK FALSE
