CONSTANTS
    Requests = {r1, r2}
    ClockModulus = 4
    TimeoutArgs = {1}
    Nexuses = {n1, n2}
    Origins = {o1}
    Opcodes = {"RW"}
    NoObject = NoObject
    Mailboxes = 2
    Addresses = {a1, a2}
    NoAddress = NoAddress
    MaxLatency = 0
    InterruptModes = {TRUE, FALSE}
    HotToggle = FALSE
    StrayReplies = TRUE
    Forgetful = {r1, r2}
SPECIFICATION Spec
SYMMETRY RequestSymmetry
INVARIANTS AnswersMatch NoLostWakeup AddressesDistinct
