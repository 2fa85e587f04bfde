CONSTANTS
    Requests = {r1, r2}
    ClockModulus = 4
    TimeoutArgs = {1}
    Nexuses = {n1}
    Origins = {o1}
    Opcodes = {"INQUIRY"}
    NoObject = NoObject
    Mailboxes = 1
    Addresses = {a1, a2}
    NoAddress = NoAddress
    MaxLatency = 1
    InterruptModes = {FALSE}
    HotToggle = TRUE
    StrayReplies = FALSE
    Forgetful = {}
SPECIFICATION FairSpec
INVARIANTS ActiveCountExact MailboxesSuffice
PROPERTIES EventuallyCompleted
