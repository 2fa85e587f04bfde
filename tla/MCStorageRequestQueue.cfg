CONSTANTS
    Requests = {r1, r2}
    ClockModulus = 6
    TimeoutArgs = {0, 1, 2, 3}
SPECIFICATION QSpec
INVARIANTS HardwareRetained ExpiryExact WakeupExact
PROPERTIES CompletedIsFinal PinnedUntilStop
