CONSTANTS
    Handles = {1, 2}
    Devices = {d1, d2}
    Places = {p1, p2}
    MaxAttempts = 3
    MaxChanges = 1
SPECIFICATION Spec
INVARIANTS SlotsDistinct
PROPERTIES ValidationSound
