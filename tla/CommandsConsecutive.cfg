\* The docs say consecutive reserves a region that nothing else uses.
SPECIFICATION Spec
CONSTANTS
    Last <- MCLast
    Slots <- MCSlots
    Bytes <- MCBytes
    PerSector <- MCPerSector
    MaxSessions = 2
    Images <- MCImages
    Requests <- MCRequests
INVARIANTS ConsecutiveSound

CHECK_DEADLOCK FALSE
