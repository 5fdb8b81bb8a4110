\* Two commands of fattool, one after the other.
SPECIFICATION Spec
CONSTANTS
    Last <- MCLast
    Slots <- MCSlots
    Bytes <- MCBytes
    PerSector <- MCPerSector
    MaxSessions = 2
    Images <- MCImages
    Requests <- MCRequests
INVARIANTS OthersKept SoundKept ExitHarmless CreationSound AsAsked
PROPERTIES CommandEnds
CHECK_DEADLOCK FALSE
