\* Defragmenting, and linearizing a directory and a file.
SPECIFICATION Spec
CONSTANTS
    rootdir = rootdir
    d1 = d1
    d2 = d2
    subdir = subdir
    a1 = a1
    a2 = a2
    b1 = b1
    NoUnit = NoUnit
    Units <- MCUnits
    Last <- MCLast
    Slots = 3
    Roots <- MCRoots
    BadReads <- MCBadReads
    BadWrites <- MCBadWrites
    Requests <- MCRequests
    Signals = TRUE
CHECK_DEADLOCK FALSE
INVARIANTS UsageCounted InverseExact Linearized FilesUnchanged
PROPERTY Termination
