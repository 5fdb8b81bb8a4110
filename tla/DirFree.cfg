\* The entries that are given to a new file are free, or so the manual says.
SPECIFICATION Spec
CONSTANTS
    short = short
    long = long
    longer = longer
    Names <- MCNames
    Parts <- MCParts
    Stem <- MCStem
    Slots = 2
    Clusters <- MCClusters
    MaxFiles = 3
    FixedRoots <- MCFixed
    BadReads <- NoBadReads
INVARIANT FreeIsFree
