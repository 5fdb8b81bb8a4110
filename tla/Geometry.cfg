\* Formatting, opening and resizing filesystems about the boundaries of
\* their types.  The programs end: nothing is left to do when a device is refused.
SPECIFICATION Spec
CONSTANTS
    MaxSectors <- MCMaxSectors
    TooMany <- MCTooMany
    Devices <- MCDevices
    Clusters <- MCClusters
    RootSizes <- MCRootSizes
    Resizes <- MCResizes
    MaxExtra = 2000
INVARIANTS FormatSound ResizeExact
PROPERTY SizingEnds
CHECK_DEADLOCK FALSE
