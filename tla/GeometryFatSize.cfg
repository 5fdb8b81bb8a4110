\* A device where the search for the size of the tables ends between two sizes.
SPECIFICATION Spec
CONSTANTS
    MaxSectors <- MCMaxSectors
    TooMany <- MCTooMany
    Devices <- OneDevice
    Clusters <- OneSize
    RootSizes <- MCRootSizes
    Resizes <- NoResize
    MaxExtra = 2000
INVARIANTS TableHoldsClusters
CHECK_DEADLOCK FALSE
