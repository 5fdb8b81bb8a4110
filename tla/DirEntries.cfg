\* Files created and deleted in a directory of up to four clusters.
SPECIFICATION Spec
CONSTANTS
    short = short
    long = long
    longer = longer
    Names <- MCNames
    Parts <- MCParts
    Stem <- MCStem
    Slots = 2
    Clusters <- MCClusters
    MaxFiles = 3
    FixedRoots <- MCFixed
    BadReads <- MCBadReads
INVARIANTS ClustersKept FilesKept NothingAfterEnd
PROPERTIES SearchEnds
