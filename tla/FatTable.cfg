\* Two copies of a table of two clusters, on the three widths of FAT.
SPECIFICATION Spec
CONSTANTS
    NumFats = 2
    Last <- MCLast
    BytesPerSector = 4
    AllBits <- Widths
    Nexts <- MCNexts
    FatSize <- MCFatSize
    Images <- MCImages
    Counters <- MCCounters
    Broken <- MCBroken
    MaxChanges = 2
INVARIANTS FreesTheChain ChangedIsDirtyWide
PROPERTIES CopiesStayAgreed SetOnlyThat FreeTracks FreeChainEnds
