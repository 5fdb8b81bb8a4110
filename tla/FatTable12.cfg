\* FAT12, where the entry of cluster 2 is in two sectors: is the second one
\* written when the entry changes?
SPECIFICATION Spec
CONSTANTS
    NumFats = 2
    Last <- MCLast
    BytesPerSector = 4
    AllBits <- FAT12
    Nexts <- MCNexts
    FatSize <- MCFatSize
    Images <- MCImages
    Counters <- MCCounters
    Broken <- MCBroken
    MaxChanges = 2
INVARIANT ChangedIsDirty
