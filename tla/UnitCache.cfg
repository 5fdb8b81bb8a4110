\* Every operation of the cache; a write may fail anywhere, a read on n1.
SPECIFICATION Spec
CONSTANTS
    Numbers = {n1, n2}
    Units = {u1, u2, u3}
    Data = {a, b}
    Garbage = Garbage
    NoData = NoData
    NoUnit = NoUnit
    NoNumber = NoNumber
    Holders = {h1, h2}
    ReadErrors = {n1}
    WriteErrors = {n1, n2}
    OverReferred = FALSE
SYMMETRY Symmetry
INVARIANTS TypeOK CacheKeyed CleanAgrees PinnedStays
PROPERTIES ImplementsStore
