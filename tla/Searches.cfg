\* The searches of an area, from any cluster and in any area of it.
SPECIFICATION SearchesSpec
CONSTANTS
    Last <- MCLast
    MaxLength <- MCMaxLength
    Tables <- MCTables
INVARIANTS LongestFirst
PROPERTIES FoundInArea NearestFound CountsRight MostFreeBest
