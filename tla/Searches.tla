------------------------------- MODULE Searches -------------------------------
(***************************************************************************)
(* Any program that calls the searches of an area, one after the other, on *)
(* a table that does not change; and what they are to return.              *)
(***************************************************************************)
EXTENDS AreaSearch

CONSTANTS
    Tables,       \* tables of the filesystems considered
    MaxLength     \* bound on the clusters looked for

ASSUME TablesAssumption == Tables \subseteq [Clusters -> NextValues] /\ MaxLength \in Nat

searchvars == <<table, search>>

SearchesInit == table \in Tables /\ SearchInit

(* The clusters of a chain, each with how many are before it.              *)
Following(s) ==
    LET at[k \in 0 .. Last] ==
          IF k = 0 THEN s
          ELSE IF at[k - 1] \in Clusters THEN table[at[k - 1]] ELSE FAT_EOF
    IN  at

InChain(s) == {k \in 0 .. Last : Following(s)[k] \in Clusters}

(* The longest linear part is searched for in the chain of a file: it does *)
(* not come back to a cluster, and no cluster it goes through is bad.      *)
ClosedUnder(set) == \A c \in set : table[c] \in set \cup {FAT_EOF, FAT_UNUSED}

ChainEnds(s) ==
    /\ Following(s)[Last] \notin Clusters
    /\ \E set \in SUBSET Clusters : s \in set /\ ClosedUnder(set)

(* In an area of one cluster, a search from elsewhere may go on for ever;  *)
(* several clusters in an area that goes on from the first cluster may be  *)
(* found outside of it, in use, but from where it begins.  Commands has    *)
(* what consecutive makes of that.                                         *)
AreaAllowed(b, e, s, n) ==
    /\ b # e \/ s = b
    /\ b <= e \/ n = 1 \/ s = b

AnyStart == Clusters \cup {-1}
From(s) == IF s = -1 THEN last ELSE s

CallAny ==
    /\ fn = "none" /\ result = NoResult
    /\ \/ \E b, e \in Clusters, s \in AnyStart, n \in 0 .. MaxLength :
             AreaAllowed(b, e, From(s), n) /\ CallFind(b, e, s, n)
       \/ \E b, e, s \in Clusters :
             AreaAllowed(b, e, s, 1) /\ CallAllocated(b, e, s)
       \/ \E b, e \in Clusters, one \in {0, 1} : CallAreaBad(b, e, one)
       \/ \E b, e \in Clusters : CallNumFree(b, e)
       \/ \E n \in 1 .. MaxLength : CallMostFree(n)
       \/ \E s \in Clusters : ChainEnds(s) /\ ~ Free(s) /\ CallLongest(s)
    /\ UNCHANGED table

Take ==
    /\ fn = "none" /\ result # NoResult
    /\ Taken
    /\ UNCHANGED <<table, last, fn>>

SearchesNext == CallAny \/ Searching \/ Take

SearchesSpec == SearchesInit /\ [][SearchesNext]_searchvars /\ WF_searchvars(Searching)

-----------------------------------------------------------------------------
Returning(f) == fn = f /\ fn' = "none"

(* How many clusters of the area from b on are before c: after the last    *)
(* cluster of the filesystem comes the first.                              *)
Rank(c, b) == IF c >= b THEN c - b ELSE c + Last - b - 1

(* Steps from one cluster of the area to another, going round.             *)
Steps(from, to) ==
    LET d == Rank(to, begin) - Rank(from, begin)
    IN  IF d >= 0 THEN d ELSE d + Rank(end, begin) + 1

(* fatclusterfindfreesequencebetween(): what is returned is the first of   *)
(* that many free clusters, one after the other and all in the area.       *)
FoundInArea ==
    [][Returning("find") /\ result' # FAT_ERR =>
          \A c \in result' .. result' + length - 1 :
             c \in Area(begin, end) /\ Free(c)]_searchvars

(* A single free cluster is the first met from the start, going round; it  *)
(* is found if the area has one, and the next search goes on from there.   *)
NearestFound ==
    [][Returning("find") /\ length = 1 =>
          LET some == {c \in Area(begin, end) : Free(c)}
          IN  IF some = {} THEN result' = FAT_ERR
              ELSE /\ result' \in some /\ last' = result'
                   /\ \A c \in some : Steps(start, result') <= Steps(start, c)]_searchvars

(* The counts are those of the area, and fatclusterfindallocated() says    *)
(* truly whether it has a cluster in use.                                  *)
CountsRight ==
    [][/\ Returning("numfree") =>
             result' = Cardinality({c \in Area(begin, end) : Free(c)})
       /\ Returning("areabad") =>
             LET bad == {c \in Area(begin, end) : Bad(c)}
             IN  result' = IF length = 0 THEN Cardinality(bad)
                           ELSE IF bad = {} THEN 0 ELSE -1
       /\ Returning("allocated") =>
             LET used == {c \in Area(begin, end) : Used(c)}
             IN  IF used = {} THEN result' = FAT_ERR ELSE result' \in used]_searchvars

(* fatclustermostfree(): the counts are those of the area it is at, and no *)
(* area up to there without bad clusters was freer than the best.          *)
Slid(n, far) ==
    /\ numfree = Cardinality(FreeIn(start, n))
    /\ numbad = Cardinality(BadIn(start, n))
    /\ maxnum > 0 => /\ best \in FAT_FIRST .. far /\ BadIn(best, n) = {}
                     /\ maxnum = Cardinality(FreeIn(best, n))
    /\ \A s \in FAT_FIRST .. far :
          BadIn(s, n) = {} => Cardinality(FreeIn(s, n)) <= maxnum

(* It returns the best of all areas of that size, although it only counts  *)
(* the cluster that goes out and the one that comes in when it slides, and *)
(* stops at an area all free.                                              *)
MostFreeBest ==
    [][Returning("mostfree") => Slid(length, Last - length + 1)']_searchvars

LinearFrom(at, k, n) ==
    k + n - 1 \in 0 .. Last /\ \A j \in 0 .. n - 1 : at[k + j] = at[k] + j

(* fatclusterlongestlinear(): the cluster it returns begins a sequence of  *)
(* consecutive clusters of the chain, of the length returned, and none of  *)
(* the chain is longer, or as long and nearer to its start.  The number of *)
(* clusters before it, *maxindex, is not stated: the code does not compute *)
(* what the manual says (README.md, "Searches").                           *)
LongestFirst ==
    fn = "none" /\ index > 0 /\ result = best =>
       LET at  == Following(start)
           all == InChain(start)
       IN  \E k0 \in all :
              /\ at[k0] = result /\ LinearFrom(at, k0, maxnum)
              /\ k0 + maxnum - 1 \in all
              /\ \A k \in all, n \in 1 .. Last :
                    (k + n - 1 \in all /\ LinearFrom(at, k, n))
                       => n < maxnum \/ (n = maxnum /\ k >= k0)
=============================================================================
