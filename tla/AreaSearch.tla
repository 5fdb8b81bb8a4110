------------------------------ MODULE AreaSearch ------------------------------
(***************************************************************************)
(* The searches of lib/table.c in an area of clusters.  An area goes from  *)
(* its first cluster to its last, and on from the first of the filesystem  *)
(* after the last of the filesystem if it ends before it begins.           *)
(*                                                                         *)
(* A search is a loop that returns when it comes back to where it started, *)
(* an iteration a step.  The programs that search and change the table     *)
(* extend this module.                                                     *)
(***************************************************************************)
EXTENDS Integers, FiniteSets

CONSTANTS
    Last          \* fatlastcluster(): the last cluster of the filesystem

FAT_UNUSED == 0
FAT_EOF    == -1
FAT_BAD    == -2
FAT_ERR    == -1000
FAT_FIRST  == 2

ASSUME LastAssumption == Last \in Nat /\ Last > FAT_FIRST

Clusters == FAT_FIRST .. Last

(* What fatgetnextcluster() returns: FAT_ERR for a number out of range.    *)
NextValues == {FAT_UNUSED, FAT_EOF, FAT_BAD, FAT_ERR} \cup Clusters

VARIABLES
    table,        \* the entry of each cluster, in the sectors in memory
    last,         \* f->last: where a free cluster was last found
    fn,           \* the function that is running, "none" or "exit"
    result,       \* what it returned
    begin, end,   \* its area,
    start,        \* where its loop starts, or its area does,
    length,       \* how many clusters are looked for
    cl,           \* the loop: the current cluster,
    first,        \* the first of the consecutive ones,
    count,        \* and how many they are
    numfree, numbad,    \* free and bad clusters of the area that slides
    index,        \* position of the current cluster in the chain
    best, maxnum, maxindex    \* the best found so far

arguments == <<begin, end, start, length>>
loop   == <<cl, first, count>>
window == <<numfree, numbad>>
found  == <<index, best, maxnum, maxindex>>
locals == <<arguments, loop, window, found>>
search == <<last, fn, result, locals>>

NoResult == -1001

(* The type of the state.                                                  *)
TypeOK ==
    /\ table \in [Clusters -> NextValues]
    /\ last \in Clusters
    /\ fn \in {"none", "exit", "find", "allocated", "numfree", "areabad",
               "mostfree", "longest"}
    /\ result \in Int
    /\ begin \in Clusters /\ end \in Clusters /\ start \in Clusters
    /\ length \in Nat
    /\ cl \in Clusters /\ first \in Clusters /\ count \in Nat
    /\ numfree \in Int /\ numbad \in Int
    /\ index \in Nat /\ best \in Int /\ maxnum \in Int /\ maxindex \in Int

(* No function is running: its variables do not exist.                     *)
SearchInit ==
    /\ last \in Clusters
    /\ fn = "none" /\ result = NoResult
    /\ begin = FAT_FIRST /\ end = FAT_FIRST /\ start = FAT_FIRST /\ length = 0
    /\ cl = FAT_FIRST /\ first = FAT_FIRST /\ count = 0
    /\ numfree = 0 /\ numbad = 0
    /\ index = 0 /\ best = FAT_ERR /\ maxnum = 0 /\ maxindex = 0

-----------------------------------------------------------------------------
(* fatclusterisbetween(): an area of one cluster is taken as all.          *)
IsBetweenOpen(c, b, e) ==
    /\ b < e => c >= b /\ c <= e
    /\ b > e => c >= b \/ c < e

IsBetween(c, b, e) ==
    /\ b < e => c >= b /\ c <= e
    /\ b > e => c >= b \/ c <= e

(* fatclusterisregular(): the program exits if it is not so.               *)
IsRegular(c) == IsBetween(c, FAT_FIRST, Last)

(* fatclusterintervalnext() and fatclusterintervalprev().                  *)
IntervalPrev(c, b, e) ==
    LET n == IF c - 1 = b - 1 THEN e ELSE c - 1
    IN  IF n = FAT_FIRST - 1 THEN Last ELSE n

IntervalNextSkip(c, b, e) ==
    LET n == IF c + 1 = e THEN b ELSE c + 1
    IN  IF n = Last + 1 THEN FAT_FIRST ELSE n

IntervalNext(c, b, e) ==
    LET n == IF c + 1 = e + 1 THEN b ELSE c + 1
    IN  IF n = Last + 1 THEN FAT_FIRST ELSE n

(* The clusters a loop from begin goes through.                            *)
Area(b, e) == IF b = e THEN {b} ELSE {c \in Clusters : IsBetween(c, b, e)}

Free(c) == table[c] = FAT_UNUSED
Bad(c)  == table[c] = FAT_BAD
Used(c) == ~ Free(c) /\ ~ Bad(c)

(* The function returns, or its loop goes on.                              *)
Return(r) == fn' = "none" /\ result' = r
Loop == UNCHANGED <<fn, result>>

(* `while (cl != stop)'                                                    *)
LoopOrReturn(stop, r) ==
    /\ cl' = IntervalNext(cl, begin, end)
    /\ IF IntervalNext(cl, begin, end) = stop THEN Return(r) ELSE Loop

(* A call begins its loop from s if that is in the area, and from its      *)
(* first cluster otherwise.                                                *)
Call(f, b, e, s, n) ==
    IF ~ (IsRegular(b) /\ IsRegular(e) /\ IsRegular(s))
    THEN fn' = "exit" /\ UNCHANGED <<last, result, locals>>
    ELSE /\ fn' = f
         /\ begin' = b /\ end' = e /\ length' = n
         /\ start' = (IF IsBetween(s, b, e) THEN s ELSE b)
         /\ cl' = start'
         /\ count' = 0
         /\ UNCHANGED <<last, result, first, window, found>>

-----------------------------------------------------------------------------
(* fatclusterfindfreesequencebetween(); it starts from f->last if it is    *)
(* told to start from -1.                                                  *)
CallFind(b, e, s, n) ==
    IF n <= 0
    THEN Return(FAT_ERR) /\ UNCHANGED <<last, locals>>
    ELSE Call("find", b, e, IF s = -1 THEN last ELSE s, n)

(* The first of the consecutive free clusters, if the current is one.  If  *)
(* the loop went back to a lower one, they are counted again, without it.  *)
SequenceFirst == IF count = 0 THEN cl ELSE first
SequenceCountOn == count + 1
SequenceCount == IF cl < SequenceFirst THEN 0 ELSE count + 1

Find ==
    /\ fn = "find"
    /\ IF Free(cl)
       THEN first' = SequenceFirst /\ count' = SequenceCount /\ last' = cl
       ELSE count' = 0 /\ UNCHANGED <<first, last>>
    /\ IF Free(cl) /\ count' = length
       THEN Return(first') /\ UNCHANGED cl
       ELSE LoopOrReturn(start, FAT_ERR)
    /\ UNCHANGED <<table, arguments, window, found>>

(* fatclusterfindallocatedbetween(): a cluster neither free nor bad.       *)
CallAllocated(b, e, s) == Call("allocated", b, e, s, 1)

Allocated ==
    /\ fn = "allocated"
    /\ IF Used(cl)
       THEN Return(cl) /\ UNCHANGED cl
       ELSE LoopOrReturn(start, FAT_ERR)
    /\ UNCHANGED <<table, last, arguments, first, count, window, found>>

(* fatclusternumfreebetween() and _fatclusterareabad(): the latter returns *)
(* at the first bad cluster if it is asked for one (length 1).             *)
CallNumFree(b, e) == Call("numfree", b, e, b, 0)

NumFree ==
    /\ fn = "numfree"
    /\ count' = count + (IF Free(cl) THEN 1 ELSE 0)
    /\ LoopOrReturn(begin, count')
    /\ UNCHANGED <<table, last, arguments, first, window, found>>

CallAreaBad(b, e, one) == Call("areabad", b, e, b, one)

AreaBad ==
    /\ fn = "areabad"
    /\ IF Bad(cl) /\ length = 1
       THEN Return(-1) /\ UNCHANGED <<cl, count>>
       ELSE /\ count' = count + (IF Bad(cl) THEN 1 ELSE 0)
            /\ LoopOrReturn(begin, count')
    /\ UNCHANGED <<table, last, arguments, first, window, found>>

-----------------------------------------------------------------------------
(* fatclustermostfree() with allowbad zero.  The free and bad clusters of  *)
(* the first area of this size are counted; then it slides.                *)
FreeIn(s, n) == {c \in s .. s + n - 1 : Free(c)}
BadIn(s, n)  == {c \in s .. s + n - 1 : Bad(c)}

NoArea(n) == n > Last - FAT_FIRST + 1 \/ FAT_FIRST + n > Last

CallMostFree(n) ==
    /\ n > 0
    /\ IF NoArea(n)
       THEN Return(FAT_ERR) /\ UNCHANGED locals
       ELSE LET free == Cardinality(FreeIn(FAT_FIRST, n))
                good == BadIn(FAT_FIRST, n) = {}
            IN  /\ start' = FAT_FIRST /\ length' = n
                /\ numfree' = free /\ numbad' = Cardinality(BadIn(FAT_FIRST, n))
                /\ best' = IF good THEN FAT_FIRST ELSE FAT_ERR
                /\ maxnum' = IF good THEN free ELSE 0
                /\ IF good /\ free = n THEN Return(FAT_FIRST)
                   ELSE fn' = "mostfree" /\ UNCHANGED result
                /\ UNCHANGED <<begin, end, loop, index, maxindex>>
    /\ UNCHANGED last

(* One cluster goes out of the area and one comes in.                      *)
One(b) == IF b THEN 1 ELSE 0
SlidFreeOver == numfree + One(Free(start + length))
SlidFree == numfree - One(Free(start)) + One(Free(start + length))
SlidBad == numbad - One(Bad(start)) + One(Bad(start + length))

MostFree ==
    /\ fn = "mostfree"
    /\ IF start + length > Last
       THEN Return(best) /\ UNCHANGED <<start, window, best, maxnum>>
       ELSE LET better == SlidFree > maxnum /\ SlidBad = 0
            IN  /\ start' = start + 1
                /\ numfree' = SlidFree /\ numbad' = SlidBad
                /\ best' = IF better THEN start + 1 ELSE best
                /\ maxnum' = IF better THEN SlidFree ELSE maxnum
                /\ IF better /\ SlidFree = length THEN Return(start + 1) ELSE Loop
    /\ UNCHANGED <<table, last, begin, end, length, loop, index, maxindex>>

(* fatclusterlongestlinear(): the clusters of a chain are followed; count  *)
(* is the length of the sequence the current one ends.                     *)
CallLongest(s) ==
    /\ fn' = "longest"
    /\ start' = s /\ cl' = s
    /\ count' = 1 /\ index' = 1
    /\ best' = s /\ maxnum' = 1 /\ maxindex' = 1
    /\ UNCHANGED <<last, result, begin, end, length, first, window>>

LinearCountGoesOn == IF table[cl] = cl + 1 THEN count + 1 ELSE count
LinearCount == IF table[cl] = cl + 1 THEN count + 1 ELSE 1

Longest ==
    /\ fn = "longest"
    /\ IF table[cl] \in {FAT_EOF, FAT_UNUSED}
       THEN Return(best) /\ UNCHANGED <<cl, count, found>>
       ELSE LET n == LinearCount
            IN  /\ count' = n
                /\ IF n > maxnum
                   THEN /\ best' = table[cl] - n + 1
                        /\ maxnum' = n /\ maxindex' = index - n + 1
                   ELSE UNCHANGED <<best, maxnum, maxindex>>
                /\ cl' = table[cl] /\ index' = index + 1
                /\ Loop
    /\ UNCHANGED <<table, last, arguments, first, window>>

(* The caller takes what the function returned.                            *)
Taken ==
    /\ result' = NoResult
    /\ begin' = FAT_FIRST /\ end' = FAT_FIRST /\ start' = FAT_FIRST /\ length' = 0
    /\ cl' = FAT_FIRST /\ first' = FAT_FIRST /\ count' = 0
    /\ numfree' = 0 /\ numbad' = 0
    /\ index' = 0 /\ best' = FAT_ERR /\ maxnum' = 0 /\ maxindex' = 0

Searching == Find \/ Allocated \/ NumFree \/ AreaBad \/ MostFree \/ Longest
=============================================================================
