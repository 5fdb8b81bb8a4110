---------------------------- MODULE CommandsProofs ----------------------------
(***************************************************************************)
(* For filesystems of any size: what the searches of an area and the loops *)
(* that count its clusters return, for any table (Searches); and what the  *)
(* commands leave as it is, whatever is asked for, closed, exited from or  *)
(* crashed at any moment (Commands).                                       *)
(***************************************************************************)
EXTENDS Searches, Commands, FiniteSetTheorems, SequenceTheorems,
        WellFoundedInduction, TLAPS

USE DEF FAT_FIRST, FAT_UNUSED, FAT_EOF, FAT_BAD, FAT_ERR

(* The clusters counted so far are free, in the area, and end before the   *)
(* current one, unless this is before them: then the count restarts.       *)
Counted ==
    count > 0 =>
       /\ \A c \in first .. first + count - 1 : c \in Area(begin, end) /\ Free(c)
       /\ \/ cl = first + count /\ (first < start => cl < start)
          \/ cl < first

FindInv ==
    fn = "find" =>
       /\ length > 0 /\ count < length
       /\ AreaAllowed(begin, end, start, length)
       /\ cl \in Area(begin, end)
       /\ begin = end => cl = begin /\ count = 0
       /\ begin < end => start \in begin .. end
       /\ Counted

(* The chain of a file is followed to its end.                             *)
LongestInv ==
    fn = "longest" => \E set \in SUBSET Clusters : cl \in set /\ ClosedUnder(set)

(* The area that slides is in the filesystem, and no area so far was freer *)
(* than the best.                                                          *)
SlideInv ==
    fn = "mostfree" =>
       length > 0 /\ start + length - 1 <= Last /\ Slid(length, start)

IInv == TypeOK /\ FindInv /\ LongestInv /\ SlideInv

-----------------------------------------------------------------------------
LEMMA NextInArea ==
    ASSUME NEW b \in Clusters, NEW e \in Clusters, NEW c \in Area(b, e)
    PROVE  /\ IntervalNext(c, b, e) \in Area(b, e)
           /\ IntervalNext(c, b, e) \in Clusters
  BY LastAssumption DEF Area, IntervalNext, IsBetween, Clusters

LEMMA NextInClusters ==
    ASSUME NEW b \in Clusters, NEW e \in Clusters, NEW c \in Clusters
    PROVE  IntervalNext(c, b, e) \in Clusters
  BY LastAssumption DEF IntervalNext, Clusters

LEMMA StartInArea ==
    ASSUME NEW b \in Clusters, NEW e \in Clusters, NEW s \in Clusters,
           b = e => s = b
    PROVE  (IF IsBetween(s, b, e) THEN s ELSE b) \in Area(b, e)
  BY LastAssumption DEF Area, IsBetween, Clusters

LEMMA RegularClusters ==
    ASSUME NEW c \in Int, IsRegular(c) PROVE c \in Clusters
  BY LastAssumption DEF IsRegular, IsBetween, Clusters

LEMMA InitInv == SearchesInit => IInv
  BY LastAssumption, TablesAssumption
     DEF SearchesInit, SearchInit, IInv, TypeOK, FindInv, LongestInv, SlideInv, NoResult, Clusters

-----------------------------------------------------------------------------
(* A call that begins a loop in an area.                                   *)
LEMMA CallType ==
    ASSUME TypeOK, NEW f \in {"find", "allocated", "numfree", "areabad"},
           NEW b \in Clusters, NEW e \in Clusters, NEW s \in Clusters, NEW n \in Nat,
           Call(f, b, e, s, n), UNCHANGED table
    PROVE  /\ TypeOK'
           /\ \/ fn' = "exit"
              \/ /\ fn' = f
                 /\ begin' = b /\ end' = e /\ length' = n
                 /\ start' = (IF IsBetween(s, b, e) THEN s ELSE b)
                 /\ cl' = start' /\ count' = 0
  <1>1. CASE ~ (IsRegular(b) /\ IsRegular(e) /\ IsRegular(s))
    <2>1. fn' = "exit" /\ UNCHANGED <<last, result, arguments, loop, window, found>>
      BY <1>1 DEF Call, locals
    <2>2. QED
      BY <2>1 DEF TypeOK, arguments, loop, window, found
  <1>2. CASE IsRegular(b) /\ IsRegular(e) /\ IsRegular(s)
    <2>1. /\ fn' = f /\ begin' = b /\ end' = e /\ length' = n
          /\ start' = (IF IsBetween(s, b, e) THEN s ELSE b)
          /\ cl' = start' /\ count' = 0
          /\ UNCHANGED <<last, result, first, window, found>>
      BY <1>2 DEF Call
    <2>2. start' \in Clusters
      BY <2>1
    <2>3. QED
      BY <2>1, <2>2 DEF TypeOK, window, found
  <1>3. QED
    BY <1>1, <1>2

LEMMA CallFindInv ==
    ASSUME IInv, NEW b \in Clusters, NEW e \in Clusters, NEW s \in AnyStart, NEW n \in Nat,
           AreaAllowed(b, e, From(s), n), CallFind(b, e, s, n), UNCHANGED table
    PROVE  IInv'
  <1>1. CASE n <= 0
    BY <1>1 DEF CallFind, Return, IInv, TypeOK, FindInv, LongestInv, SlideInv, locals, arguments,
                loop, window, found
  <1>2. CASE n > 0
    <2>1. From(s) \in Clusters
      BY DEF From, AnyStart, IInv, TypeOK
    <2>2. Call("find", b, e, From(s), n)
      BY <1>2 DEF CallFind, From
    <2>3. /\ TypeOK'
          /\ \/ fn' = "exit"
             \/ /\ fn' = "find"
                /\ begin' = b /\ end' = e /\ length' = n
                /\ start' = (IF IsBetween(From(s), b, e) THEN From(s) ELSE b)
                /\ cl' = start' /\ count' = 0
      BY <2>1, <2>2, CallType DEF IInv
    <2>4. b = e => From(s) = b
      BY DEF AreaAllowed
    <2>5. ASSUME fn' = "find" PROVE FindInv'
      <3>1. start' \in Area(b, e)
        BY <2>1, <2>3, <2>4, <2>5, StartInArea
      <3>2. AreaAllowed(b, e, start', n)
        BY <2>3, <2>5 DEF AreaAllowed
      <3>3. b < e => start' \in b .. e
        BY <2>1, <2>3, <2>5, LastAssumption DEF IsBetween, Clusters
      <3>4. b = e => start' = b
        BY <3>2 DEF AreaAllowed
      <3>5. QED
        BY <1>2, <2>3, <2>5, <3>1, <3>2, <3>3, <3>4
           DEF FindInv, Counted, AreaAllowed, Area, IsBetween
    <2>6. QED
      BY <2>3, <2>5 DEF IInv, FindInv, LongestInv, SlideInv
  <1>3. QED
    BY <1>1, <1>2

(* The other calls do not search for free clusters.                        *)
LEMMA OtherCalls ==
    ASSUME IInv, NEW f \in {"allocated", "numfree", "areabad"},
           NEW b \in Clusters, NEW e \in Clusters, NEW s \in Clusters, NEW n \in Nat,
           Call(f, b, e, s, n), UNCHANGED table
    PROVE  IInv'
  <1>1. TypeOK' /\ fn' \in {"exit", f}
    BY CallType DEF IInv
  <1>2. QED
    BY <1>1 DEF IInv, FindInv, LongestInv, SlideInv

LEMMA FreeInBound ==
    ASSUME NEW s \in Int, NEW n \in Nat
    PROVE  /\ IsFiniteSet(FreeIn(s, n)) /\ Cardinality(FreeIn(s, n)) \in 0 .. n
           /\ IsFiniteSet(BadIn(s, n)) /\ Cardinality(BadIn(s, n)) \in 0 .. n
  <1>1. IsFiniteSet(s .. s + n - 1) /\ Cardinality(s .. s + n - 1) = n
    <2>1. s > s + n - 1 => n = 0
      OBVIOUS
    <2>2. (s + n - 1) - s + 1 = n
      OBVIOUS
    <2>3. QED
      BY <2>1, <2>2, FS_Interval
  <1>2. /\ FreeIn(s, n) \in SUBSET (s .. s + n - 1)
        /\ BadIn(s, n) \in SUBSET (s .. s + n - 1)
    BY DEF FreeIn, BadIn
  <1>3. QED
    BY <1>1, <1>2, FS_Subset, FS_CardinalityType

LEMMA CallMostFreeInv ==
    ASSUME IInv, NEW n \in Nat, CallMostFree(n), UNCHANGED table
    PROVE  IInv'
  <1>1. CASE NoArea(n)
    BY <1>1 DEF CallMostFree, Return, IInv, TypeOK, FindInv, LongestInv, SlideInv, locals,
                arguments, loop, window, found
  <1>2. CASE ~ NoArea(n)
    <2> DEFINE free == Cardinality(FreeIn(FAT_FIRST, n))
               bad  == Cardinality(BadIn(FAT_FIRST, n))
               good == BadIn(FAT_FIRST, n) = {}
    <2>1. free \in 0 .. n /\ bad \in 0 .. n /\ free \in Nat /\ bad \in Nat
      <3>1. FAT_FIRST \in Int
        OBVIOUS
      <3>2. \A k \in 0 .. n : k \in Nat
        OBVIOUS
      <3>3. QED
        BY <3>1, <3>2, FreeInBound
    <2>2. fn' \in {"none", "mostfree"} /\ result' \in {result, FAT_FIRST}
      BY <1>2 DEF CallMostFree, Return
    <2>3. TypeOK'
      BY <1>2, <2>1, <2>2, LastAssumption
         DEF CallMostFree, IInv, TypeOK, loop, Clusters
    <2>4. n > 0 /\ FAT_FIRST + n - 1 <= Last
      BY <1>2, LastAssumption DEF CallMostFree, NoArea
    <2>5. /\ start' = FAT_FIRST /\ length' = n
          /\ numfree' = free /\ numbad' = bad
          /\ best' = (IF good THEN FAT_FIRST ELSE FAT_ERR)
          /\ maxnum' = (IF good THEN free ELSE 0)
      BY <1>2 DEF CallMostFree
    <2>6. FreeIn(FAT_FIRST, n)' = FreeIn(FAT_FIRST, n)
          /\ BadIn(FAT_FIRST, n)' = BadIn(FAT_FIRST, n)
      BY DEF FreeIn, BadIn, Free, Bad
    <2>7. Slid(n, FAT_FIRST)'
      <3>1. table' = table /\ start' = FAT_FIRST
        BY <2>5
      <3>2. numfree' = Cardinality(FreeIn(FAT_FIRST, n))
            /\ numbad' = Cardinality(BadIn(FAT_FIRST, n))
        BY <2>5
      <3>3. maxnum' > 0 => /\ best' = FAT_FIRST /\ BadIn(FAT_FIRST, n) = {}
                           /\ maxnum' = Cardinality(FreeIn(FAT_FIRST, n))
        BY <2>5
      <3>4. BadIn(FAT_FIRST, n) = {} => Cardinality(FreeIn(FAT_FIRST, n)) <= maxnum'
        BY <2>1, <2>5
      <3>5. QED
        <4>1. \A s \in Int : FreeIn(s, n)' = FreeIn(s, n) /\ BadIn(s, n)' = BadIn(s, n)
          BY <3>1 DEF FreeIn, BadIn, Free, Bad
        <4>2. /\ numfree' = Cardinality(FreeIn(start, n))'
              /\ numbad' = Cardinality(BadIn(start, n))'
          BY <3>1, <3>2, <4>1
        <4>3. maxnum' > 0 => /\ best' \in FAT_FIRST .. FAT_FIRST /\ BadIn(best, n)' = {}
                             /\ maxnum' = Cardinality(FreeIn(best, n))'
          BY <3>3, <4>1
        <4>4. \A s \in FAT_FIRST .. FAT_FIRST :
                 BadIn(s, n)' = {} => Cardinality(FreeIn(s, n))' <= maxnum'
          BY <3>4, <4>1
        <4>5. QED
          BY <4>2, <4>3, <4>4 DEF Slid
    <2>8. SlideInv'
      BY <2>4, <2>5, <2>7 DEF SlideInv
    <2>9. QED
      BY <2>2, <2>3, <2>8 DEF IInv, FindInv, LongestInv
  <1>3. QED
    BY <1>1, <1>2

LEMMA CallLongestInv ==
    ASSUME IInv, NEW s \in Clusters, ChainEnds(s), CallLongest(s), UNCHANGED table
    PROVE  IInv'
  <1>1. TypeOK'
    BY DEF CallLongest, IInv, TypeOK, window, Clusters
  <1>2. LongestInv'
    BY DEF CallLongest, LongestInv, ChainEnds, ClosedUnder
  <1>3. QED
    BY <1>1, <1>2 DEF CallLongest, IInv, FindInv, SlideInv

LEMMA CallAnyInv == ASSUME IInv, CallAny PROVE IInv'
  <1>1. ASSUME NEW b \in Clusters, NEW e \in Clusters, NEW s \in AnyStart,
               NEW n \in 0 .. MaxLength, AreaAllowed(b, e, From(s), n),
               CallFind(b, e, s, n), UNCHANGED table
        PROVE  IInv'
    <2>1. n \in Nat
      BY <1>1, TablesAssumption
    <2>2. QED
      BY <1>1, <2>1, CallFindInv
  <1>2. ASSUME NEW b \in Clusters, NEW e \in Clusters, NEW s \in Clusters,
               CallAllocated(b, e, s), UNCHANGED table
        PROVE  IInv'
    BY <1>2, OtherCalls DEF CallAllocated
  <1>3. ASSUME NEW b \in Clusters, NEW e \in Clusters, NEW one \in {0, 1},
               CallAreaBad(b, e, one), UNCHANGED table
        PROVE  IInv'
    BY <1>3, OtherCalls DEF CallAreaBad
  <1>4. ASSUME NEW b \in Clusters, NEW e \in Clusters, CallNumFree(b, e), UNCHANGED table
        PROVE  IInv'
    BY <1>4, OtherCalls DEF CallNumFree
  <1>5. ASSUME NEW n \in 1 .. MaxLength, CallMostFree(n), UNCHANGED table
        PROVE  IInv'
    <2>1. n \in Nat
      BY <1>5, TablesAssumption
    <2>2. QED
      BY <1>5, <2>1, CallMostFreeInv
  <1>6. ASSUME NEW s \in Clusters, ChainEnds(s), CallLongest(s), UNCHANGED table
        PROVE  IInv'
    BY <1>6, CallLongestInv
  <1>7. QED
    BY <1>1, <1>2, <1>3, <1>4, <1>5, <1>6 DEF CallAny

-----------------------------------------------------------------------------
(* The steps of the loop that finds free clusters.                         *)
LEMMA FindType ==
    ASSUME IInv, Find PROVE TypeOK'
  <1> USE DEF IInv
  <1>1. IntervalNext(cl, begin, end) \in Clusters
    BY NextInClusters, LastAssumption DEF TypeOK
  <1>2. first' \in Clusters /\ count' \in Nat /\ last' \in Clusters
    BY DEF Find, TypeOK, SequenceFirst, SequenceCount
  <1>3. cl' \in Clusters /\ fn' \in {fn, "none"} /\ result' \in Int
    <2>1. first' \in Int
      BY <1>2, LastAssumption DEF Clusters
    <2>2. QED
      BY <1>1, <2>1 DEF Find, LoopOrReturn, Loop, Return, TypeOK
  <1>4. QED
    BY <1>2, <1>3 DEF Find, TypeOK, arguments, window, found

(* A free cluster that goes on the sequence is in the area as the others.  *)
LEMMA OneMore ==
    ASSUME IInv, fn = "find", Free(cl), cl >= SequenceFirst
    PROVE  /\ SequenceCount = count + 1
           /\ cl = SequenceFirst + count
           /\ \A c \in SequenceFirst .. cl : c \in Area(begin, end) /\ Free(c)
  <1>1. /\ cl \in Int /\ first \in Int /\ count \in Nat
        /\ cl \in Area(begin, end) /\ Counted
    BY LastAssumption DEF IInv, TypeOK, FindInv, Clusters
  <1>2. CASE count = 0
    BY <1>1, <1>2 DEF SequenceFirst, SequenceCount
  <1>3. CASE count > 0
    BY <1>1, <1>3 DEF SequenceFirst, SequenceCount, Counted
  <1>4. QED
    BY <1>1, <1>2, <1>3

(* The facts about numbers that a step of the loop relies on.              *)
LEMMA FindNumbers ==
    ASSUME IInv, fn = "find"
    PROVE  /\ Last \in Nat /\ begin \in 2 .. Last /\ end \in 2 .. Last
           /\ start \in 2 .. Last /\ cl \in 2 .. Last /\ first \in 2 .. Last
           /\ length \in Nat /\ count \in Nat /\ length > 0 /\ count < length
           /\ cl \in Area(begin, end)
           /\ begin = end => cl = begin /\ count = 0 /\ start = begin
           /\ begin < end => start \in begin .. end /\ cl \in begin .. end
           /\ begin > end => /\ cl >= begin \/ cl <= end
                             /\ length = 1 \/ start = begin
           /\ Counted
  <1>1. TypeOK /\ FindInv
    BY DEF IInv
  <1>2. /\ begin \in 2 .. Last /\ end \in 2 .. Last /\ start \in 2 .. Last
        /\ cl \in 2 .. Last /\ first \in 2 .. Last /\ length \in Nat /\ count \in Nat
    BY <1>1 DEF TypeOK, Clusters
  <1>3. /\ length > 0 /\ count < length /\ cl \in Area(begin, end)
        /\ AreaAllowed(begin, end, start, length) /\ Counted
        /\ begin = end => cl = begin /\ count = 0
        /\ begin < end => start \in begin .. end
    BY <1>1 DEF FindInv
  <1>4. Last \in Nat
    BY LastAssumption
  <1> HIDE DEF FAT_FIRST
  <1>5. begin # end => IsBetween(cl, begin, end)
    BY <1>3 DEF Area
  <1>6. /\ begin = end => start = begin
        /\ begin > end => length = 1 \/ start = begin
    BY <1>2, <1>3, <1>4 DEF AreaAllowed
  <1>7. /\ begin < end => cl \in begin .. end
        /\ begin > end => cl >= begin \/ cl <= end
    BY <1>2, <1>4, <1>5 DEF IsBetween
  <1>8. QED
    BY <1>2, <1>3, <1>4, <1>6, <1>7

LEMMA NextNumber ==
    ASSUME Last \in Nat, NEW c \in 2 .. Last, NEW b \in 2 .. Last, NEW e \in 2 .. Last
    PROVE  /\ c = e => IntervalNext(c, b, e) = b
           /\ c # e /\ c = Last => IntervalNext(c, b, e) = 2
           /\ c # e /\ c # Last => IntervalNext(c, b, e) = c + 1
  BY DEF IntervalNext

(* How the sequence ends where the loop goes on to another cluster.        *)
LEMMA SequenceGoesOn ==
    ASSUME IInv, fn = "find", begin # end, length > 1,
           NEW f \in 2 .. Last, NEW k \in Nat, cl = f + k, f < start => cl < start,
           f \in Area(begin, end),
           NEW n, n = IntervalNext(cl, begin, end), n # start
    PROVE  (n = f + (k + 1) /\ (f < start => n < start)) \/ n < f
  <1> USE FindNumbers
  <1>1. n \in 2 .. Last
    BY NextNumber
  <1>2. CASE n = cl + 1
    BY <1>1, <1>2
  <1>3. CASE n # cl + 1
    <2>1. (cl = end /\ n = begin) \/ (cl # end /\ cl = Last /\ n = 2)
      <3>1. Last \in Nat /\ cl \in 2 .. Last /\ begin \in 2 .. Last /\ end \in 2 .. Last
        OBVIOUS
      <3>2. QED
        <4>1. /\ cl = end => n = begin
              /\ cl # end /\ cl = Last => n = 2
              /\ cl # end /\ cl # Last => n = cl + 1
          BY <3>1, NextNumber
        <4>2. QED
          BY <1>3, <4>1
    <2>2. CASE begin < end
      <3>1. cl = end /\ n = begin
        BY <2>1, <2>2
      <3>2. f >= start
        BY <2>2, <3>1
      <3>3. QED
        BY <2>2, <3>1, <3>2
    <2>3. CASE begin > end
      <3>1. start = begin
        BY <2>3
      <3>2. cl = Last /\ n = 2
        BY <2>1, <3>1
      <3>3. QED
        BY <2>3, <3>1, <3>2
    <2>4. QED
      BY <2>2, <2>3
  <1>4. QED
    BY <1>2, <1>3

LEMMA FindStep ==
    ASSUME IInv, Find, fn' = "find" PROVE FindInv'
  <1>1. TypeOK' /\ UNCHANGED <<table, begin, end, start, length>> /\ fn = "find"
    BY FindType DEF Find, arguments
  <1>2. cl' = IntervalNext(cl, begin, end) /\ cl' # start /\ cl' \in Area(begin, end)
    <2>1. cl' = IntervalNext(cl, begin, end) /\ cl' # start
      BY <1>1 DEF Find, LoopOrReturn, Return
    <2>2. QED
      BY <1>1, <2>1, NextInArea DEF IInv, FindInv, TypeOK
  <1>3. begin # end
    BY <1>1, <1>2, FindNumbers, NextNumber
  <1>4. /\ length > 0 /\ AreaAllowed(begin, end, start, length)
        /\ begin < end => start \in begin .. end
    BY <1>1 DEF IInv, FindInv, SlideInv
  <1>5. ASSUME count' < length, Counted' PROVE FindInv'
    BY <1>1, <1>2, <1>3, <1>4, <1>5 DEF FindInv, AreaAllowed, Area, IsBetween
  <1>6. CASE ~ Free(cl)
    BY <1>1, <1>4, <1>5, <1>6 DEF Find, Counted
  <1>7. CASE Free(cl)
    <2>1. first' = SequenceFirst /\ count' = SequenceCount /\ count' # length
      BY <1>1, <1>7 DEF Find, Return
    <2>2. cl \in Int /\ SequenceFirst \in 2 .. Last
      BY <1>1, FindNumbers DEF SequenceFirst
    <2>3. CASE cl < SequenceFirst
      BY <1>4, <1>5, <2>1, <2>3 DEF Counted, SequenceCount
    <2>4. CASE cl >= SequenceFirst
      <3>1. /\ count' = count + 1 /\ cl = first' + count
            /\ \A c \in first' .. cl : c \in Area(begin, end) /\ Free(c)
        BY <1>1, <1>7, <2>1, <2>4, OneMore
      <3>2. count' < length /\ length > 1
        BY <1>1, <2>1, <3>1, FindNumbers
      <3>3. \A c \in first' .. first' + count' - 1 :
               c \in Area(begin, end)' /\ Free(c)'
        <4>1. first' + count' - 1 = cl
          BY <1>1, <2>1, <2>2, <3>1, FindNumbers
        <4>2. QED
          BY <1>1, <3>1, <4>1 DEF Area, IsBetween, Free
      <3>4. first' < start => cl < start
        <4>1. count = 0 => first' = cl
          BY <2>1 DEF SequenceFirst
        <4>2. count > 0 => first' = first /\ cl = first + count
          BY <1>1, <2>1, <3>1, FindNumbers DEF SequenceFirst
        <4>3. count > 0 => (first < start => cl < start)
          BY <1>1, <4>2, FindNumbers DEF Counted
        <4>4. QED
          BY <1>1, <4>1, <4>2, <4>3, FindNumbers
      <3>5. first' \in Area(begin, end)
        BY <1>1, <2>1, <2>2, <3>1, FindNumbers
      <3>6. \/ cl' = first' + (count + 1) /\ (first' < start => cl' < start)
            \/ cl' < first'
        BY <1>1, <1>2, <1>3, <2>1, <2>2, <3>1, <3>2, <3>4, <3>5, FindNumbers,
           SequenceGoesOn
      <3>7. Counted'
        BY <1>1, <3>1, <3>3, <3>6 DEF Counted
      <3>8. QED
        BY <1>5, <3>2, <3>7
    <2>5. QED
      BY <2>2, <2>3, <2>4
  <1>8. QED
    BY <1>6, <1>7

LEMMA FindKeepsInv == ASSUME IInv, Find PROVE IInv'
  <1>1. fn' \in {"find", "none"}
    BY DEF Find, LoopOrReturn, Loop, Return
  <1>2. QED
    BY <1>1, FindType, FindStep DEF IInv, FindInv, LongestInv, SlideInv

-----------------------------------------------------------------------------
(* The other loops.                                                        *)
LEMMA OtherLoops ==
    ASSUME IInv, Allocated \/ NumFree \/ AreaBad PROVE IInv'
  <1>1. IntervalNext(cl, begin, end) \in Clusters /\ cl \in Int
    <2>1. begin \in Clusters /\ end \in Clusters /\ cl \in Clusters
      BY DEF IInv, TypeOK
    <2>2. QED
      BY <2>1, NextInClusters DEF Clusters
  <1>2. CASE Allocated
    <2>1. cl' \in Clusters /\ fn' \in {"allocated", "none"} /\ result' \in Int
      BY <1>1, <1>2 DEF Allocated, LoopOrReturn, Loop, Return, IInv, TypeOK
    <2>2. TypeOK'
      BY <1>2, <2>1 DEF Allocated, IInv, TypeOK, arguments, window, found
    <2>3. QED
      BY <2>1, <2>2 DEF IInv, FindInv, LongestInv, SlideInv
  <1>3. CASE NumFree
    <2>1. count' \in Nat
      BY <1>3 DEF NumFree, IInv, TypeOK
    <2>2. cl' \in Clusters /\ fn' \in {"numfree", "none"} /\ result' \in Int
      BY <1>1, <1>3, <2>1 DEF NumFree, LoopOrReturn, Loop, Return, IInv, TypeOK
    <2>3. TypeOK'
      BY <1>3, <2>1, <2>2 DEF NumFree, IInv, TypeOK, arguments, window, found
    <2>4. QED
      BY <2>2, <2>3 DEF IInv, FindInv, LongestInv, SlideInv
  <1>4. CASE AreaBad
    <2>1. count' \in Nat
      BY <1>4 DEF AreaBad, IInv, TypeOK
    <2>2. cl' \in Clusters /\ fn' \in {"areabad", "none"} /\ result' \in Int
      BY <1>1, <1>4, <2>1 DEF AreaBad, LoopOrReturn, Loop, Return, IInv, TypeOK
    <2>3. TypeOK'
      BY <1>4, <2>1, <2>2 DEF AreaBad, IInv, TypeOK, arguments, window, found
    <2>4. QED
      BY <2>2, <2>3 DEF IInv, FindInv, LongestInv, SlideInv
  <1>5. QED
    BY <1>2, <1>3, <1>4

LEMMA LongestKeepsInv == ASSUME IInv, Longest PROVE IInv'
  <1>1. PICK set \in SUBSET Clusters : cl \in set /\ ClosedUnder(set)
    BY DEF Longest, IInv, LongestInv
  <1>2. table[cl] \in set \cup {FAT_EOF, FAT_UNUSED}
    BY <1>1 DEF ClosedUnder
  <1>3. CASE table[cl] \in {FAT_EOF, FAT_UNUSED}
    <2>1. fn' = "none" /\ TypeOK'
      BY <1>3 DEF Longest, Return, IInv, TypeOK, arguments, window, found
    <2>2. QED
      BY <2>1 DEF IInv, FindInv, LongestInv, SlideInv
  <1>4. CASE table[cl] \notin {FAT_EOF, FAT_UNUSED}
    <2>1. table[cl] \in set /\ table[cl] \in Clusters /\ table[cl] \in Int
      <3>1. table[cl] \in set
        BY <1>2, <1>4
      <3>2. table[cl] \in Clusters
        BY <3>1
      <3>3. QED
        BY <3>1, <3>2 DEF Clusters
    <2>2. LinearCount \in Nat /\ fn' = "longest" /\ result' \in Int
      BY <1>4 DEF LinearCount, Longest, Loop, IInv, TypeOK
    <2>3. TypeOK'
      BY <1>4, <2>1, <2>2 DEF Longest, IInv, TypeOK, arguments, window
    <2>4. LongestInv'
      BY <1>1, <1>4, <2>1, <2>2 DEF Longest, LongestInv, ClosedUnder
    <2>5. QED
      BY <2>2, <2>3, <2>4 DEF IInv, FindInv, SlideInv
  <1>5. QED
    BY <1>3, <1>4

(* An area of n clusters loses one and takes one when it slides.           *)
LEMMA CountSlides ==
    ASSUME NEW P, NEW s \in Int, NEW n \in Nat, n > 0,
           NEW A, A = {c \in s .. s + n - 1 : c \in P},
           NEW B, B = {c \in s + 1 .. s + n : c \in P}
    PROVE  Cardinality(B) = Cardinality(A) - One(s \in P) + One(s + n \in P)
  <1> DEFINE M == {c \in s + 1 .. s + n - 1 : c \in P}
  <1>1. IsFiniteSet(M)
    <2>1. IsFiniteSet(s + 1 .. s + n - 1)
      BY FS_Interval
    <2>2. QED
      BY <2>1, FS_Subset
  <1>2. s \notin M /\ (s + n) \notin M
    OBVIOUS
  <1>3. /\ s \in P => A = M \cup {s}
        /\ s \notin P => A = M
        /\ (s + n) \in P => B = M \cup {s + n}
        /\ (s + n) \notin P => B = M
    OBVIOUS
  <1> HIDE DEF M
  <1>4. /\ Cardinality(M \cup {s}) = Cardinality(M) + 1
        /\ Cardinality(M \cup {s + n}) = Cardinality(M) + 1
        /\ Cardinality(M) \in Nat
    BY <1>1, <1>2, FS_AddElement, FS_CardinalityType
  <1>5. Cardinality(A) = Cardinality(M) + One(s \in P)
    <2>1. CASE s \in P
      BY <1>3, <1>4, <2>1 DEF One
    <2>2. CASE s \notin P
      BY <1>3, <1>4, <2>2 DEF One
    <2>3. QED
      BY <2>1, <2>2
  <1>6. Cardinality(B) = Cardinality(M) + One(s + n \in P)
    <2>1. CASE (s + n) \in P
      BY <1>3, <1>4, <2>1 DEF One
    <2>2. CASE (s + n) \notin P
      BY <1>3, <1>4, <2>2 DEF One
    <2>3. QED
      BY <2>1, <2>2
  <1>7. QED
    BY <1>4, <1>5, <1>6 DEF One

LEMMA WindowSlides ==
    ASSUME NEW s \in Int, NEW n \in Nat, n > 0
    PROVE  /\ Cardinality(FreeIn(s + 1, n))
                = Cardinality(FreeIn(s, n)) - One(Free(s)) + One(Free(s + n))
           /\ Cardinality(BadIn(s + 1, n))
                = Cardinality(BadIn(s, n)) - One(Bad(s)) + One(Bad(s + n))
  <1> DEFINE F == {c \in s .. s + n : Free(c)}
             D == {c \in s .. s + n : Bad(c)}
  <1>1. /\ FreeIn(s, n) = {c \in s .. s + n - 1 : c \in F}
        /\ FreeIn(s + 1, n) = {c \in s + 1 .. s + n : c \in F}
        /\ BadIn(s, n) = {c \in s .. s + n - 1 : c \in D}
        /\ BadIn(s + 1, n) = {c \in s + 1 .. s + n : c \in D}
    BY DEF FreeIn, BadIn
  <1>2. /\ One(s \in F) = One(Free(s)) /\ One(s + n \in F) = One(Free(s + n))
        /\ One(s \in D) = One(Bad(s)) /\ One(s + n \in D) = One(Bad(s + n))
    BY DEF One
  <1> HIDE DEF F, D
  <1>3. Cardinality(FreeIn(s + 1, n))
           = Cardinality(FreeIn(s, n)) - One(s \in F) + One(s + n \in F)
    BY <1>1, CountSlides
  <1>4. Cardinality(BadIn(s + 1, n))
           = Cardinality(BadIn(s, n)) - One(s \in D) + One(s + n \in D)
    BY <1>1, CountSlides
  <1>5. QED
    BY <1>2, <1>3, <1>4

(* A step of fatclustermostfree() that goes to the next area.              *)
LEMMA SlideStep ==
    ASSUME IInv, MostFree, ~ (start + length > Last)
    PROVE  /\ Slid(length, start)'
           /\ fn' = "none" => Slid(length, Last - length + 1)'
           /\ start' = start + 1 /\ length' = length
           /\ start + 1 + length - 1 <= Last
  <1>1. /\ start \in Int /\ length \in Nat /\ length > 0 /\ Last \in Nat
        /\ start >= 2 /\ start + length <= Last
        /\ maxnum \in Int /\ numfree \in Int /\ numbad \in Int /\ best \in Int
        /\ Slid(length, start)
    BY LastAssumption DEF IInv, TypeOK, SlideInv, MostFree, Clusters
  <1>2. /\ numfree = Cardinality(FreeIn(start, length))
        /\ numbad = Cardinality(BadIn(start, length))
        /\ maxnum > 0 => /\ best \in 2 .. start /\ BadIn(best, length) = {}
                         /\ maxnum = Cardinality(FreeIn(best, length))
        /\ \A s \in 2 .. start :
              BadIn(s, length) = {} => Cardinality(FreeIn(s, length)) <= maxnum
    BY <1>1 DEF Slid
  <1> DEFINE better == SlidFree > maxnum /\ SlidBad = 0
  <1>3. /\ start' = start + 1 /\ length' = length /\ table' = table
        /\ numfree' = SlidFree /\ numbad' = SlidBad
        /\ best' = (IF better THEN start + 1 ELSE best)
        /\ maxnum' = (IF better THEN SlidFree ELSE maxnum)
        /\ fn' = "none" => better /\ SlidFree = length
    BY DEF MostFree, Return, Loop
  <1>4. /\ SlidFree = Cardinality(FreeIn(start + 1, length))
        /\ SlidBad = Cardinality(BadIn(start + 1, length))
    BY <1>1, <1>2, WindowSlides DEF SlidFree, SlidBad
  <1>5. \A s \in Int : /\ Cardinality(FreeIn(s, length)) \in 0 .. length
                       /\ IsFiniteSet(BadIn(s, length))
                       /\ FreeIn(s, length)' = FreeIn(s, length)
                       /\ BadIn(s, length)' = BadIn(s, length)
    BY <1>1, <1>3, FreeInBound DEF FreeIn, BadIn, Free, Bad
  <1>6. SlidBad = 0 <=> BadIn(start + 1, length) = {}
    BY <1>1, <1>4, <1>5, FS_EmptySet
  <1>7. SlidFree \in 0 .. length /\ SlidFree \in Int
    BY <1>1, <1>4, <1>5
  <1>8. SlidBad = 0 => SlidFree <= maxnum'
    BY <1>1, <1>3, <1>7
  <1>9. maxnum' >= maxnum /\ maxnum' \in Int
    BY <1>1, <1>3, <1>7
  <1> HIDE DEF better
  <1>10. maxnum' > 0 => /\ best' \in 2 .. start + 1 /\ BadIn(best', length) = {}
                        /\ maxnum' = Cardinality(FreeIn(best', length))
    <2>1. CASE better
      BY <1>1, <1>3, <1>4, <1>6, <2>1 DEF better
    <2>2. CASE ~ better
      BY <1>1, <1>2, <1>3, <2>2
    <2>3. QED
      BY <2>1, <2>2
  <1>11. \A s \in 2 .. start + 1 :
            BadIn(s, length) = {} => Cardinality(FreeIn(s, length)) <= maxnum'
    <2>1. TAKE s \in 2 .. start + 1
    <2>2. CASE s = start + 1
      BY <1>4, <1>6, <1>8, <2>2
    <2>3. CASE s # start + 1
      <3>1. s \in 2 .. start /\ s \in Int
        BY <1>1, <2>3
      <3>2. Cardinality(FreeIn(s, length)) \in Int
        BY <1>5, <3>1
      <3>3. QED
        BY <1>1, <1>2, <1>9, <3>1, <3>2
    <2>4. QED
      BY <2>2, <2>3
  <1>12. best' \in Int
    BY <1>1, <1>3
  <1>13. Slid(length, start)'
    <2>1. table' = table /\ start' = start + 1 /\ length' = length
          /\ numfree' = Cardinality(FreeIn(start + 1, length))
          /\ numbad' = Cardinality(BadIn(start + 1, length))
      BY <1>3, <1>4
    <2>2. QED
      <3>1. /\ numfree' = Cardinality(FreeIn(start, length))'
            /\ numbad' = Cardinality(BadIn(start, length))'
        BY <1>1, <1>5, <2>1
      <3>2. maxnum' > 0 => /\ best' \in FAT_FIRST .. start + 1
                           /\ BadIn(best, length)' = {}
                           /\ maxnum' = Cardinality(FreeIn(best, length))'
        BY <1>5, <1>10, <1>12, <2>1
      <3>3. \A s \in FAT_FIRST .. start + 1 :
               BadIn(s, length)' = {} => Cardinality(FreeIn(s, length))' <= maxnum'
        <4>1. \A s \in FAT_FIRST .. start + 1 : s \in Int
          BY <1>1
        <4>2. QED
          BY <1>5, <1>11, <2>1, <4>1
      <3>4. QED
        BY <1>1, <2>1, <3>1, <3>2, <3>3 DEF Slid
  <1>14. ASSUME fn' = "none" PROVE Slid(length, Last - length + 1)'
    <2>1. maxnum' = length
      BY <1>3, <1>14
    <2>2. \A s \in 2 .. Last - length + 1 : Cardinality(FreeIn(s, length)) <= maxnum'
      BY <1>1, <1>5, <2>1
    <2>3. maxnum' > 0 => best' \in 2 .. Last - length + 1
      BY <1>1, <1>10
    <2>4. QED
      BY <1>1, <1>3, <1>4, <1>5, <1>10, <1>12, <2>2, <2>3 DEF Slid
  <1>15. QED
    BY <1>1, <1>3, <1>13, <1>14

LEMMA MostFreeStep ==
    ASSUME IInv, MostFree
    PROVE  IInv' /\ (fn' = "none" => Slid(length, Last - length + 1)')
  <1>1. /\ start \in Clusters /\ length \in Nat /\ length > 0 /\ Slid(length, start)
        /\ start + length - 1 <= Last
    BY DEF MostFree, IInv, TypeOK, SlideInv
  <1>2. SlidFree \in Int /\ SlidBad \in Int
    BY DEF SlidFree, SlidBad, One, IInv, TypeOK
  <1>3. CASE start + length > Last
    <2>1. fn' = "none" /\ TypeOK' /\ UNCHANGED <<table, start, length, window, best, maxnum>>
      BY <1>3 DEF MostFree, Return, IInv, TypeOK, window, loop
    <2>2. start = Last - length + 1
      BY <1>1, <1>3, LastAssumption DEF Clusters
    <2>3. Slid(length, Last - length + 1)
      BY <1>1, <2>2
    <2>4. Slid(length, Last - length + 1)'
      BY <2>1, <2>3 DEF Slid, FreeIn, BadIn, Free, Bad, window
    <2>5. QED
      BY <2>1, <2>4 DEF IInv, FindInv, LongestInv, SlideInv
  <1>4. CASE ~ (start + length > Last)
    <2>1. start + 1 \in Clusters /\ start + 1 \in Int
      BY <1>1, <1>4, LastAssumption DEF Clusters
    <2>2. /\ start' = start + 1 /\ fn' \in {"mostfree", "none"}
          /\ result' \in {result, start + 1}
      BY <1>4 DEF MostFree, Return, Loop
    <2>3. TypeOK'
      BY <1>2, <1>4, <2>1, <2>2 DEF MostFree, IInv, TypeOK, loop
    <2>4. SlideInv'
      <3>1. /\ Slid(length, start)' /\ start' = start + 1 /\ length' = length
            /\ start + 1 + length - 1 <= Last
        BY <1>4, SlideStep
      <3>2. QED
        BY <1>1, <3>1 DEF SlideInv
    <2>5. QED
      BY <1>4, <2>2, <2>3, <2>4, SlideStep DEF IInv, FindInv, LongestInv
  <1>5. QED
    BY <1>3, <1>4

-----------------------------------------------------------------------------
LEMMA TakeInv == ASSUME IInv, Take PROVE IInv'
  <1>1. FAT_FIRST \in Clusters
    BY LastAssumption DEF Clusters
  <1>2. TypeOK' /\ fn' = "none"
    BY <1>1 DEF Take, Taken, IInv, TypeOK, NoResult
  <1>3. QED
    BY <1>2 DEF IInv, FindInv, LongestInv, SlideInv

LEMMA StutterInv == ASSUME IInv, UNCHANGED searchvars PROVE IInv'
  <1>1. UNCHANGED <<table, last, fn, result, begin, end, start, length, cl, first, count,
                    numfree, numbad, index, best, maxnum, maxindex>>
    BY DEF searchvars, search, locals, arguments, loop, window, found
  <1>2. TypeOK'
    BY <1>1 DEF IInv, TypeOK
  <1>3. FindInv'
    BY <1>1 DEF IInv, FindInv, Counted, AreaAllowed, Area, IsBetween, Free
  <1>4. LongestInv'
    BY <1>1 DEF IInv, LongestInv, ClosedUnder
  <1>5. SlideInv'
    BY <1>1 DEF IInv, SlideInv, Slid, FreeIn, BadIn, Free, Bad
  <1>6. QED
    BY <1>2, <1>3, <1>4, <1>5 DEF IInv

LEMMA StepInv == ASSUME IInv, [SearchesNext]_searchvars PROVE IInv'
  <1>1. CASE CallAny
    BY <1>1, CallAnyInv
  <1>2. CASE Find
    BY <1>2, FindKeepsInv
  <1>3. CASE Allocated \/ NumFree \/ AreaBad
    BY <1>3, OtherLoops
  <1>4. CASE MostFree
    BY <1>4, MostFreeStep
  <1>5. CASE Longest
    BY <1>5, LongestKeepsInv
  <1>6. CASE Take
    BY <1>6, TakeInv
  <1>7. CASE UNCHANGED searchvars
    BY <1>7, StutterInv
  <1>8. QED
    BY <1>1, <1>2, <1>3, <1>4, <1>5, <1>6, <1>7 DEF SearchesNext, Searching

LEMMA Invariant == SearchesSpec => []IInv
  BY InitInv, StepInv, PTL DEF SearchesSpec

(* lib/table.c: the variables of the searches keep to their ranges: no     *)
(* cluster out of the filesystem is ever looked up in the table.           *)
THEOREM TypeCorrect == SearchesSpec => []TypeOK
  <1>1. IInv => TypeOK
    BY DEF IInv
  <1>2. QED
    BY <1>1, Invariant, PTL

(* fatclusterfindfreesequencebetween(), table.c:572: what it returns is    *)
(* the first of as many free clusters as asked, one after the other, all   *)
(* in the area, for any table and wherever the search starts.              *)
THEOREM FoundIsInArea == SearchesSpec => FoundInArea
  <1>1. ASSUME IInv, SearchesNext, fn = "find", fn' = "none", result' # FAT_ERR
        PROVE  \A c \in result' .. result' + length - 1 : c \in Area(begin, end) /\ Free(c)
    <2>1. Find
      BY <1>1 DEF SearchesNext, Searching, CallAny, Take, Allocated, NumFree, AreaBad, MostFree,
                  Longest
    <2>2. Free(cl) /\ count' = length /\ result' = SequenceFirst /\ count' = SequenceCount
      BY <1>1, <2>1 DEF Find, LoopOrReturn, Loop, Return
    <2>3. cl \in Int /\ SequenceFirst \in 2 .. Last /\ length > 0 /\ count \in Nat
          /\ Last \in Nat /\ length \in Nat
      BY <1>1, FindNumbers DEF SequenceFirst
    <2>4. cl >= SequenceFirst
      BY <2>2, <2>3 DEF SequenceCount
    <2>5. /\ count' = count + 1 /\ cl = result' + count
          /\ \A c \in result' .. cl : c \in Area(begin, end) /\ Free(c)
      BY <1>1, <2>2, <2>4, OneMore
    <2>6. result' + length - 1 = cl
      BY <2>2, <2>3, <2>5
    <2>7. QED
      BY <2>5, <2>6
  <1>2. ASSUME IInv, [SearchesNext]_searchvars
        PROVE  [Returning("find") /\ result' # FAT_ERR =>
                  \A c \in result' .. result' + length - 1 :
                     c \in Area(begin, end) /\ Free(c)]_searchvars
    BY <1>1, <1>2 DEF Returning
  <1>3. QED
    BY <1>2, Invariant, PTL DEF SearchesSpec, FoundInArea

(* fatclustermostfree(), table.c:668: no area of that size without bad     *)
(* clusters has more free ones than the area it returns, for any table.    *)
THEOREM MostFreeIsBest == SearchesSpec => MostFreeBest
  <1>1. ASSUME IInv, SearchesNext, fn = "mostfree", fn' = "none"
        PROVE  Slid(length, Last - length + 1)'
    <2>1. MostFree
      BY <1>1 DEF SearchesNext, Searching, CallAny, Take, Allocated, NumFree, AreaBad, Find,
                  Longest
    <2>2. QED
      BY <1>1, <2>1, MostFreeStep
  <1>2. ASSUME IInv, [SearchesNext]_searchvars
        PROVE  [Returning("mostfree") => Slid(length, Last - length + 1)']_searchvars
    BY <1>1, <1>2 DEF Returning
  <1>3. QED
    BY <1>2, Invariant, PTL DEF SearchesSpec, MostFreeBest

-----------------------------------------------------------------------------
(* The loops that count the clusters of an area, and the search of one     *)
(* free cluster.                                                           *)

(* The clusters a loop from s has gone through when it is at c.            *)
Gone(s, c, b, e) ==
    {x \in Area(b, e) :
        IF Rank(s, b) <= Rank(c, b)
        THEN Rank(s, b) <= Rank(x, b) /\ Rank(x, b) < Rank(c, b)
        ELSE Rank(s, b) <= Rank(x, b) \/ Rank(x, b) < Rank(c, b)}

FreeOf(set) == {c \in set : Free(c)}
BadOf(set)  == {c \in set : Bad(c)}

GoneNow(s) == Gone(s, cl, begin, end)

(* The count is that of the clusters gone through; one bad cluster ends a  *)
(* loop that looks for one, one in use a loop that looks for it.           *)
NumFreeInv ==
    fn = "numfree" =>
       /\ cl \in Area(begin, end)
       /\ count = Cardinality(FreeOf(GoneNow(begin)))

AreaBadInv ==
    fn = "areabad" =>
       /\ cl \in Area(begin, end) /\ length \in {0, 1}
       /\ count = Cardinality(BadOf(GoneNow(begin)))
       /\ length = 1 => BadOf(GoneNow(begin)) = {}

AllocatedInv ==
    fn = "allocated" =>
       /\ cl \in Area(begin, end) /\ start \in Area(begin, end)
       /\ \A c \in GoneNow(start) : ~ Used(c)

CountInv == NumFreeInv /\ AreaBadInv /\ AllocatedInv

(* The search of one free cluster has gone through none.                   *)
OneInv ==
    fn = "find" /\ length = 1 =>
       /\ start \in Area(begin, end)
       /\ \A c \in GoneNow(start) : ~ Free(c)

-----------------------------------------------------------------------------
(* An area is numbered from zero without a gap, in the order of the loop.  *)
LEMMA AreaIs ==
    ASSUME NEW b \in Clusters, NEW e \in Clusters, NEW c
    PROVE  c \in Area(b, e) <=>
              /\ c \in Int /\ Last \in Nat /\ b \in 2 .. Last /\ e \in 2 .. Last
              /\ c \in 2 .. Last
              /\ IF b <= e THEN c >= b /\ c <= e ELSE c >= b \/ c <= e
  <1>1. Last \in Nat /\ b \in 2 .. Last /\ e \in 2 .. Last
    BY LastAssumption DEF Clusters
  <1>2. CASE b = e
    BY <1>1, <1>2 DEF Area
  <1>3. CASE b # e
    <2>1. c \in Area(b, e) <=> c \in 2 .. Last /\ IsBetween(c, b, e)
      BY <1>3 DEF Area, Clusters
    <2>2. QED
      BY <1>1, <1>3, <2>1 DEF IsBetween
  <1>4. QED
    BY <1>2, <1>3

LEMMA RankFacts ==
    ASSUME NEW b \in Clusters, NEW e \in Clusters, NEW c \in Area(b, e)
    PROVE  /\ c \in Clusters /\ b \in Area(b, e) /\ e \in Area(b, e)
           /\ Rank(c, b) \in 0 .. Rank(e, b) /\ Rank(b, b) = 0
           /\ Rank(e, b) \in Nat
           /\ \A x \in Area(b, e) : Rank(x, b) = Rank(c, b) => x = c
  <1>1. /\ Last \in Nat /\ b \in 2 .. Last /\ e \in 2 .. Last /\ c \in 2 .. Last
        /\ IF b <= e THEN c >= b /\ c <= e ELSE c >= b \/ c <= e
    BY AreaIs DEF Clusters
  <1>2. b \in Area(b, e) /\ e \in Area(b, e)
    BY <1>1, AreaIs
  <1>3. c \in Clusters
    BY <1>1 DEF Clusters
  <1>4. Rank(c, b) \in 0 .. Rank(e, b) /\ Rank(b, b) = 0 /\ Rank(e, b) \in Nat
    BY <1>1 DEF Rank
  <1>5. ASSUME NEW x \in Area(b, e), Rank(x, b) = Rank(c, b) PROVE x = c
    <2>1. x \in 2 .. Last
      BY AreaIs
    <2>2. QED
      BY <1>1, <1>5, <2>1 DEF Rank
  <1>6. QED
    BY <1>2, <1>3, <1>4, <1>5

LEMMA RankNext ==
    ASSUME NEW b \in Clusters, NEW e \in Clusters, NEW c \in Area(b, e)
    PROVE  /\ c = e => IntervalNext(c, b, e) = b
           /\ c # e => Rank(IntervalNext(c, b, e), b) = Rank(c, b) + 1
  <1>1. /\ Last \in Nat /\ b \in 2 .. Last /\ e \in 2 .. Last /\ c \in 2 .. Last
        /\ IF b <= e THEN c >= b /\ c <= e ELSE c >= b \/ c <= e
    BY AreaIs DEF Clusters
  <1>2. CASE c = e
    BY <1>1, <1>2, NextNumber
  <1>3. CASE c # e /\ c = Last
    <2>1. IntervalNext(c, b, e) = 2 /\ b > e
      BY <1>1, <1>3, NextNumber
    <2>2. QED
      BY <1>1, <1>3, <2>1 DEF Rank
  <1>4. CASE c # e /\ c # Last
    <2>1. IntervalNext(c, b, e) = c + 1
      BY <1>1, <1>4, NextNumber
    <2>2. QED
      BY <1>1, <1>4, <2>1 DEF Rank
  <1>5. QED
    BY <1>2, <1>3, <1>4

LEMMA GoneNone ==
    ASSUME NEW b \in Clusters, NEW e \in Clusters, NEW s \in Area(b, e)
    PROVE  Gone(s, s, b, e) = {}
  <1>1. Rank(s, b) \in Int /\ \A x \in Area(b, e) : Rank(x, b) \in Int
    BY RankFacts
  <1>2. QED
    BY <1>1 DEF Gone

(* A step of the loop goes through one more cluster; when it comes back to *)
(* where it started, it has gone through all.                              *)
LEMMA GoneOn ==
    ASSUME NEW b \in Clusters, NEW e \in Clusters, NEW s \in Area(b, e),
           NEW c \in Area(b, e)
    PROVE  /\ c \notin Gone(s, c, b, e)
           /\ IF IntervalNext(c, b, e) = s
              THEN Gone(s, c, b, e) \cup {c} = Area(b, e)
              ELSE Gone(s, IntervalNext(c, b, e), b, e) = Gone(s, c, b, e) \cup {c}
  <1> DEFINE n == IntervalNext(c, b, e)
             r(x) == Rank(x, b)
             top == r(e)
  <1>1. n \in Area(b, e) /\ e \in Area(b, e)
    BY NextInArea, RankFacts
  <1>2. top \in Nat /\ \A x \in Area(b, e) : r(x) \in 0 .. top
    BY RankFacts
  <1>3. \A x, y \in Area(b, e) : r(x) = r(y) => x = y
    BY RankFacts
  <1>4. c # e => r(n) = r(c) + 1
    BY RankNext
  <1>5. c = e => r(n) = 0
    BY RankNext, RankFacts
  <1>6. /\ r(c) \in 0 .. top /\ r(s) \in 0 .. top /\ r(n) \in 0 .. top
        /\ n = s <=> r(n) = r(s)
        /\ c = e <=> r(c) = top
        /\ \A x \in Area(b, e) : r(x) \in 0 .. top /\ (x = c <=> r(x) = r(c))
    BY <1>1, <1>2, <1>3
  <1>7. Gone(s, c, b, e) = {x \in Area(b, e) :
            IF r(s) <= r(c) THEN r(s) <= r(x) /\ r(x) < r(c)
            ELSE r(s) <= r(x) \/ r(x) < r(c)}
    BY DEF Gone
  <1>8. Gone(s, n, b, e) = {x \in Area(b, e) :
            IF r(s) <= r(n) THEN r(s) <= r(x) /\ r(x) < r(n)
            ELSE r(s) <= r(x) \/ r(x) < r(n)}
    BY DEF Gone
  <1> HIDE DEF n, r, top
  <1>9. c \notin Gone(s, c, b, e)
    BY <1>2, <1>6, <1>7
  <1>10. ASSUME n = s PROVE Gone(s, c, b, e) \cup {c} = Area(b, e)
    BY <1>2, <1>4, <1>5, <1>6, <1>7, <1>10
  <1>11. ASSUME n # s PROVE Gone(s, n, b, e) = Gone(s, c, b, e) \cup {c}
    BY <1>2, <1>4, <1>5, <1>6, <1>7, <1>8, <1>11
  <1>12. QED
    BY <1>9, <1>10, <1>11 DEF n

LEMMA AreaFinite ==
    ASSUME NEW b \in Clusters, NEW e \in Clusters, NEW set \in SUBSET Area(b, e)
    PROVE  IsFiniteSet(set)
  <1>1. IsFiniteSet(Clusters)
    BY FS_Interval, LastAssumption DEF Clusters
  <1>2. set \in SUBSET Clusters
    BY DEF Area
  <1>3. QED
    BY <1>1, <1>2, FS_Subset

LEMMA CountOne ==
    ASSUME NEW b \in Clusters, NEW e \in Clusters, NEW set \in SUBSET Area(b, e),
           NEW c, c \notin set
    PROVE  /\ Cardinality(FreeOf(set \cup {c})) =
                 Cardinality(FreeOf(set)) + (IF Free(c) THEN 1 ELSE 0)
           /\ Cardinality(BadOf(set \cup {c})) =
                 Cardinality(BadOf(set)) + (IF Bad(c) THEN 1 ELSE 0)
           /\ Cardinality(FreeOf(set)) \in Nat /\ Cardinality(BadOf(set)) \in Nat
  <1>1. IsFiniteSet(FreeOf(set)) /\ IsFiniteSet(BadOf(set))
    BY AreaFinite DEF FreeOf, BadOf
  <1>2. Cardinality(FreeOf(set)) \in Nat /\ Cardinality(BadOf(set)) \in Nat
    BY <1>1, FS_CardinalityType
  <1>3. FreeOf(set \cup {c}) = IF Free(c) THEN FreeOf(set) \cup {c} ELSE FreeOf(set)
    BY DEF FreeOf
  <1>4. BadOf(set \cup {c}) = IF Bad(c) THEN BadOf(set) \cup {c} ELSE BadOf(set)
    BY DEF BadOf
  <1>5. c \notin FreeOf(set) /\ c \notin BadOf(set)
    BY DEF FreeOf, BadOf
  <1>6. /\ Cardinality(FreeOf(set) \cup {c}) = Cardinality(FreeOf(set)) + 1
        /\ Cardinality(BadOf(set) \cup {c}) = Cardinality(BadOf(set)) + 1
    BY <1>1, <1>5, FS_AddElement
  <1>7. QED
    BY <1>2, <1>3, <1>4, <1>6

-----------------------------------------------------------------------------
LEMMA InitCount == SearchesInit => CountInv
  BY DEF SearchesInit, SearchInit, CountInv, NumFreeInv, AreaBadInv, AllocatedInv

(* A loop begins where it has gone through no cluster.                     *)
LEMMA CallCount ==
    ASSUME IInv, NEW f \in {"allocated", "numfree", "areabad"},
           NEW b \in Clusters, NEW e \in Clusters, NEW s \in Clusters, NEW n \in {0, 1},
           Call(f, b, e, s, n), UNCHANGED table,
           b = e => s = b, f # "allocated" => s = b
    PROVE  CountInv'
  <1>1. \/ fn' = "exit"
        \/ /\ fn' = f
           /\ begin' = b /\ end' = e /\ length' = n
           /\ start' = (IF IsBetween(s, b, e) THEN s ELSE b)
           /\ cl' = start' /\ count' = 0
    BY CallType DEF IInv
  <1>2. CASE fn' = "exit"
    BY <1>2 DEF CountInv, NumFreeInv, AreaBadInv, AllocatedInv
  <1>3. CASE fn' = f /\ fn' # "exit"
    <2>1. start' \in Area(b, e) /\ cl' = start' /\ begin' = b /\ end' = e
      BY <1>1, <1>3, StartInArea
    <2>2. f # "allocated" => start' = b
      BY <1>1, <1>3
    <2>3. Area(begin, end)' = Area(b, e)
      BY <2>1 DEF Area, IsBetween
    <2>4. GoneNow(start)' = {}
      <3>1. Gone(start', start', b, e) = {}
        BY <2>1, GoneNone
      <3>2. GoneNow(start)' = Gone(start', cl', begin', end')
        BY DEF GoneNow, Gone, Rank, Area, IsBetween
      <3>3. QED
        BY <2>1, <3>1, <3>2
    <2>5. f # "allocated" => GoneNow(begin)' = {}
      <3>1. ASSUME start' = begin' PROVE GoneNow(begin)' = GoneNow(start)'
        BY <3>1 DEF GoneNow, Gone
      <3>2. QED
        BY <2>1, <2>2, <2>4, <3>1
    <2>6. f # "allocated" => /\ FreeOf(GoneNow(begin))' = {}
                             /\ BadOf(GoneNow(begin))' = {}
      BY <2>5 DEF FreeOf, BadOf
    <2>7. count' = 0 /\ length' \in {0, 1} /\ Cardinality({}) = 0
      BY <1>1, <1>3, FS_EmptySet
    <2>8. NumFreeInv'
      BY <1>3, <2>1, <2>3, <2>6, <2>7 DEF NumFreeInv
    <2>9. AreaBadInv'
      BY <1>3, <2>1, <2>3, <2>6, <2>7 DEF AreaBadInv
    <2>10. AllocatedInv'
      BY <1>3, <2>1, <2>3, <2>4 DEF AllocatedInv
    <2>11. QED
      BY <2>8, <2>9, <2>10 DEF CountInv
  <1>4. QED
    BY <1>1, <1>2, <1>3

-----------------------------------------------------------------------------
(* A step of a loop that goes on, and what it has gone through as it ends. *)
LEMMA LoopStep ==
    ASSUME TypeOK, cl \in Area(begin, end), NEW s \in Area(begin, end),
           UNCHANGED <<table, begin, end>>, cl' = IntervalNext(cl, begin, end)
    PROVE  /\ cl \notin GoneNow(s) /\ GoneNow(s) \in SUBSET Area(begin, end)
           /\ cl' = s => GoneNow(s) \cup {cl} = Area(begin, end)
           /\ cl' # s => Gone(s, cl', begin', end') = GoneNow(s) \cup {cl}
           /\ cl' \in Area(begin, end) /\ Area(begin, end)' = Area(begin, end)
  <1>1. begin \in Clusters /\ end \in Clusters
    BY DEF TypeOK
  <1>2. cl' \in Area(begin, end) /\ Area(begin, end)' = Area(begin, end)
    BY <1>1, NextInArea DEF Area, IsBetween
  <1>3. GoneNow(s) \in SUBSET Area(begin, end)
    BY DEF GoneNow, Gone
  <1>4. Gone(s, cl', begin', end') = Gone(s, cl', begin, end)
    BY DEF Gone
  <1>5. QED
    BY <1>1, <1>2, <1>3, <1>4, GoneOn DEF GoneNow

LEMMA NumFreeStep ==
    ASSUME IInv, CountInv, NumFree
    PROVE  /\ CountInv'
           /\ fn' = "none" => result' = Cardinality(FreeOf(Area(begin, end)))
  <1>1. /\ fn = "numfree" /\ UNCHANGED <<table, begin, end, start, length>>
        /\ count' = count + (IF Free(cl) THEN 1 ELSE 0)
        /\ cl' = IntervalNext(cl, begin, end)
        /\ IF cl' = begin THEN fn' = "none" /\ result' = count' ELSE fn' = fn
    BY DEF NumFree, LoopOrReturn, Return, Loop, arguments
  <1>2. TypeOK /\ begin \in Clusters /\ end \in Clusters /\ cl \in Area(begin, end)
        /\ count = Cardinality(FreeOf(GoneNow(begin)))
    BY <1>1 DEF IInv, TypeOK, CountInv, NumFreeInv
  <1>3. begin \in Area(begin, end)
    BY <1>2, RankFacts
  <1>4. /\ cl \notin GoneNow(begin) /\ GoneNow(begin) \in SUBSET Area(begin, end)
        /\ cl' = begin => GoneNow(begin) \cup {cl} = Area(begin, end)
        /\ cl' # begin => Gone(begin, cl', begin', end') = GoneNow(begin) \cup {cl}
        /\ cl' \in Area(begin, end) /\ Area(begin, end)' = Area(begin, end)
    BY <1>1, <1>2, <1>3, LoopStep
  <1>5. count' = Cardinality(FreeOf(GoneNow(begin) \cup {cl}))
    BY <1>1, <1>2, <1>4, CountOne
  <1>6. CASE cl' = begin
    BY <1>1, <1>4, <1>5, <1>6 DEF CountInv, NumFreeInv, AreaBadInv, AllocatedInv
  <1>7. CASE cl' # begin
    <2>1. GoneNow(begin)' = GoneNow(begin) \cup {cl}
      BY <1>1, <1>4, <1>7 DEF GoneNow, Gone
    <2>2. FreeOf(GoneNow(begin))' = FreeOf(GoneNow(begin) \cup {cl})
      BY <1>1, <2>1 DEF FreeOf, Free
    <2>3. QED
      BY <1>1, <1>4, <1>5, <1>7, <2>2 DEF CountInv, NumFreeInv, AreaBadInv, AllocatedInv
  <1>8. QED
    BY <1>6, <1>7

LEMMA AreaBadStep ==
    ASSUME IInv, CountInv, AreaBad
    PROVE  /\ CountInv'
           /\ fn' = "none" =>
                 LET bad == BadOf(Area(begin, end))
                 IN  result' = IF length = 0 THEN Cardinality(bad)
                               ELSE IF bad = {} THEN 0 ELSE -1
  <1>1. fn = "areabad" /\ UNCHANGED <<table, begin, end, start, length>>
    BY DEF AreaBad, arguments
  <1>2. /\ TypeOK /\ begin \in Clusters /\ end \in Clusters /\ cl \in Area(begin, end)
        /\ length \in {0, 1}
        /\ count = Cardinality(BadOf(GoneNow(begin)))
        /\ length = 1 => BadOf(GoneNow(begin)) = {}
    BY <1>1 DEF IInv, TypeOK, CountInv, AreaBadInv
  <1>3. CASE Bad(cl) /\ length = 1
    <2>1. fn' = "none" /\ result' = -1
      BY <1>3 DEF AreaBad, Return
    <2>2. BadOf(Area(begin, end)) # {}
      BY <1>2, <1>3 DEF BadOf
    <2>3. QED
      BY <1>3, <2>1, <2>2 DEF CountInv, NumFreeInv, AreaBadInv, AllocatedInv
  <1>4. CASE ~ (Bad(cl) /\ length = 1)
    <2>1. /\ count' = count + (IF Bad(cl) THEN 1 ELSE 0)
          /\ cl' = IntervalNext(cl, begin, end)
          /\ IF cl' = begin THEN fn' = "none" /\ result' = count' ELSE fn' = fn
      BY <1>4 DEF AreaBad, LoopOrReturn, Return, Loop
    <2>2. begin \in Area(begin, end)
      BY <1>2, RankFacts
    <2>3. /\ cl \notin GoneNow(begin) /\ GoneNow(begin) \in SUBSET Area(begin, end)
          /\ cl' = begin => GoneNow(begin) \cup {cl} = Area(begin, end)
          /\ cl' # begin => Gone(begin, cl', begin', end') = GoneNow(begin) \cup {cl}
          /\ cl' \in Area(begin, end) /\ Area(begin, end)' = Area(begin, end)
      BY <1>1, <1>2, <2>1, <2>2, LoopStep
    <2>4. count' = Cardinality(BadOf(GoneNow(begin) \cup {cl}))
      BY <1>2, <2>1, <2>3, CountOne
    <2>5. length = 1 => BadOf(GoneNow(begin) \cup {cl}) = {}
      BY <1>2, <1>4 DEF BadOf
    <2>6. CASE cl' = begin
      <3>1. length = 1 => result' = 0
        BY <2>1, <2>4, <2>5, <2>6, FS_EmptySet
      <3>2. QED
        BY <1>2, <2>1, <2>3, <2>4, <2>5, <2>6, <3>1
           DEF CountInv, NumFreeInv, AreaBadInv, AllocatedInv
    <2>7. CASE cl' # begin
      <3>1. GoneNow(begin)' = GoneNow(begin) \cup {cl}
        BY <1>1, <2>3, <2>7 DEF GoneNow, Gone
      <3>2. BadOf(GoneNow(begin))' = BadOf(GoneNow(begin) \cup {cl})
        BY <1>1, <3>1 DEF BadOf, Bad
      <3>3. QED
        BY <1>1, <1>2, <2>1, <2>3, <2>4, <2>5, <2>7, <3>2
           DEF CountInv, NumFreeInv, AreaBadInv, AllocatedInv
    <2>8. QED
      BY <2>6, <2>7
  <1>5. QED
    BY <1>3, <1>4

LEMMA AllocatedStep ==
    ASSUME IInv, CountInv, Allocated
    PROVE  /\ CountInv'
           /\ fn' = "none" =>
                 LET used == {c \in Area(begin, end) : Used(c)}
                 IN  IF used = {} THEN result' = FAT_ERR ELSE result' \in used
  <1>1. fn = "allocated" /\ UNCHANGED <<table, begin, end, start, length>>
    BY DEF Allocated, arguments
  <1>2. /\ TypeOK /\ begin \in Clusters /\ end \in Clusters /\ cl \in Area(begin, end)
        /\ start \in Area(begin, end)
        /\ \A c \in GoneNow(start) : ~ Used(c)
    BY <1>1 DEF IInv, TypeOK, CountInv, AllocatedInv
  <1>3. CASE Used(cl)
    <2>1. fn' = "none" /\ result' = cl
      BY <1>3 DEF Allocated, Return
    <2>2. QED
      BY <1>2, <1>3, <2>1 DEF CountInv, NumFreeInv, AreaBadInv, AllocatedInv
  <1>4. CASE ~ Used(cl)
    <2>1. /\ cl' = IntervalNext(cl, begin, end)
          /\ IF cl' = start THEN fn' = "none" /\ result' = FAT_ERR ELSE fn' = fn
      BY <1>4 DEF Allocated, LoopOrReturn, Return, Loop
    <2>2. /\ cl' = start => GoneNow(start) \cup {cl} = Area(begin, end)
          /\ cl' # start => Gone(start, cl', begin', end') = GoneNow(start) \cup {cl}
          /\ cl' \in Area(begin, end) /\ Area(begin, end)' = Area(begin, end)
      BY <1>1, <1>2, <2>1, LoopStep
    <2>3. \A c \in GoneNow(start) \cup {cl} : ~ Used(c)
      BY <1>2, <1>4
    <2>4. CASE cl' = start
      BY <2>1, <2>2, <2>3, <2>4 DEF CountInv, NumFreeInv, AreaBadInv, AllocatedInv
    <2>5. CASE cl' # start
      <3>1. GoneNow(start)' = GoneNow(start) \cup {cl}
        BY <1>1, <2>2, <2>5 DEF GoneNow, Gone
      <3>2. \A c \in GoneNow(start)' : ~ Used(c)'
        BY <1>1, <2>3, <3>1 DEF Used, Free, Bad
      <3>3. QED
        BY <1>1, <1>2, <2>1, <2>2, <2>5, <3>2
           DEF CountInv, NumFreeInv, AreaBadInv, AllocatedInv
    <2>6. QED
      BY <2>4, <2>5
  <1>5. QED
    BY <1>3, <1>4

-----------------------------------------------------------------------------
LEMMA CallAnyCount == ASSUME IInv, CallAny PROVE CountInv'
  <1>1. ASSUME fn' \in {"none", "exit", "find", "mostfree", "longest"} PROVE CountInv'
    BY <1>1 DEF CountInv, NumFreeInv, AreaBadInv, AllocatedInv
  <1>2. ASSUME NEW b \in Clusters, NEW e \in Clusters, NEW s \in AnyStart,
               NEW n \in 0 .. MaxLength, CallFind(b, e, s, n)
        PROVE  fn' \in {"none", "exit", "find"}
    BY <1>2 DEF CallFind, Call, Return
  <1>3. ASSUME NEW b \in Clusters, NEW e \in Clusters, NEW s \in Clusters,
               AreaAllowed(b, e, s, 1), CallAllocated(b, e, s), UNCHANGED table
        PROVE  CountInv'
    <2>1. b = e => s = b
      BY <1>3 DEF AreaAllowed
    <2>2. QED
      BY <1>3, <2>1, CallCount DEF CallAllocated
  <1>4. ASSUME NEW b \in Clusters, NEW e \in Clusters, NEW one \in {0, 1},
               CallAreaBad(b, e, one), UNCHANGED table
        PROVE  CountInv'
    BY <1>4, CallCount DEF CallAreaBad
  <1>5. ASSUME NEW b \in Clusters, NEW e \in Clusters, CallNumFree(b, e), UNCHANGED table
        PROVE  CountInv'
    BY <1>5, CallCount DEF CallNumFree
  <1>6. ASSUME NEW n \in 1 .. MaxLength, CallMostFree(n), fn = "none"
        PROVE  fn' \in {"none", "mostfree"}
    BY <1>6 DEF CallMostFree, Return
  <1>7. ASSUME NEW s \in Clusters, CallLongest(s) PROVE fn' = "longest"
    BY <1>7 DEF CallLongest
  <1>8. QED
    BY <1>1, <1>2, <1>3, <1>4, <1>5, <1>6, <1>7 DEF CallAny

LEMMA StepCount == ASSUME IInv, CountInv, [SearchesNext]_searchvars PROVE CountInv'
  <1>1. ASSUME fn' \in {"none", "find", "mostfree", "longest"} PROVE CountInv'
    BY <1>1 DEF CountInv, NumFreeInv, AreaBadInv, AllocatedInv
  <1>2. CASE Find \/ MostFree \/ Longest \/ Take
    <2>1. fn' \in {"none", "find", "mostfree", "longest"}
      BY <1>2 DEF Find, MostFree, Longest, Take, LoopOrReturn, Return, Loop
    <2>2. QED
      BY <1>1, <2>1
  <1>3. CASE UNCHANGED searchvars
    <2>1. UNCHANGED <<table, fn, begin, end, start, length, cl, count>>
      BY <1>3 DEF searchvars, search, locals, arguments, loop
    <2>2. QED
      BY <2>1 DEF CountInv, NumFreeInv, AreaBadInv, AllocatedInv, GoneNow, Gone,
                  FreeOf, BadOf, Free, Bad, Used, Area, IsBetween, Rank
  <1>4. QED
    BY <1>2, <1>3, CallAnyCount, NumFreeStep, AreaBadStep, AllocatedStep
       DEF SearchesNext, Searching

LEMMA Counting == SearchesSpec => [](IInv /\ CountInv)
  <1>1. SearchesInit => IInv /\ CountInv
    BY InitInv, InitCount
  <1>2. IInv /\ CountInv /\ [SearchesNext]_searchvars => (IInv /\ CountInv)'
    BY StepInv, StepCount
  <1>3. QED
    BY <1>1, <1>2, PTL DEF SearchesSpec

(* fatclusternumfreebetween(), _fatclusterareabad() and                    *)
(* fatclusterfindallocatedbetween(), table.c: each cluster of the area is  *)
(* counted once, also in an area that goes on from the first cluster of    *)
(* the filesystem, and a cluster in use is found if there is one.          *)
THEOREM AreaCounted == SearchesSpec => CountsRight
  <1>1. ASSUME IInv, CountInv, SearchesNext, fn' = "none",
               fn \in {"numfree", "areabad", "allocated"}
        PROVE  \/ fn = "numfree" /\ NumFree
               \/ fn = "areabad" /\ AreaBad
               \/ fn = "allocated" /\ Allocated
    BY <1>1 DEF SearchesNext, Searching, CallAny, Take, Find, MostFree, Longest, NumFree, AreaBad,
                Allocated
  <1>2. ASSUME IInv, CountInv, [SearchesNext]_searchvars
        PROVE  [/\ Returning("numfree") =>
                      result' = Cardinality({c \in Area(begin, end) : Free(c)})
                /\ Returning("areabad") =>
                      LET bad == {c \in Area(begin, end) : Bad(c)}
                      IN  result' = IF length = 0 THEN Cardinality(bad)
                                    ELSE IF bad = {} THEN 0 ELSE -1
                /\ Returning("allocated") =>
                      LET used == {c \in Area(begin, end) : Used(c)}
                      IN  IF used = {} THEN result' = FAT_ERR ELSE result' \in used]_searchvars
    BY <1>1, <1>2, NumFreeStep, AreaBadStep, AllocatedStep
       DEF Returning, FreeOf, BadOf
  <1>3. QED
    BY <1>2, Counting, PTL DEF SearchesSpec, CountsRight

-----------------------------------------------------------------------------
(* The search of one free cluster.                                         *)
LEMMA CallOne ==
    ASSUME IInv, NEW b \in Clusters, NEW e \in Clusters, NEW s \in AnyStart, NEW n \in Nat,
           AreaAllowed(b, e, From(s), n), CallFind(b, e, s, n), fn = "none",
           UNCHANGED table
    PROVE  OneInv'
  <1>1. CASE n <= 0
    BY <1>1 DEF CallFind, Return, OneInv
  <1>2. CASE n > 0
    <2>1. From(s) \in Clusters /\ Call("find", b, e, From(s), n)
      BY <1>2 DEF From, AnyStart, IInv, TypeOK, CallFind
    <2>2. \/ fn' = "exit"
          \/ /\ begin' = b /\ end' = e
             /\ start' = (IF IsBetween(From(s), b, e) THEN From(s) ELSE b)
             /\ cl' = start'
      BY <2>1, CallType DEF IInv
    <2>3. b = e => From(s) = b
      BY DEF AreaAllowed
    <2>4. CASE fn' = "exit"
      BY <2>4 DEF OneInv
    <2>5. CASE fn' # "exit"
      <3>1. start' \in Area(b, e) /\ cl' = start' /\ begin' = b /\ end' = e
        BY <2>1, <2>2, <2>3, <2>5, StartInArea
      <3>2. Area(begin, end)' = Area(b, e)
        BY <3>1 DEF Area, IsBetween
      <3>3. GoneNow(start)' = {}
        <4>1. Gone(start', start', b, e) = {}
          BY <3>1, GoneNone
        <4>2. GoneNow(start)' = Gone(start', cl', begin', end')
          BY DEF GoneNow, Gone, Rank, Area, IsBetween
        <4>3. QED
          BY <3>1, <4>1, <4>2
      <3>4. QED
        BY <3>1, <3>2, <3>3 DEF OneInv
    <2>6. QED
      BY <2>4, <2>5
  <1>3. QED
    BY <1>1, <1>2

(* A cluster of the area not gone through is no nearer than the current.   *)
LEMMA NoNearer ==
    ASSUME TypeOK, NEW s \in Area(begin, end), NEW c \in Area(begin, end),
           NEW x \in Area(begin, end), x \notin Gone(s, c, begin, end)
    PROVE  Steps(s, c) <= Steps(s, x)
  <1>1. begin \in Clusters /\ end \in Clusters
    BY DEF TypeOK
  <1> DEFINE r(y) == Rank(y, begin)
             top == r(end)
  <1>2. top \in Nat /\ r(s) \in 0 .. top /\ r(c) \in 0 .. top /\ r(x) \in 0 .. top
    BY <1>1, RankFacts
  <1>3. ~ IF r(s) <= r(c) THEN r(s) <= r(x) /\ r(x) < r(c) ELSE r(s) <= r(x) \/ r(x) < r(c)
    BY DEF Gone
  <1>4. /\ Steps(s, c) = IF r(c) - r(s) >= 0 THEN r(c) - r(s) ELSE r(c) - r(s) + top + 1
        /\ Steps(s, x) = IF r(x) - r(s) >= 0 THEN r(x) - r(s) ELSE r(x) - r(s) + top + 1
    BY DEF Steps
  <1> HIDE DEF r, top
  <1>5. QED
    BY <1>2, <1>3, <1>4

LEMMA OneStep ==
    ASSUME IInv, OneInv, Find, length = 1
    PROVE  /\ OneInv'
           /\ fn' = "none" =>
                 LET some == {c \in Area(begin, end) : Free(c)}
                 IN  IF some = {} THEN result' = FAT_ERR
                     ELSE /\ result' \in some /\ last' = result'
                          /\ \A c \in some : Steps(start, result') <= Steps(start, c)
  <1>1. fn = "find" /\ UNCHANGED <<table, begin, end, start, length>>
    BY DEF Find, arguments
  <1>2. /\ TypeOK /\ cl \in Area(begin, end) /\ count = 0
        /\ start \in Area(begin, end) /\ \A c \in GoneNow(start) : ~ Free(c)
    BY <1>1 DEF IInv, TypeOK, FindInv, OneInv
  <1>3. CASE Free(cl)
    <2>1. first' = cl /\ count' = 1 /\ last' = cl
      <3>1. cl \in Int
        BY <1>2 DEF TypeOK, Clusters
      <3>2. QED
        BY <1>2, <1>3, <3>1 DEF Find, SequenceFirst, SequenceCount
    <2>2. fn' = "none" /\ result' = cl
      BY <1>3, <2>1 DEF Find, Return
    <2>3. ASSUME NEW c \in Area(begin, end), Free(c) PROVE Steps(start, cl) <= Steps(start, c)
      BY <1>2, <2>3, NoNearer DEF GoneNow
    <2>4. QED
      BY <1>2, <1>3, <2>1, <2>2, <2>3 DEF OneInv
  <1>4. CASE ~ Free(cl)
    <2>1. /\ cl' = IntervalNext(cl, begin, end)
          /\ IF cl' = start THEN fn' = "none" /\ result' = FAT_ERR ELSE fn' = fn
      BY <1>4 DEF Find, LoopOrReturn, Return, Loop
    <2>2. /\ cl' = start => GoneNow(start) \cup {cl} = Area(begin, end)
          /\ cl' # start => Gone(start, cl', begin', end') = GoneNow(start) \cup {cl}
          /\ Area(begin, end)' = Area(begin, end)
      BY <1>1, <1>2, <2>1, LoopStep
    <2>3. \A c \in GoneNow(start) \cup {cl} : ~ Free(c)
      BY <1>2, <1>4
    <2>4. CASE cl' = start
      BY <2>1, <2>2, <2>3, <2>4 DEF OneInv
    <2>5. CASE cl' # start
      <3>1. GoneNow(start)' = GoneNow(start) \cup {cl}
        BY <1>1, <2>2, <2>5 DEF GoneNow, Gone
      <3>2. \A c \in GoneNow(start)' : ~ Free(c)'
        BY <1>1, <2>3, <3>1 DEF Free
      <3>3. QED
        BY <1>1, <1>2, <2>1, <2>2, <2>5, <3>2 DEF OneInv
    <2>6. QED
      BY <2>4, <2>5
  <1>5. QED
    BY <1>3, <1>4

LEMMA StepOne == ASSUME IInv, OneInv, [SearchesNext]_searchvars PROVE OneInv'
  <1>1. ASSUME fn' # "find" PROVE OneInv'
    BY <1>1 DEF OneInv
  <1>2. CASE Find
    <2>1. length' = length
      BY <1>2 DEF Find, arguments
    <2>2. CASE length = 1
      BY <1>2, <2>2, OneStep
    <2>3. CASE length # 1
      BY <2>1, <2>3 DEF OneInv
    <2>4. QED
      BY <2>2, <2>3
  <1>3. CASE Allocated \/ NumFree \/ AreaBad \/ MostFree \/ Longest \/ Take
    <2>1. fn' # "find"
      BY <1>3 DEF Allocated, NumFree, AreaBad, MostFree, Longest, Take, LoopOrReturn,
                  Return, Loop
    <2>2. QED
      BY <1>1, <2>1
  <1>4. CASE UNCHANGED searchvars
    <2>1. UNCHANGED <<table, fn, begin, end, start, length, cl>>
      BY <1>4 DEF searchvars, search, locals, arguments, loop
    <2>2. QED
      BY <2>1 DEF OneInv, GoneNow, Gone, Free, Area, IsBetween, Rank
  <1>5. CASE CallAny
    <2>1. ASSUME NEW b \in Clusters, NEW e \in Clusters, NEW s \in AnyStart,
                 NEW n \in 0 .. MaxLength, AreaAllowed(b, e, From(s), n),
                 CallFind(b, e, s, n), fn = "none", UNCHANGED table
          PROVE  OneInv'
      <3>1. n \in Nat
        BY <2>1, TablesAssumption
      <3>2. QED
        BY <2>1, <3>1, CallOne
    <2>2. CASE ~ \E b, e \in Clusters, s \in AnyStart, n \in 0 .. MaxLength :
                    AreaAllowed(b, e, From(s), n) /\ CallFind(b, e, s, n)
      <3>1. fn' # "find"
        BY <1>5, <2>2 DEF CallAny, CallAllocated, CallAreaBad, CallNumFree, CallMostFree,
                          CallLongest, Call, Return
      <3>2. QED
        BY <1>1, <3>1
    <2>3. QED
      BY <1>5, <2>1, <2>2 DEF CallAny
  <1>6. QED
    BY <1>2, <1>3, <1>4, <1>5 DEF SearchesNext, Searching

LEMMA SearchingOne == SearchesSpec => [](IInv /\ OneInv)
  <1>1. SearchesInit => IInv /\ OneInv
    BY InitInv DEF SearchesInit, SearchInit, OneInv
  <1>2. IInv /\ OneInv /\ [SearchesNext]_searchvars => (IInv /\ OneInv)'
    BY StepInv, StepOne
  <1>3. QED
    BY <1>1, <1>2, PTL DEF SearchesSpec

(* fatclusterfindfreebetween(), table.c: what it returns is the first free *)
(* cluster met from the start on, going round the area; it fails only when *)
(* the area has none, and the next search goes on from what it found.      *)
THEOREM NearestIsFound == SearchesSpec => NearestFound
  <1>1. ASSUME IInv, OneInv, SearchesNext, fn = "find", fn' = "none", length = 1
        PROVE  LET some == {c \in Area(begin, end) : Free(c)}
               IN  IF some = {} THEN result' = FAT_ERR
                   ELSE /\ result' \in some /\ last' = result'
                        /\ \A c \in some : Steps(start, result') <= Steps(start, c)
    <2>1. Find
      BY <1>1 DEF SearchesNext, Searching, CallAny, Take, Allocated, NumFree, AreaBad, MostFree,
                  Longest
    <2>2. QED
      BY <1>1, <2>1, OneStep
  <1>2. ASSUME IInv, OneInv, [SearchesNext]_searchvars
        PROVE  [Returning("find") /\ length = 1 =>
                  LET some == {c \in Area(begin, end) : Free(c)}
                  IN  IF some = {} THEN result' = FAT_ERR
                      ELSE /\ result' \in some /\ last' = result'
                           /\ \A c \in some :
                                 Steps(start, result') <= Steps(start, c)]_searchvars
    BY <1>1, <1>2 DEF Returning
  <1>3. QED
    BY <1>2, SearchingOne, PTL DEF SearchesSpec, NearestFound

-----------------------------------------------------------------------------
(* The chain that fatclusterlongestlinear() follows.                       *)
LEMMA LeastNumber ==
    ASSUME NEW S \in SUBSET Nat, S # {}
    PROVE  \E k \in S : \A j \in S : k <= j
  <1>1. PICK k \in S : \A j \in S : <<j, k>> \notin OpToRel(<, Nat)
    BY NatLessThanWellFounded, WFMin
  <1>2. ASSUME NEW j \in S
        PROVE  k <= j
    <2>1. ~ (j < k)
      BY <1>1 DEF OpToRel
    <2>2. QED
      BY <2>1
  <1>3. QED
    BY <1>2

Follows(path, s, n) ==
    path = [k \in 0 .. n |-> IF k = 0 THEN s
                             ELSE IF path[k - 1] \in Clusters THEN table[path[k - 1]] ELSE FAT_EOF]

(* The recursive definition does define a function.                        *)
LEMMA FollowingExists ==
    ASSUME NEW s, NEW n \in Nat
    PROVE  \E path : Follows(path, s, n)
  <1> DEFINE S == {k \in Nat : ~ \E path : Follows(path, s, k)}
  <1>1. ASSUME S # {} PROVE FALSE
    <2>1. PICK k \in S : \A j \in S : k <= j
      BY <1>1, LeastNumber
    <2>2. CASE k = 0
      <3>1. Follows([j \in 0 .. 0 |-> s], s, 0)
        BY DEF Follows
      <3>2. QED
        BY <2>1, <2>2, <3>1
    <2>3. CASE k # 0
      <3>1. k - 1 \in Nat /\ k - 1 \notin S
        BY <2>1, <2>3
      <3>2. PICK f : Follows(f, s, k - 1)
        BY <3>1
      <3> DEFINE earlier == f[k - 1]
                 new == IF earlier \in Clusters THEN table[earlier] ELSE FAT_EOF
                 g == [j \in 0 .. k |-> IF j = k THEN new ELSE f[j]]
      <3>3. ASSUME NEW j \in 0 .. k
            PROVE  g[j] = IF j = 0 THEN s
                          ELSE IF g[j - 1] \in Clusters THEN table[g[j - 1]] ELSE FAT_EOF
        <4>1. CASE j = k
          <5>1. g[j - 1] = earlier /\ g[j] = new
            BY <2>3, <3>1, <4>1
          <5>2. QED
            BY <2>3, <4>1, <5>1
        <4>2. CASE j # k
          <5>1. j \in 0 .. k - 1 /\ g[j] = f[j]
            BY <3>1, <4>2
          <5>2. j # 0 => g[j - 1] = f[j - 1]
            BY <3>1, <4>2
          <5>3. f[j] = IF j = 0 THEN s
                       ELSE IF f[j - 1] \in Clusters THEN table[f[j - 1]] ELSE FAT_EOF
            BY <3>2, <5>1 DEF Follows
          <5>4. QED
            BY <5>1, <5>2, <5>3
        <4>3. QED
          BY <4>1, <4>2
      <3>4. g = [j \in 0 .. k |-> g[j]]
        OBVIOUS
      <3> HIDE DEF g
      <3>5. Follows(g, s, k)
        BY <3>3, <3>4 DEF Follows
      <3>6. QED
        BY <2>1, <3>5
    <2>4. QED
      BY <2>2, <2>3
  <1>2. QED
    BY <1>1

LEMMA FollowingIs ==
    ASSUME NEW s
    PROVE  /\ DOMAIN Following(s) = 0 .. Last
           /\ Following(s)[0] = s
           /\ \A k \in 1 .. Last :
                 Following(s)[k] = IF Following(s)[k - 1] \in Clusters
                                   THEN table[Following(s)[k - 1]] ELSE FAT_EOF
  <1>1. Last \in Nat
    BY LastAssumption
  <1>2. Follows(Following(s), s, Last)
    <2>1. \E path : Follows(path, s, Last)
      BY <1>1, FollowingExists
    <2>2. QED
      BY <2>1 DEF Following, Follows
  <1> DEFINE path == Following(s)
  <1> HIDE DEF path
  <1>3. path = [k \in 0 .. Last |-> IF k = 0 THEN s
                                    ELSE IF path[k - 1] \in Clusters THEN table[path[k - 1]] ELSE FAT_EOF]
    BY <1>2 DEF Follows, path
  <1>4. /\ DOMAIN path = 0 .. Last /\ path[0] = s
        /\ \A k \in 1 .. Last :
              path[k] = IF path[k - 1] \in Clusters THEN table[path[k - 1]] ELSE FAT_EOF
    BY <1>1, <1>3
  <1>5. QED
    BY <1>4 DEF path

LEMMA FollowingSame ==
    ASSUME table' = table, start' = start
    PROVE  Following(start)' = Following(start) /\ InChain(start)' = InChain(start)
  BY DEF Following, InChain

(* Of the first i clusters of the chain the last n are in sequence, and    *)
(* the first of the longest sequences begins at k and has m of them.       *)
Linear(path, k, n) == \A j \in 0 .. n - 1 : path[k + j] = path[k] + j

Longer(path, i, n, k, m) ==
    /\ i \in 1 .. Last /\ n \in 1 .. i /\ m \in 1 .. i /\ k \in 0 .. i - m
    /\ Linear(path, i - n, n) /\ (n = i \/ path[i - n] # path[i - n - 1] + 1)
    /\ Linear(path, k, m)
    /\ \A p \in 0 .. i - 1, q \in 1 .. i :
          p + q <= i /\ Linear(path, p, q) => q < m \/ (q = m /\ p >= k)

LEMMA LongerFirst ==
    ASSUME NEW path, path[0] \in Int
    PROVE  Longer(path, 1, 1, 0, 1)
  <1>1. \A p \in 0 .. 0 : Linear(path, p, 1)
    BY DEF Linear
  <1>2. QED
    BY <1>1, LastAssumption DEF Longer

(* One more cluster goes on with the sequence or begins another.           *)
LEMMA LongerOn ==
    ASSUME NEW path \in [0 .. Last -> Int], NEW i, NEW n, NEW k, NEW m,
           Longer(path, i, n, k, m), i + 1 <= Last,
           NEW r, r = IF path[i] = path[i - 1] + 1 THEN n + 1 ELSE 1
    PROVE  Longer(path, i + 1, r, IF r > m THEN i + 1 - r ELSE k, IF r > m THEN r ELSE m)
  <1>1. /\ i \in Nat /\ n \in Nat /\ m \in Nat /\ k \in Nat /\ Last \in Nat /\ i > 0
        /\ n > 0 /\ n <= i /\ m > 0 /\ m <= i /\ k + m <= i
        /\ r \in Nat /\ r > 0 /\ r <= i + 1
    BY LastAssumption DEF Longer
  <1>2. Linear(path, i + 1 - r, r)
    <2>1. CASE path[i] = path[i - 1] + 1
      <3>1. r = n + 1 /\ i + 1 - r = i - n
        BY <1>1, <2>1
      <3>2. ASSUME NEW j \in 0 .. n
            PROVE  path[i - n + j] = path[i - n] + j
        <4>1. CASE j = n
          <5>1. path[i - n + (n - 1)] = path[i - n] + (n - 1)
            BY <1>1 DEF Longer, Linear
          <5>2. i - n + (n - 1) = i - 1 /\ i - n + j = i
            BY <1>1, <4>1
          <5>3. path[i - n] \in Int
            BY <1>1
          <5>4. QED
            BY <1>1, <2>1, <4>1, <5>1, <5>2, <5>3
        <4>2. CASE j # n
          BY <1>1, <4>2 DEF Longer, Linear
        <4>3. QED
          BY <4>1, <4>2
      <3>3. n + 1 - 1 = n
        BY <1>1
      <3>4. Linear(path, i - n, n + 1)
        BY <1>1, <3>2, <3>3 DEF Linear
      <3>5. QED
        BY <3>1, <3>4
    <2>2. CASE path[i] # path[i - 1] + 1
      <3>1. r = 1 /\ path[i] \in Int
        BY <1>1, <2>2
      <3>2. QED
        BY <1>1, <3>1 DEF Linear
    <2>3. QED
      BY <2>1, <2>2
  <1>3. r = i + 1 \/ path[i + 1 - r] # path[i - r] + 1
    <2>1. CASE path[i] = path[i - 1] + 1
      BY <1>1, <2>1 DEF Longer
    <2>2. CASE path[i] # path[i - 1] + 1
      BY <1>1, <2>2
    <2>3. QED
      BY <2>1, <2>2
  <1> DEFINE m1 == IF r > m THEN r ELSE m
             k1 == IF r > m THEN i + 1 - r ELSE k
  <1>4. ASSUME NEW p \in 0 .. i, NEW q \in 1 .. i + 1, p + q <= i + 1, Linear(path, p, q)
        PROVE  q < m1 \/ (q = m1 /\ p >= k1)
    <2>1. CASE p + q <= i
      <3>1. p \in 0 .. i - 1 /\ q \in 1 .. i
        BY <1>1, <2>1
      <3>2. q < m \/ (q = m /\ p >= k)
        BY <1>4, <2>1, <3>1 DEF Longer
      <3>3. QED
        BY <1>1, <3>2
    <2>2. CASE p + q = i + 1
      <3>1. q <= r
        <4>1. SUFFICES ASSUME q > r PROVE FALSE
          BY <1>1
        <4>2. r # i + 1 /\ i + 1 - r - p \in 0 .. q - 1 /\ i - r - p \in 0 .. q - 1
          BY <1>1, <2>2, <4>1
        <4>3. /\ path[p + (i + 1 - r - p)] = path[p] + (i + 1 - r - p)
              /\ path[p + (i - r - p)] = path[p] + (i - r - p)
          BY <1>4, <4>2 DEF Linear
        <4>4. p + (i + 1 - r - p) = i + 1 - r /\ p + (i - r - p) = i - r /\ path[p] \in Int
          BY <1>1
        <4>5. path[i + 1 - r] = path[p] + (i + 1 - r - p) /\ path[i - r] = path[p] + (i - r - p)
          BY <4>3, <4>4
        <4>6. path[i + 1 - r] = path[i - r] + 1
          <5>1. PICK x \in Int : x = path[p]
            BY <4>4
          <5>2. i + 1 - r - p = (i - r - p) + 1 /\ i - r - p \in Int
            BY <1>1
          <5>3. QED
            BY <4>5, <5>1, <5>2
        <4>7. QED
          BY <1>3, <4>2, <4>6
      <3>2. QED
        BY <1>1, <2>2, <3>1
    <2>3. QED
      BY <1>1, <1>4, <2>1, <2>2
  <1>5. Linear(path, k1, m1) /\ m1 \in 1 .. i + 1 /\ k1 \in 0 .. i + 1 - m1
    <2>1. CASE r > m
      BY <1>1, <1>2, <2>1
    <2>2. CASE ~ (r > m)
      BY <1>1, <2>2 DEF Longer
    <2>3. QED
      BY <2>1, <2>2
  <1>6. i + 1 \in 1 .. Last /\ r \in 1 .. i + 1 /\ i + 1 - r - 1 = i - r
    BY <1>1
  <1> HIDE DEF m1, k1
  <1>7. Longer(path, i + 1, r, k1, m1)
    <2>1. i + 1 - 1 = i
      BY <1>1
    <2>0. PICK h : h = i + 1
      OBVIOUS
    <2>2. r = h \/ path[h - r] # path[h - r - 1] + 1
      <3>1. h - r = i + 1 - r /\ h - r - 1 = i - r
        BY <1>1, <2>0
      <3>2. QED
        BY <1>3, <2>0, <3>1
    <2>3. \A p \in 0 .. h - 1, q \in 1 .. h :
             p + q <= h /\ Linear(path, p, q) => q < m1 \/ (q = m1 /\ p >= k1)
      BY <1>1, <1>4, <2>0, <2>1
    <2>4. /\ Linear(path, h - r, r) /\ Linear(path, k1, m1)
          /\ h \in 1 .. Last /\ r \in 1 .. h /\ m1 \in 1 .. h /\ k1 \in 0 .. h - m1
      BY <1>1, <1>2, <1>5, <1>6, <2>0
    <2>5. Longer(path, h, r, k1, m1)
      BY <2>2, <2>3, <2>4 DEF Longer
    <2>6. QED
      BY <2>0, <2>5
  <1>8. QED
    BY <1>7 DEF k1, m1

(* Where the loop is in the chain, and the best sequence so far.           *)
Position == IF maxnum = 1 THEN 0 ELSE maxindex

ChainInv ==
    /\ fn = "longest" => index > 0
    /\ fn \notin {"longest", "none"} => index = 0
    /\ fn = "none" /\ result = NoResult => index = 0
    /\ index > 0 =>
          /\ Following(start)[Last] \notin Clusters
          /\ Longer(Following(start), index, count, Position, maxnum)
          /\ \A j \in 0 .. index - 1 : Following(start)[j] \in Clusters
          /\ Following(start)[index - 1] = cl
          /\ Following(start)[Position] = best
          /\ fn = "none" => table[cl] \notin Clusters

LEMMA FollowingType ==
    ASSUME table \in [Clusters -> NextValues], NEW s \in Clusters
    PROVE  Following(s) \in [0 .. Last -> Int]
  <1> DEFINE path == Following(s)
  <1>1. /\ DOMAIN path = 0 .. Last /\ path[0] = s
        /\ \A k \in 1 .. Last :
              path[k] = IF path[k - 1] \in Clusters THEN table[path[k - 1]] ELSE FAT_EOF
    BY FollowingIs
  <1>2. \E e : path = [k \in 0 .. Last |-> e[k]]
    <2>1. Follows(path, s, Last)
      <3>1. \E f : Follows(f, s, Last)
        BY LastAssumption, FollowingExists
      <3>2. QED
        BY <3>1 DEF Following, Follows
    <2> HIDE DEF path
    <2>2. path = [k \in 0 .. Last |-> path[k]]
      BY <2>1 DEF Follows
    <2>3. QED
      BY <2>2
  <1> HIDE DEF path
  <1>3. ASSUME NEW k \in 0 .. Last PROVE path[k] \in Int
    <2>1. CASE k = 0
      BY <1>1, <2>1 DEF Clusters
    <2>2. CASE k # 0
      <3>1. k \in 1 .. Last
        BY <2>2, LastAssumption
      <3>2. path[k] = FAT_EOF \/ \E c \in Clusters : path[k] = table[c]
        BY <1>1, <3>1
      <3>3. NextValues \subseteq Int /\ FAT_EOF \in Int
        BY DEF NextValues, Clusters
      <3>4. \A c \in Clusters : table[c] \in Int
        BY <3>3
      <3>5. QED
        BY <3>2, <3>3, <3>4
    <2>3. QED
      BY <2>1, <2>2
  <1>4. QED
    BY <1>1, <1>2, <1>3 DEF path

LEMMA CallLongestChain ==
    ASSUME TypeOK, NEW s \in Clusters, ChainEnds(s), CallLongest(s), UNCHANGED table
    PROVE  ChainInv'
  <1> DEFINE path == Following(s)
  <1>1. Following(start)' = path /\ Clusters' = Clusters
    BY DEF CallLongest, Following, Clusters
  <1>2. /\ fn' = "longest" /\ index' = 1 /\ count' = 1 /\ maxnum' = 1 /\ cl' = s
        /\ best' = s /\ Position' = 0
    BY DEF CallLongest, Position
  <1>3. path[0] = s /\ path \in [0 .. Last -> Int] /\ s \in Int /\ path[Last] \notin Clusters
    BY FollowingIs, FollowingType DEF TypeOK, ChainEnds, Clusters
  <1> HIDE DEF path
  <1>4. Longer(path, 1, 1, 0, 1)
    BY <1>3, LongerFirst
  <1>5. \A j \in 0 .. 1 - 1 : path[j] \in Clusters
    BY <1>3
  <1>6. Longer(Following(start), index, count, Position, maxnum)'
    BY <1>1, <1>2, <1>4 DEF Longer
  <1>7. QED
    BY <1>1, <1>2, <1>3, <1>5, <1>6 DEF ChainInv

LEMMA LongestChain ==
    ASSUME IInv, ChainInv, Longest
    PROVE  ChainInv'
  <1> DEFINE path == Following(start)
  <1>1. /\ index > 0 /\ index \in Nat /\ count \in Nat /\ maxnum \in Int /\ maxindex \in Int
        /\ cl \in Clusters /\ table \in [Clusters -> NextValues] /\ start \in Clusters
        /\ fn = "longest"
    BY DEF IInv, TypeOK, ChainInv, Longest
  <1>2. /\ path[Last] \notin Clusters
        /\ Longer(path, index, count, Position, maxnum)
        /\ \A j \in 0 .. index - 1 : path[j] \in Clusters
        /\ path[index - 1] = cl
        /\ path[Position] = best
    BY <1>1 DEF ChainInv
  <1>3. path \in [0 .. Last -> Int]
    BY <1>1, FollowingType
  <1>4. table' = table /\ start' = start /\ Clusters' = Clusters
    BY DEF Longest, arguments
  <1>5. Following(start)' = path
    BY <1>4, FollowingSame
  <1>6. index \in 1 .. Last /\ index - 1 \in 0 .. Last /\ maxnum >= 1
    BY <1>1, <1>2, LastAssumption DEF Longer
  <1>7. CASE table[cl] \in {FAT_EOF, FAT_UNUSED}
    <2>1. /\ fn' = "none" /\ result' = best /\ UNCHANGED <<cl, count, index, best, maxnum, maxindex>>
      BY <1>7 DEF Longest, Return, found
    <2>2. table[cl] \notin Clusters
      BY <1>7, LastAssumption DEF Clusters
    <2>3. best \in Clusters /\ best # NoResult
      <3>1. Position \in 0 .. index - 1
        BY <1>2, LastAssumption DEF Longer
      <3>2. best \in Clusters
        BY <1>2, <3>1
      <3>3. QED
        BY <3>2, LastAssumption DEF Clusters, NoResult
    <2>4. Position' = Position
      BY <2>1 DEF Position
    <2> HIDE DEF path
    <2>5. Longer(Following(start), index, count, Position, maxnum)'
      BY <1>2, <1>5, <2>1, <2>4 DEF Longer
    <2>6. QED
      BY <1>2, <1>4, <1>5, <2>1, <2>2, <2>3, <2>4, <2>5 DEF ChainInv, NoResult
  <1>8. CASE table[cl] \notin {FAT_EOF, FAT_UNUSED}
    <2> DEFINE r == LinearCount
    <2>1. /\ fn' = "longest" /\ count' = r /\ cl' = table[cl] /\ index' = index + 1
          /\ IF r > maxnum
             THEN best' = table[cl] - r + 1 /\ maxnum' = r /\ maxindex' = index - r + 1
             ELSE UNCHANGED <<best, maxnum, maxindex>>
      BY <1>8 DEF Longest, Loop
    <2>2. table[cl] \in Clusters
      <3>1. PICK set \in SUBSET Clusters : cl \in set /\ ClosedUnder(set)
        BY <1>1 DEF IInv, LongestInv
      <3>2. QED
        BY <1>8, <3>1 DEF ClosedUnder
    <2>3. index + 1 <= Last
      <3>1. index - 1 # Last
        BY <1>1, <1>2
      <3>2. index # Last
        <4>1. SUFFICES ASSUME index = Last PROVE FALSE
          OBVIOUS
        <4>2. path[Last] = table[cl]
          <5>1. Last \in 1 .. Last
            BY LastAssumption
          <5>2. path[Last] = IF path[Last - 1] \in Clusters THEN table[path[Last - 1]] ELSE FAT_EOF
            BY <5>1, FollowingIs
          <5>3. path[Last - 1] = cl
            BY <1>2, <4>1
          <5>4. QED
            BY <1>1, <5>2, <5>3
        <4>3. QED
          BY <1>2, <2>2, <4>2
      <3>3. QED
        BY <1>6, <3>2, LastAssumption
    <2>4. path[index] = table[cl] /\ table[cl] \in Int
      <3>1. path[index] = IF path[index - 1] \in Clusters THEN table[path[index - 1]] ELSE FAT_EOF
        BY <1>6, FollowingIs
      <3>2. QED
        BY <1>1, <1>2, <2>2, <3>1 DEF Clusters
    <2>5. r = IF path[index] = path[index - 1] + 1 THEN count + 1 ELSE 1
      BY <1>2, <2>4 DEF LinearCount
    <2> HIDE DEF path, r
    <2> DEFINE m == IF r > maxnum THEN r ELSE maxnum
               k == IF r > maxnum THEN index + 1 - r ELSE Position
    <2>6. Longer(path, index + 1, r, k, m)
      BY <1>2, <1>3, <2>3, <2>5, LongerOn
    <2>7. maxnum' = m
      BY <2>1
    <2>8. Position' = k
      <3>1. r \in Int /\ r >= 1
        BY <1>1, <2>5
      <3>2. CASE r > maxnum
        BY <1>1, <1>6, <2>1, <3>1, <3>2 DEF Position
      <3>3. CASE ~ (r > maxnum)
        BY <2>1, <3>3 DEF Position
      <3>4. QED
        BY <3>2, <3>3
    <2>9. path[k] = best'
      <3>1. CASE r > maxnum
        <4>1. Linear(path, k, r) /\ r \in 1 .. index + 1
          BY <2>6, <3>1 DEF Longer
        <4>2. r - 1 \in 0 .. r - 1 /\ k + (r - 1) = index /\ k \in 0 .. Last
          BY <1>1, <1>6, <2>3, <3>1, <4>1, LastAssumption
        <4>3. path[k + (r - 1)] = path[k] + (r - 1)
          BY <4>1, <4>2 DEF Linear
        <4>4. path[k] \in Int /\ r \in Int
          BY <1>3, <4>1, <4>2
        <4>5. best' = table[cl] - r + 1
          BY <2>1, <3>1
        <4> HIDE DEF k
        <4>6. QED
          BY <2>4, <4>2, <4>3, <4>4, <4>5
      <3>2. CASE ~ (r > maxnum)
        BY <1>2, <2>1, <3>2
      <3>3. QED
        BY <3>1, <3>2
    <2> HIDE DEF k, m
    <2>10. \A j \in 0 .. index : path[j] \in Clusters
      <3>1. ASSUME NEW j \in 0 .. index, j # index PROVE j \in 0 .. index - 1
        BY <1>1, <3>1
      <3>2. QED
        BY <1>2, <2>2, <2>4, <3>1
    <2>11. index + 1 - 1 = index /\ index + 1 > 0
      BY <1>1
    <2>12. Longer(Following(start), index, count, Position, maxnum)'
      BY <1>5, <2>1, <2>6, <2>7, <2>8 DEF Longer
    <2>13. /\ index' > 0 /\ index' - 1 = index
           /\ \A j \in 0 .. index' - 1 : path[j] \in Clusters
           /\ path[index' - 1] = cl'
      <3>1. index' > 0 /\ index' - 1 = index
        BY <1>1, <2>1
      <3>2. QED
        BY <2>1, <2>4, <2>10, <3>1
    <2>14. QED
      BY <1>2, <1>4, <1>5, <2>1, <2>8, <2>9, <2>12, <2>13 DEF ChainInv
  <1>9. QED
    BY <1>7, <1>8

LEMMA StepChain ==
    ASSUME IInv, ChainInv, [SearchesNext]_searchvars
    PROVE  ChainInv'
  <1>1. ASSUME index' = 0, fn' # "longest" PROVE ChainInv'
    BY <1>1 DEF ChainInv
  <1>2. CASE Longest
    BY <1>2, LongestChain
  <1>3. CASE \E s \in Clusters : ChainEnds(s) /\ CallLongest(s) /\ UNCHANGED table
    BY <1>3, CallLongestChain DEF IInv
  <1>4. CASE Take
    BY <1>1, <1>4 DEF Take, Taken
  <1>5. CASE Find \/ Allocated \/ NumFree \/ AreaBad \/ MostFree
    <2>1. index = 0 /\ index' = index /\ fn' # "longest"
      BY <1>5 DEF ChainInv, Find, Allocated, NumFree, AreaBad, MostFree, LoopOrReturn,
                  Return, Loop, found
    <2>2. QED
      BY <1>1, <2>1
  <1>6. CASE CallAny /\ ~ \E s \in Clusters :
                             ChainEnds(s) /\ CallLongest(s) /\ UNCHANGED table
    <2>1. index = 0
      BY <1>6 DEF CallAny, ChainInv
    <2>2. index' = index /\ fn' # "longest"
      BY <1>6 DEF CallAny, CallFind, CallAllocated, CallAreaBad, CallNumFree, CallMostFree,
                  Call, Return, locals, found
    <2>3. QED
      BY <1>1, <2>1, <2>2
  <1>7. CASE UNCHANGED searchvars
    <2>1. UNCHANGED <<table, fn, result, start, cl, count, index, best, maxnum, maxindex>>
      BY <1>7 DEF searchvars, search, locals, arguments, loop, found
    <2>2. Following(start)' = Following(start) /\ Position' = Position
      BY <2>1, FollowingSame DEF Position
    <2>3. Longer(Following(start), index, count, Position, maxnum)'
            <=> Longer(Following(start), index, count, Position, maxnum)
      BY <2>1, <2>2 DEF Longer
    <2>4. QED
      BY <2>1, <2>2, <2>3 DEF ChainInv
  <1>8. QED
    BY <1>2, <1>3, <1>4, <1>5, <1>6, <1>7 DEF SearchesNext, Searching

LEMMA ChainFollowed == SearchesSpec => [](IInv /\ ChainInv)
  <1>1. SearchesInit => IInv /\ ChainInv
    BY InitInv DEF SearchesInit, SearchInit, ChainInv
  <1>2. IInv /\ ChainInv /\ [SearchesNext]_searchvars => (IInv /\ ChainInv)'
    BY StepInv, StepChain
  <1>3. QED
    BY <1>1, <1>2, PTL DEF SearchesSpec

(* fatclusterlongestlinear(), table.c: what it returns begins the first of *)
(* the longest sequences of the chain, however long that is and however    *)
(* often it is broken.                                                     *)
THEOREM LongestIsFirst == SearchesSpec => []LongestFirst
  <1>1. ASSUME IInv, ChainInv, fn = "none", index > 0, result = best
        PROVE  LET path == Following(start)
                   all  == InChain(start)
               IN  \E k0 \in all :
                      /\ path[k0] = result /\ LinearFrom(path, k0, maxnum)
                      /\ k0 + maxnum - 1 \in all
                      /\ \A k \in all, n \in 1 .. Last :
                            (k + n - 1 \in all /\ LinearFrom(path, k, n))
                               => n < maxnum \/ (n = maxnum /\ k >= k0)
    <2> DEFINE path  == Following(start)
               all == InChain(start)
               p == Position
    <2>1. /\ path[Last] \notin Clusters
          /\ Longer(path, index, count, p, maxnum)
          /\ \A j \in 0 .. index - 1 : path[j] \in Clusters
          /\ path[index - 1] = cl /\ path[p] = best /\ table[cl] \notin Clusters
      BY <1>1 DEF ChainInv
    <2>2. \A k \in 1 .. Last :
             path[k] = IF path[k - 1] \in Clusters THEN table[path[k - 1]] ELSE FAT_EOF
      BY FollowingIs
    <2>3. all = {k \in 0 .. Last : path[k] \in Clusters}
      BY DEF InChain
    <2> HIDE DEF path, all, p
    <2>4. /\ index \in 1 .. Last /\ maxnum \in 1 .. index /\ p \in 0 .. index - maxnum
          /\ Last \in Nat /\ index \in Nat
      BY <2>1, LastAssumption DEF Longer
    <2>5. ASSUME NEW k \in index .. Last PROVE path[k] \notin Clusters
      <3> DEFINE S == {j \in index .. Last : path[j] \in Clusters}
      <3>1. ASSUME S # {} PROVE FALSE
        <4>1. S \subseteq Nat
          BY <2>4
        <4>2. PICK j \in S : \A i \in S : j <= i
          BY <3>1, <4>1, LeastNumber
        <4>3. j \in 1 .. Last /\ path[j] \in Clusters
          BY <2>4
        <4>4. path[j] = IF path[j - 1] \in Clusters THEN table[path[j - 1]] ELSE FAT_EOF
          BY <2>2, <4>3
        <4>5. FAT_EOF \notin Clusters
          BY LastAssumption DEF Clusters
        <4>6. path[j - 1] \in Clusters
          BY <4>3, <4>4, <4>5
        <4>7. CASE j = index
          BY <2>1, <4>3, <4>4, <4>6, <4>7
        <4>8. CASE j # index
          <5>1. j - 1 \in S /\ ~ (j <= j - 1)
            BY <2>4, <4>6, <4>8
          <5>2. QED
            BY <4>2, <5>1
        <4>9. QED
          BY <4>7, <4>8
      <3>2. QED
        BY <3>1
    <2>6. all = 0 .. index - 1
      <3>1. ASSUME NEW k \in 0 .. Last PROVE path[k] \in Clusters <=> k \in 0 .. index - 1
        <4>1. k \in 0 .. index - 1 \/ k \in index .. Last
          BY <2>4
        <4>2. k \in index .. Last => k \notin 0 .. index - 1
          BY <2>4
        <4>3. QED
          BY <2>1, <2>5, <4>1, <4>2
      <3>2. 0 .. index - 1 \subseteq 0 .. Last
        BY <2>4
      <3>3. QED
        BY <2>3, <3>1, <3>2
    <2>7. p + maxnum - 1 \in all
      BY <2>4, <2>6
    <2>8. LinearFrom(path, p, maxnum)
      BY <2>1, <2>4 DEF LinearFrom, Longer, Linear
    <2>9. ASSUME NEW k \in all, NEW n \in 1 .. Last, k + n - 1 \in all, LinearFrom(path, k, n)
          PROVE  n < maxnum \/ (n = maxnum /\ k >= p)
      <3>1. k \in 0 .. index - 1 /\ n \in 1 .. index /\ k + n <= index
        BY <2>4, <2>6, <2>9
      <3>2. Linear(path, k, n)
        BY <2>9 DEF LinearFrom, Linear
      <3>3. QED
        BY <2>1, <3>1, <3>2 DEF Longer
    <2>10. p \in all /\ path[p] = result
      BY <1>1, <2>1, <2>4, <2>6
    <2>11. \E k0 \in all :
              /\ path[k0] = result /\ LinearFrom(path, k0, maxnum)
              /\ k0 + maxnum - 1 \in all
              /\ \A k \in all, n \in 1 .. Last :
                    (k + n - 1 \in all /\ LinearFrom(path, k, n))
                       => n < maxnum \/ (n = maxnum /\ k >= k0)
      BY <2>7, <2>8, <2>9, <2>10
    <2>12. QED
      BY <2>11 DEF path, all
  <1>2. IInv /\ ChainInv => LongestFirst
    BY <1>1 DEF LongestFirst
  <1>3. QED
    BY <1>2, ChainFollowed, PTL

-----------------------------------------------------------------------------
(***************************************************************************)
(* The commands.  Chains, the entries of the directory in their order, and *)
(* what a command changes of the memory.                                   *)
(***************************************************************************)
(* Following a chain, one cluster for each number.                         *)
Traces(to, t, s, n) ==
    to = [k \in 1 .. n |->
            IF k = 1 THEN s
            ELSE LET c == to[k - 1] IN IF c \in Clusters THEN t[c] ELSE FAT_EOF]

LEMMA TracesExists ==
    ASSUME NEW t, NEW s, NEW n \in Nat
    PROVE  \E to : Traces(to, t, s, n)
<1> DEFINE S == {k \in Nat : ~ \E to : Traces(to, t, s, k)}
<1>1. ASSUME S # {} PROVE FALSE
  <2>1. PICK k \in S : \A j \in S : k <= j
    BY <1>1, LeastNumber
  <2>2. CASE k = 0
    <3>1. Traces([j \in 1 .. 0 |-> s], t, s, 0)
      BY DEF Traces
    <3> QED BY <2>1, <2>2, <3>1
  <2>3. CASE k # 0
    <3>1. k - 1 \in Nat /\ k - 1 \notin S
      BY <2>1, <2>3
    <3>2. PICK f : Traces(f, t, s, k - 1)
      BY <3>1
    <3> DEFINE new == IF k = 1 THEN s
                      ELSE IF f[k - 1] \in Clusters THEN t[f[k - 1]] ELSE FAT_EOF
               g == [j \in 1 .. k |-> IF j = k THEN new ELSE f[j]]
    <3>3. ASSUME NEW j \in 1 .. k
          PROVE  g[j] = IF j = 1 THEN s
                        ELSE IF g[j - 1] \in Clusters THEN t[g[j - 1]] ELSE FAT_EOF
      <4>1. CASE j = k
        <5>1. j # 1 => g[j - 1] = f[j - 1]
          BY <2>3, <3>1, <4>1
        <5> QED BY <4>1, <5>1
      <4>2. CASE j # k
        <5>1. j \in 1 .. k - 1 /\ g[j] = f[j]
          BY <3>1, <4>2
        <5>2. j # 1 => g[j - 1] = f[j - 1]
          BY <3>1, <4>2
        <5>3. f[j] = IF j = 1 THEN s
                     ELSE IF f[j - 1] \in Clusters THEN t[f[j - 1]] ELSE FAT_EOF
          BY <3>2, <5>1 DEF Traces
        <5> QED BY <5>1, <5>2, <5>3
      <4> QED BY <4>1, <4>2
    <3>4. g = [j \in 1 .. k |-> g[j]]
      OBVIOUS
    <3> HIDE DEF g
    <3>5. Traces(g, t, s, k)
      BY <3>3, <3>4 DEF Traces
    <3> QED BY <2>1, <3>5
  <2> QED BY <2>2, <2>3
<1> QED BY <1>1

(* A set of the first positions is that of as many as it has.              *)
LEMMA FirstOnes ==
    ASSUME NEW n \in Nat, NEW S \in SUBSET (1 .. n),
           \A k \in S : \A j \in 1 .. k : j \in S
    PROVE  Cardinality(S) \in 0 .. n /\ S = 1 .. Cardinality(S)
<1>1. /\ IsFiniteSet(1 .. n) /\ Cardinality(1 .. n) = n
  BY FS_Interval
<1>2. /\ IsFiniteSet(S) /\ Cardinality(S) \in Nat /\ Cardinality(S) <= n
  BY <1>1, FS_Subset, FS_CardinalityType
<1> DEFINE m == Cardinality(S)
<1> HIDE DEF m
<1>3. ASSUME NEW k \in S PROVE k <= m
  <2>1. 1 .. k \subseteq S
    BY <1>3
  <2>2. k \in Nat /\ Cardinality(1 .. k) = k
    BY FS_Interval
  <2>3. Cardinality(1 .. k) <= Cardinality(S)
    BY <1>2, <2>1, FS_Subset
  <2> QED BY <2>2, <2>3 DEF m
<1>4. ASSUME NEW k \in 1 .. m, k \notin S PROVE FALSE
  <2>1. S \subseteq 1 .. k - 1
    <3>1. ASSUME NEW j \in S PROVE j < k
      <4>1. j >= k => k \in S
        BY <1>2 DEF m
      <4> QED BY <1>4, <4>1
    <3> QED BY <1>2, <1>4, <3>1 DEF m
  <2>2. IsFiniteSet(1 .. k - 1) /\ Cardinality(1 .. k - 1) = k - 1
    <3>1. k - 1 \in Nat
      BY <1>2 DEF m
    <3> QED BY <3>1, FS_Interval
  <2>3. m <= k - 1
    BY <2>1, <2>2, FS_Subset DEF m
  <2> QED BY <1>2, <2>3 DEF m
<1>5. m \in 0 .. n
  BY <1>1, <1>2 DEF m
<1>6. S \subseteq 1 .. m
  BY <1>3, <1>5
<1>7. 1 .. m \subseteq S
  BY <1>4
<1> QED BY <1>5, <1>6, <1>7 DEF m

(* A chain has clusters only, as many as there are at most.                *)
LEMMA ChainIs ==
    ASSUME NEW t, NEW s
    PROVE  /\ Chain(t, s) \in Seq(Clusters) /\ Len(Chain(t, s)) \in 0 .. Last
           /\ s \in Clusters => Len(Chain(t, s)) > 0 /\ Chain(t, s)[1] = s
           /\ Len(Chain(t, s)) > 0 => s \in Clusters
           /\ \A k \in 1 .. Len(Chain(t, s)) - 1 :
                 Chain(t, s)[k + 1] = t[Chain(t, s)[k]]
           /\ Len(Chain(t, s)) \in 1 .. Last - 1 =>
                 t[Chain(t, s)[Len(Chain(t, s))]] \notin Clusters
<1>1. Last \in Nat /\ Last > 2
  BY LastAssumption
<1> DEFINE to == CHOOSE to : Traces(to, t, s, Last)
<1>2. Traces(to, t, s, Last)
  BY <1>1, TracesExists
<1> HIDE DEF to
<1>3. /\ to[1] = s
      /\ \A k \in 2 .. Last :
            to[k] = IF to[k - 1] \in Clusters THEN t[to[k - 1]] ELSE FAT_EOF
  BY <1>1, <1>2 DEF Traces
<1> DEFINE S == {k \in 1 .. Last : to[k] \in Clusters}
           n == Cardinality(S)
<1>4. ASSUME NEW k \in S, NEW j \in 1 .. k PROVE j \in S
  <2> DEFINE T == {i \in Nat : i < k /\ k - i \notin S}
  <2>1. ASSUME T # {} PROVE FALSE
    <3>1. PICK i \in T : \A h \in T : i <= h
      BY <2>1, LeastNumber
    <3>2. i # 0 /\ i - 1 \in Nat /\ i - 1 \notin T
      BY <3>1
    <3>3. k - (i - 1) \in S
      BY <3>1, <3>2
    <3>4. k - (i - 1) \in 2 .. Last /\ (k - (i - 1)) - 1 = k - i
      BY <3>1, <3>2
    <3>5. to[k - i] \in Clusters
      BY <1>3, <3>3, <3>4 DEF Clusters
    <3>6. k - i \in 1 .. Last
      BY <1>1, <3>1, <3>4
    <3> QED BY <3>1, <3>5, <3>6
  <2>2. k - j \notin T
    BY <2>1
  <2>3. k - j \in Nat /\ k - j < k /\ k - (k - j) = j
    OBVIOUS
  <2> QED BY <2>2, <2>3
<1>5. n \in 0 .. Last /\ S = 1 .. n
  <2>1. S \in SUBSET (1 .. Last)
    OBVIOUS
  <2> HIDE DEF S
  <2> QED BY <1>1, <1>4, <2>1, FirstOnes
<1>6. Chain(t, s) = [k \in 1 .. n |-> to[k]]
  BY DEF Chain, Traces, to
<1> HIDE DEF n
<1>7. \A k \in 1 .. n : to[k] \in Clusters
  BY <1>5
<1>8. /\ Chain(t, s) \in Seq(Clusters) /\ Len(Chain(t, s)) = n
  BY <1>5, <1>6, <1>7
<1>9. s \in Clusters => n > 0
  BY <1>1, <1>3, <1>5
<1>10. n > 0 => s \in Clusters
  BY <1>3, <1>5, <1>7
<1>11. \A k \in 1 .. n - 1 : to[k + 1] = t[to[k]]
  <2> TAKE k \in 1 .. n - 1
  <2>1. k + 1 \in 2 .. Last /\ (k + 1) - 1 = k /\ k \in 1 .. n
    BY <1>5
  <2> QED BY <1>3, <1>7, <2>1
<1>12. ASSUME n \in 1 .. Last - 1 PROVE t[to[n]] \notin Clusters
  <2>1. n + 1 \in 2 .. Last /\ (n + 1) - 1 = n /\ n \in 1 .. n /\ n + 1 \notin S
    BY <1>1, <1>5, <1>12
  <2>2. to[n + 1] = t[to[n]]
    BY <1>3, <1>7, <2>1
  <2> QED BY <1>1, <2>1, <2>2
<1> QED BY <1>3, <1>5, <1>6, <1>8, <1>9, <1>10, <1>11, <1>12

(* A chain that is followed in another table that agrees with it but in    *)
(* its last cluster goes at least as far; it is the same if they agree.    *)
LEMMA ChainGoesOn ==
    ASSUME NEW t, NEW u, NEW s,
           \A k \in 1 .. Len(Chain(t, s)) - 1 : u[Chain(t, s)[k]] = t[Chain(t, s)[k]]
    PROVE  /\ Len(Chain(t, s)) <= Len(Chain(u, s))
           /\ \A k \in 1 .. Len(Chain(t, s)) : Chain(u, s)[k] = Chain(t, s)[k]
<1> DEFINE C == Chain(t, s)
           D == Chain(u, s)
           n == Len(C)
           m == Len(D)
<1>1. Last \in Nat /\ Last > 2
  BY LastAssumption
<1>2. /\ n \in 0 .. Last
      /\ s \in Clusters => n > 0 /\ C[1] = s
      /\ n > 0 => s \in Clusters
      /\ \A k \in 1 .. n : C[k] \in Clusters
      /\ \A k \in 1 .. n - 1 : C[k + 1] = t[C[k]]
  <2>1. C \in Seq(Clusters)
    BY ChainIs
  <2>2. \A k \in 1 .. n : C[k] \in Clusters
    BY <2>1
  <2> QED BY <2>2, ChainIs
<1>3. /\ m \in 0 .. Last
      /\ s \in Clusters => m > 0 /\ D[1] = s
      /\ \A k \in 1 .. m - 1 : D[k + 1] = u[D[k]]
      /\ m \in 1 .. Last - 1 => u[D[m]] \notin Clusters
  BY ChainIs
<1>4. \A k \in 1 .. n - 1 : u[C[k]] = t[C[k]]
  OBVIOUS
<1> HIDE DEF C, D, n, m
<1> DEFINE S == {k \in Nat : k \in 1 .. n /\ ~ (k <= m /\ D[k] = C[k])}
<1>5. ASSUME S # {} PROVE FALSE
  <2>1. PICK k \in S : \A j \in S : k <= j
    BY <1>5, LeastNumber
  <2>2. k \in 1 .. n /\ ~ (k <= m /\ D[k] = C[k])
    BY <2>1
  <2>3. k # 1
    BY <1>2, <1>3, <2>2
  <2>4. k - 1 \in Nat /\ k - 1 \in 1 .. n - 1 /\ (k - 1) + 1 = k /\ k - 1 \notin S
    BY <1>2, <2>1, <2>2, <2>3
  <2>5. k - 1 <= m /\ D[k - 1] = C[k - 1]
    BY <1>2, <2>4
  <2>6. u[D[k - 1]] = C[k] /\ C[k] \in Clusters
    BY <1>2, <1>4, <2>2, <2>4, <2>5
  <2>7. k - 1 # m
    <3>1. ASSUME k - 1 = m PROVE FALSE
      <4>1. m \in 1 .. Last - 1
        BY <1>1, <1>2, <1>3, <2>2, <2>4, <3>1
      <4> QED BY <1>3, <2>6, <3>1, <4>1
    <3> QED BY <3>1
  <2>8. k - 1 \in 1 .. m - 1 /\ k <= m
    BY <1>3, <2>2, <2>4, <2>5, <2>7
  <2>9. D[k] = u[D[k - 1]]
    BY <1>3, <2>4, <2>8
  <2> QED BY <2>2, <2>6, <2>8, <2>9
<1>6. \A k \in 1 .. n : k <= m /\ D[k] = C[k]
  BY <1>2, <1>5
<1>7. n <= m
  BY <1>2, <1>3, <1>6
<1> QED BY <1>6, <1>7 DEF C, D, n, m

LEMMA ChainSame ==
    ASSUME NEW t, NEW u, NEW s,
           \A c \in ClustersOf(Chain(t, s)) : u[c] = t[c]
    PROVE  Chain(u, s) = Chain(t, s)
<1> DEFINE C == Chain(t, s)
           D == Chain(u, s)
           n == Len(C)
           m == Len(D)
<1>1. Last \in Nat /\ Last > 2
  BY LastAssumption
<1>2. C \in Seq(Clusters) /\ D \in Seq(Clusters) /\ n \in 0 .. Last /\ m \in 0 .. Last
  BY ChainIs
<1>3. \A k \in 1 .. n : u[C[k]] = t[C[k]]
  BY <1>2 DEF ClustersOf
<1>4. n <= m /\ \A k \in 1 .. n : D[k] = C[k]
  <2>1. \A k \in 1 .. n - 1 : u[C[k]] = t[C[k]]
    BY <1>2, <1>3
  <2> QED BY <2>1, ChainGoesOn
<1>5. /\ n \in 1 .. Last - 1 => t[C[n]] \notin Clusters
      /\ m > 0 => s \in Clusters
      /\ s \in Clusters => n > 0
      /\ \A k \in 1 .. m - 1 : D[k + 1] = u[D[k]]
  BY ChainIs
<1>6. \A k \in 1 .. m : D[k] \in Clusters
  BY <1>2
<1>7. C = [k \in 1 .. n |-> C[k]] /\ D = [k \in 1 .. m |-> D[k]]
  BY <1>2
<1> HIDE DEF C, D, n, m
<1>8. ASSUME n < m PROVE FALSE
  <2>1. n \in 1 .. Last - 1 /\ n \in 1 .. m - 1 /\ n \in 1 .. n /\ n + 1 \in 1 .. m
    BY <1>1, <1>2, <1>5, <1>8
  <2>2. D[n + 1] = t[C[n]]
    BY <1>3, <1>4, <1>5, <2>1
  <2> QED BY <1>5, <1>6, <2>1, <2>2
<1>9. n = m
  BY <1>2, <1>4, <1>8
<1> QED BY <1>4, <1>7, <1>9 DEF C, D

(* The clusters of a chain that ends lead to others of it.                 *)
LEMMA ChainEnding ==
    ASSUME NEW f, NEW s, EndsWell(f, s), NEW c \in ClustersOf(Chain(f.table, s))
    PROVE  /\ c \in Clusters /\ f.table[c] # FAT_UNUSED
           /\ f.table[c] \in Clusters => f.table[c] \in ClustersOf(Chain(f.table, s))
<1> DEFINE C == Chain(f.table, s)
           n == Len(C)
<1>1. C \in Seq(Clusters) /\ n \in Nat
  BY ChainIs
<1>2. \A k \in 1 .. n - 1 : C[k + 1] = f.table[C[k]]
  BY ChainIs
<1>3. PICK k \in 1 .. n : c = C[k]
  BY <1>1 DEF ClustersOf
<1>4. c \in Clusters
  BY <1>1, <1>3
<1>5. C # <<>> /\ f.table[C[n]] = FAT_EOF
  BY <1>1, <1>3 DEF EndsWell
<1>6. 0 \notin Clusters /\ -1 \notin Clusters
  BY LastAssumption DEF Clusters
<1>7. CASE k = n
  BY <1>3, <1>4, <1>5, <1>6, <1>7
<1>8. CASE k # n
  <2>1. k + 1 \in 1 .. n /\ f.table[c] = C[k + 1] /\ C[k + 1] \in Clusters
    BY <1>1, <1>2, <1>3, <1>8
  <2> QED BY <1>1, <1>4, <1>6, <2>1 DEF ClustersOf
<1> QED BY <1>7, <1>8

-----------------------------------------------------------------------------
(* An entry of a directory and the contents of a cluster.                  *)
EntryRight(v) ==
    /\ v = [state |-> v.state, name |-> v.name, first |-> v.first, size |-> v.size,
            dir |-> v.dir]
    /\ v.first \in Int /\ v.size \in Int

BlockRight(b) ==
    /\ b = [entries |-> b.entries, data |-> b.data]
    /\ b.entries = [i \in Indices |-> b.entries[i]]
    /\ \A i \in Indices : EntryRight(b.entries[i])

(* The table and the blocks in memory or on the device.                    *)
Whole(t, b) ==
    /\ Clusters \subseteq DOMAIN t /\ \A c \in Clusters : t[c] \in Int
    /\ Clusters \subseteq DOMAIN b /\ \A c \in Clusters : BlockRight(b[c])

EntryRefs   == [cluster : Clusters, slot : Indices]
ClusterRefs == [cluster : Int, slot : {NoSlot}]

LEMMA ReferencesAre ==
    /\ \A p \in EntryRefs : /\ p.cluster \in Clusters /\ p.slot \in Indices
                             /\ p.slot # NoSlot /\ p = EntryRef(p.cluster, p.slot)
    /\ \A p \in ClusterRefs : p.cluster \in Int /\ p.slot = NoSlot
    /\ NoRef \notin EntryRefs /\ Clusters \subseteq Int /\ Indices \subseteq Int
    /\ 0 \in Indices /\ 1 \in Indices /\ Root \in Clusters
<1>1. Slots \in Nat /\ Slots > 1
  BY CommandsAssumption
<1>2. Last \in Nat /\ Last > 2
  BY LastAssumption
<1>3. /\ Clusters \subseteq Int /\ Indices \subseteq Nat
      /\ 0 \in Indices /\ 1 \in Indices /\ Root \in Clusters /\ 0 \notin Clusters
  BY <1>1, <1>2 DEF Indices, Clusters, Root
<1>4. ASSUME NEW p \in EntryRefs
      PROVE  /\ p.cluster \in Clusters /\ p.slot \in Indices
             /\ p.slot # NoSlot /\ p = EntryRef(p.cluster, p.slot)
  <2>1. p.cluster \in Clusters /\ p.slot \in Indices /\ p = EntryRef(p.cluster, p.slot)
    BY DEF EntryRefs, EntryRef
  <2>2. p.slot # NoSlot
    BY <1>3, <2>1 DEF NoSlot
  <2> QED BY <2>1, <2>2
<1>5. \A p \in ClusterRefs : p.cluster \in Int /\ p.slot = NoSlot
  BY DEF ClusterRefs, ClusterRef
<1>6. NoRef \notin EntryRefs
  BY <1>3, <1>4 DEF NoRef
<1> QED BY <1>3, <1>4, <1>5, <1>6

LEMMA EntryIsTyped ==
    ASSUME NEW f, Whole(f.table, f.block), NEW p \in EntryRefs
    PROVE  EntryRight(EntryIn(f, p))
<1>1. BlockRight(f.block[p.cluster]) /\ p.slot \in Indices
  BY ReferencesAre DEF Whole
<1> QED BY <1>1 DEF EntryIn, BlockRight

(* The entries of the directory, and those a search gives.                 *)
LEMMA EntriesAre ==
    ASSUME NEW f
    PROVE  /\ Entries(f) \in Seq(EntryRefs)
           /\ \A k \in 1 .. Len(Entries(f)) :
                 /\ ((k - 1) \div Slots) + 1 \in 1 .. Len(Chain(f.table, Root))
                 /\ Entries(f)[k] = EntryRef(Chain(f.table, Root)[((k - 1) \div Slots) + 1],
                                             (k - 1) % Slots)
                 /\ Entries(f)[k].cluster \in RootIn(f)
           /\ Len(Entries(f)) = Len(Chain(f.table, Root)) * Slots
<1> DEFINE chain == Chain(f.table, Root)
           m == Len(chain) * Slots
<1>1. chain \in Seq(Clusters) /\ Len(chain) \in Nat
  BY ChainIs
<1>2. Slots \in Nat /\ Slots > 1
  BY CommandsAssumption
<1>3. m \in Nat
  BY <1>1, <1>2
<1> HIDE DEF chain
<1>4. ASSUME NEW k \in 1 .. m
      PROVE  /\ EntryRef(chain[((k - 1) \div Slots) + 1], (k - 1) % Slots) \in EntryRefs
             /\ ((k - 1) \div Slots) + 1 \in 1 .. Len(chain)
             /\ EntryRef(chain[((k - 1) \div Slots) + 1], (k - 1) % Slots).cluster
                   \in ClustersOf(chain)
  <2> DEFINE a == k - 1
             q == a \div Slots
  <2>1. a \in Nat /\ a < Len(chain) * Slots
    BY <1>1, <1>2
  <2> HIDE DEF a
  <2>2. q \in Nat /\ a % Slots \in Indices /\ a = Slots * q + (a % Slots)
    BY <1>2, <2>1 DEF Indices
  <2>3. q < Len(chain)
    <3> HIDE DEF q
    <3> DEFINE n == Len(chain)
               r == a % Slots
    <3>1. n \in Nat /\ r \in Nat /\ q \in Nat
      BY <1>1, <2>2 DEF Indices
    <3>2. a < n * Slots /\ a = Slots * q + r
      BY <2>1, <2>2
    <3> HIDE DEF n, r
    <3>3. ASSUME q >= n PROVE FALSE
      <4>1. PICK d \in Nat : q = n + d
        BY <3>1, <3>3
      <4>2. Slots * q = n * Slots + Slots * d /\ Slots * d \in Nat /\ n * Slots \in Nat
        BY <1>2, <3>1, <4>1
      <4> QED BY <2>1, <3>1, <3>2, <4>2
    <3> QED BY <3>1, <3>3 DEF n
  <2>4. chain[q + 1] \in Clusters /\ q + 1 \in 1 .. Len(chain)
        /\ chain[q + 1] \in ClustersOf(chain)
    BY <1>1, <2>2, <2>3 DEF ClustersOf
  <2>5. EntryRef(chain[q + 1], a % Slots) \in EntryRefs
    BY <2>2, <2>4 DEF EntryRefs, EntryRef
  <2>6. EntryRef(chain[q + 1], a % Slots).cluster = chain[q + 1]
    BY DEF EntryRef
  <2> QED BY <2>4, <2>5, <2>6 DEF a
<1>5. Entries(f) = [k \in 1 .. m |->
                      EntryRef(chain[((k - 1) \div Slots) + 1], (k - 1) % Slots)]
  BY DEF Entries, chain
<1> HIDE DEF m
<1>6. Entries(f) \in Seq(EntryRefs) /\ Len(Entries(f)) = m
  BY <1>3, <1>4, <1>5
<1>7. ASSUME NEW k \in 1 .. m
      PROVE  /\ ((k - 1) \div Slots) + 1 \in 1 .. Len(chain)
             /\ Entries(f)[k] = EntryRef(chain[((k - 1) \div Slots) + 1], (k - 1) % Slots)
             /\ Entries(f)[k].cluster \in ClustersOf(chain)
  <2>1. Entries(f)[k] = EntryRef(chain[((k - 1) \div Slots) + 1], (k - 1) % Slots)
    BY <1>5
  <2> QED BY <1>4, <2>1
<1> QED BY <1>6, <1>7 DEF RootIn, chain, m

(* The entries of a directory that goes on are first those it had.         *)
LEMMA EntriesGoOn ==
    ASSUME NEW f, NEW g,
           Len(Chain(f.table, Root)) <= Len(Chain(g.table, Root)),
           \A k \in 1 .. Len(Chain(f.table, Root)) :
              Chain(g.table, Root)[k] = Chain(f.table, Root)[k]
    PROVE  /\ Len(Entries(f)) <= Len(Entries(g))
           /\ \A k \in 1 .. Len(Entries(f)) : Entries(g)[k] = Entries(f)[k]
<1>1. Slots \in Nat /\ Slots > 1
  BY CommandsAssumption
<1> DEFINE a == Len(Chain(f.table, Root))
           b == Len(Chain(g.table, Root))
<1>2. a \in Nat /\ b \in Nat /\ a <= b
  BY ChainIs
<1>3. Len(Entries(f)) = a * Slots /\ Len(Entries(g)) = b * Slots
  BY EntriesAre
<1>4. a * Slots <= b * Slots /\ a * Slots \in Nat /\ b * Slots \in Nat
  <2> HIDE DEF a, b
  <2>1. PICK d \in Nat : b = a + d
    BY <1>2
  <2>2. b * Slots = a * Slots + d * Slots /\ d * Slots \in Nat /\ a * Slots \in Nat
    BY <1>1, <1>2, <2>1
  <2> QED BY <2>2
<1>5. ASSUME NEW k \in 1 .. Len(Entries(f)) PROVE Entries(g)[k] = Entries(f)[k]
  <2>1. k \in 1 .. Len(Entries(g))
    BY <1>3, <1>4
  <2> DEFINE q == ((k - 1) \div Slots) + 1
  <2>2. /\ q \in 1 .. Len(Chain(f.table, Root))
        /\ Entries(f)[k] = EntryRef(Chain(f.table, Root)[q], (k - 1) % Slots)
    BY EntriesAre
  <2>3. Entries(g)[k] = EntryRef(Chain(g.table, Root)[q], (k - 1) % Slots)
    BY <2>1, EntriesAre
  <2> HIDE DEF q
  <2> QED BY <2>2, <2>3
<1> QED BY <1>3, <1>4, <1>5

LEMMA MinIs ==
    ASSUME NEW S \in SUBSET Nat, S # {}
    PROVE  Min(S) \in S /\ \A k \in S : Min(S) <= k
<1>1. \E k \in S : \A j \in S : k <= j
  BY LeastNumber
<1> QED BY <1>1 DEF Min

LEMMA ScannedAre ==
    ASSUME NEW f
    PROVE  /\ Scanned(f) \in Seq(EntryRefs)
           /\ \A k \in 1 .. Len(Scanned(f)) :
                 /\ k \in 1 .. Len(Entries(f)) /\ Scanned(f)[k] = Entries(f)[k]
                 /\ \A j \in 1 .. k : EntryIn(f, Entries(f)[j]).state # "end"
           /\ \A k \in 1 .. Len(Entries(f)) :
                 (\A j \in 1 .. k : EntryIn(f, Entries(f)[j]).state # "end")
                    => k \in 1 .. Len(Scanned(f))
<1> DEFINE all  == Entries(f)
           ends == {k \in DOMAIN all : EntryIn(f, all[k]).state = "end"}
<1>1. all \in Seq(EntryRefs)
  BY EntriesAre
<1> HIDE DEF all
<1>2. CASE ends = {}
  <2>1. Scanned(f) = all
    BY <1>2 DEF Scanned, all
  <2>2. \A j \in 1 .. Len(all) : EntryIn(f, all[j]).state # "end"
    BY <1>1, <1>2
  <2>3. \A k \in 1 .. Len(all) : \A j \in 1 .. k : EntryIn(f, all[j]).state # "end"
    BY <1>1, <2>2
  <2> QED BY <1>1, <2>1, <2>3 DEF all
<1>3. CASE ends # {}
  <2>1. ends \subseteq 1 .. Len(all) /\ Len(all) \in Nat
    BY <1>1
  <2>2. Min(ends) \in 1 .. Len(all) /\ Min(ends) \in ends /\ \A k \in ends : Min(ends) <= k
    <3>1. ends \in SUBSET Nat /\ ends # {}
      BY <1>3, <2>1
    <3> HIDE DEF ends
    <3> QED BY <2>1, <3>1, MinIs
  <2>3. Scanned(f) = SubSeq(all, 1, Min(ends) - 1)
    BY <1>3 DEF Scanned, all
  <2>4. EntryIn(f, all[Min(ends)]).state = "end"
    BY <2>2
  <2>5. \A k \in 1 .. Len(all) : EntryIn(f, all[k]).state = "end" => Min(ends) <= k
    BY <1>1, <2>2
  <2> HIDE DEF ends
  <2> DEFINE m == Min(ends) - 1
  <2>6. m \in 0 .. Len(all) /\ Len(all) \in Nat /\ m + 1 = Min(ends)
    BY <2>1, <2>2
  <2> HIDE DEF m
  <2>7. \A k \in 1 .. m : all[k] \in EntryRefs
    BY <1>1, <2>6
  <2>8. SubSeq(all, 1, m) = [k \in 1 .. m |-> all[k]]
    BY <1>1, <2>6
  <2>9. /\ SubSeq(all, 1, m) \in Seq(EntryRefs) /\ Len(SubSeq(all, 1, m)) = m
        /\ \A k \in 1 .. m : SubSeq(all, 1, m)[k] = all[k]
    BY <2>6, <2>7, <2>8
  <2>10. \A k \in 1 .. m : k \in 1 .. Len(all) /\ EntryIn(f, all[k]).state # "end"
    BY <2>5, <2>6
  <2>11. \A k \in 1 .. m : \A j \in 1 .. k : EntryIn(f, all[j]).state # "end"
    BY <2>6, <2>10
  <2>12. ASSUME NEW k \in 1 .. Len(all), \A j \in 1 .. k : EntryIn(f, all[j]).state # "end"
         PROVE  k \in 1 .. m
    <3>1. ~ (Min(ends) <= k)
      BY <2>2, <2>4, <2>12
    <3> QED BY <2>6, <3>1
  <2>13. Scanned(f) = SubSeq(all, 1, m)
    BY <2>3 DEF m
  <2> QED BY <2>9, <2>10, <2>11, <2>12, <2>13 DEF all
<1> QED BY <1>2, <1>3

LEMMA LookedUpAre ==
    ASSUME NEW f, NEW state, NEW n
    PROVE  /\ \A p \in LookedUp(f, state, n) :
                 /\ p \in EntryRefs /\ p.cluster \in RootIn(f)
                 /\ EntryIn(f, p).name = n /\ EntryIn(f, p).state = state
                 /\ state = "live" => p \in Live(f)
           /\ Ref(f, state, n) \in LookedUp(f, state, n) \cup {NoRef}
<1> DEFINE all   == Scanned(f)
           named == {k \in DOMAIN all : /\ EntryIn(f, all[k]).name = n
                                        /\ EntryIn(f, all[k]).state = state}
<1>1. all \in Seq(EntryRefs)
  BY ScannedAre
<1>2. \A k \in 1 .. Len(all) : all[k].cluster \in RootIn(f)
  BY ScannedAre, EntriesAre
<1>3. \A k \in DOMAIN all : EntryIn(f, all[k]).state = "live" => all[k] \in Live(f)
  BY DEF Live
<1> HIDE DEF all
<1>4. CASE named = {}
  BY <1>4 DEF LookedUp, Ref, all
<1>5. CASE named # {}
  <2>1. named \subseteq 1 .. Len(all) /\ Len(all) \in Nat
    BY <1>1
  <2>2. Min(named) \in 1 .. Len(all) /\ Min(named) \in named
    BY <1>5, <2>1, MinIs
  <2>3. LookedUp(f, state, n) = {all[Min(named)]}
    BY <1>5 DEF LookedUp, all
  <2>4. /\ all[Min(named)] \in EntryRefs
        /\ EntryIn(f, all[Min(named)]).name = n /\ EntryIn(f, all[Min(named)]).state = state
    BY <1>1, <2>2
  <2>5. Min(named) \in DOMAIN all
    BY <2>2
  <2> HIDE DEF named
  <2> QED BY <1>2, <1>3, <2>2, <2>3, <2>4, <2>5 DEF Ref
<1> QED BY <1>4, <1>5

LEMMA LiveAre ==
    ASSUME NEW f, NEW p \in Live(f)
    PROVE  /\ p \in EntryRefs /\ p.cluster \in RootIn(f) /\ EntryIn(f, p).state = "live"
           /\ \E k \in 1 .. Len(Entries(f)) :
                 /\ p = Entries(f)[k]
                 /\ \A j \in 1 .. k : EntryIn(f, Entries(f)[j]).state # "end"
<1> DEFINE all == Scanned(f)
<1>1. all \in Seq(EntryRefs)
  BY ScannedAre
<1>2. PICK k \in DOMAIN all : p = all[k] /\ EntryIn(f, all[k]).state = "live"
  BY DEF Live
<1>3. k \in 1 .. Len(all) /\ p \in EntryRefs
  BY <1>1, <1>2
<1>4. /\ k \in 1 .. Len(Entries(f)) /\ all[k] = Entries(f)[k]
      /\ \A j \in 1 .. k : EntryIn(f, Entries(f)[j]).state # "end"
  BY <1>3, ScannedAre
<1>5. Entries(f)[k].cluster \in RootIn(f)
  BY <1>4, EntriesAre
<1> HIDE DEF all
<1> QED BY <1>2, <1>3, <1>4, <1>5

LEMMA FreeEntryIs ==
    \A p \in FreeEntry :
       /\ p[2] \in EntryRefs
       /\ p[1] = p[2] => EntryAt(p[2]).state # "live" /\ p[2].cluster \in RootIn(Cached)
<1> DEFINE all  == Entries(Cached)
           free == {k \in DOMAIN all : EntryAt(all[k]).state # "live"}
<1>1. all \in Seq(EntryRefs)
  BY EntriesAre
<1> HIDE DEF all
<1>2. CASE free = {}
  BY <1>2 DEF FreeEntry, all
<1>3. CASE free # {}
  <2>1. free \subseteq 1 .. Len(all) /\ Len(all) \in Nat
    BY <1>1
  <2> DEFINE k == Min(free)
  <2>2. k \in 1 .. Len(all)
    BY <1>3, <2>1, MinIs
  <2>3. FreeEntry = {<<all[k], Given(all, k)>>}
    BY <1>3 DEF FreeEntry, all
  <2> HIDE DEF k
  <2>4. Given(all, k) \in EntryRefs
    <3>1. CASE k > 1 /\ all[k].slot = 0
      <4>1. all[k - 1] \in EntryRefs
        BY <1>1, <2>2, <3>1
      <4>2. all[k - 1].cluster \in Clusters /\ 0 \in Indices
        BY <4>1, ReferencesAre
      <4>3. EntryRef(all[k - 1].cluster, 0) \in EntryRefs
        BY <4>2 DEF EntryRefs, EntryRef
      <4> QED BY <3>1, <4>3 DEF Given
    <3>2. CASE ~ (k > 1 /\ all[k].slot = 0)
      BY <1>1, <2>2, <3>2 DEF Given
    <3> QED BY <3>1, <3>2
  <2>5. EntryAt(all[k]).state # "live"
    <3>1. k \in free
      BY <1>3, <2>1, MinIs DEF k
    <3> QED BY <3>1
  <2>6. all[k].cluster \in RootIn(Cached)
    BY <2>2, EntriesAre DEF all
  <2>7. ASSUME NEW p \in FreeEntry
        PROVE  /\ p[2] \in EntryRefs
               /\ p[1] = p[2] => EntryAt(p[2]).state # "live" /\ p[2].cluster \in RootIn(Cached)
    <3>1. p[1] = all[k] /\ p[2] = Given(all, k)
      BY <2>3
    <3> QED BY <2>4, <2>5, <2>6, <3>1
  <2> QED BY <2>7
<1> QED BY <1>2, <1>3
-----------------------------------------------------------------------------
(* Where a program waits for a search, where it has not come to write, and *)
(* where the free clusters are those of before.                            *)
Finding == {"grow", "got", "dir", "extended", "chainfirst", "chained", "recovered"}
Waiting == Finding \cup {"sequence", "bad"}
Running == Waiting \cup {"start", "create", "created", "more", "attach", "written",
                        "extend", "chain", "recover"}
WithFile == {"more", "got", "attach", "written", "extend", "extended", "recover", "recovered"}
Creation == {"create", "grow", "created"}

SearchRight ==
    /\ fn \in {"none", "exit", "find", "allocated"}
    /\ last \in Int /\ result \in Int /\ begin \in Int /\ end \in Int
    /\ start \in Int /\ cl \in Int /\ first \in Int
    /\ fn # "none" => pc \in Waiting
    /\ fn = "allocated" => pc = "bad"
    /\ fn = "find" /\ pc \in Finding =>
          /\ length = 1 /\ count = 0
          /\ begin \in Clusters /\ end \in Clusters /\ cl \in Clusters
    /\ fn = "none" /\ pc \in Finding \cup {"attach"} =>
          result = FAT_ERR \/ (result \in Clusters /\ Free(result))
    /\ pc = "attach" => fn = "none" /\ result # FAT_ERR

MemoryRight ==
    /\ Whole(table, block)
    /\ device = [table |-> device.table, block |-> device.block, last |-> device.last]
    /\ Whole(device.table, device.block) /\ device.last \in Int
    /\ \A c \in Clusters : Sector(c) \notin dirty => table[c] = device.table[c]
    /\ \A c \in Clusters : Unit(c) \notin dirty => block[c] = device.block[c]
    /\ pc = "idle" => dirty = {}

LocalsRight ==
    /\ request \in Requests /\ left \in Int /\ size \in Int
    /\ file \in EntryRefs \cup {NoRef}
    /\ at \in EntryRefs \cup ClusterRefs \cup {NoRef}
    /\ pc \in WithFile \/ (pc \in Creation /\ request.command = "link") => file \in EntryRefs
    /\ pc = "sequence" => request.command = "consecutive"
    /\ pc = "start" => at \in EntryRefs \cup {NoRef}
    /\ pc \in {"created", "dir"} => at \in EntryRefs
    /\ pc \in {"more", "got", "attach", "recover", "recovered"} =>
          at \in EntryRefs \cup ClusterRefs

Untouched ==
    /\ device.table = before.table
    /\ \A c \in Clusters :
          before.table[c] # FAT_UNUSED => device.block[c] = before.block[c]

NothingFreed == \A c \in Clusters : table[c] = FAT_UNUSED => before.table[c] = FAT_UNUSED

Harmless ==
    /\ pc \in Running \/ (pc = "idle" /\ ended = "exit") => Untouched
    /\ \/ pc \in {"start", "more", "got", "attach"}
       \/ pc \in Creation /\ request.command = "writefile"
       => NothingFreed

ExitInv == SearchRight /\ MemoryRight /\ LocalsRight /\ Harmless
-----------------------------------------------------------------------------
LEMMA NoneIs == DOMAIN <<>> = {}
  OBVIOUS

LEMMA OneIs ==
    ASSUME NEW x, NEW v
    PROVE  DOMAIN (x :> v) = {x} /\ (x :> v)[x] = v
  BY DEF :>

LEMMA OverIs ==
    ASSUME NEW f, NEW g
    PROVE  /\ DOMAIN (f @@ g) = DOMAIN f \cup DOMAIN g
           /\ \A x \in DOMAIN f : (f @@ g)[x] = f[x]
           /\ \A x \in DOMAIN g : x \notin DOMAIN f => (f @@ g)[x] = g[x]
  BY DEF @@

LEMMA AllIs ==
    ASSUME NEW v, NEW S
    PROVE  DOMAIN All(v, S) = S /\ \A x \in S : All(v, S)[x] = v
  BY DEF All

(* What is set in the table and in the entries of a directory.             *)
NextsRight(n) == \A c \in DOMAIN n : n[c] \in Int
PlacesRight(e) == DOMAIN e \subseteq EntryRefs /\ \A p \in DOMAIN e : EntryRight(e[p])

LEMMA NoneRight == NextsRight(<<>>) /\ PlacesRight(<<>>)
  BY NoneIs DEF NextsRight, PlacesRight

LEMMA OneRight ==
    ASSUME NEW x, NEW v
    PROVE  /\ v \in Int => NextsRight(x :> v)
           /\ x \in EntryRefs /\ EntryRight(v) => PlacesRight(x :> v)
  BY DEF NextsRight, PlacesRight, :>

LEMMA OverRight ==
    ASSUME NEW f, NEW g
    PROVE  /\ NextsRight(f) /\ NextsRight(g) => NextsRight(f @@ g)
           /\ PlacesRight(f) /\ PlacesRight(g) => PlacesRight(f @@ g)
<1>1. /\ DOMAIN (f @@ g) = DOMAIN f \cup DOMAIN g
      /\ \A x \in DOMAIN f : (f @@ g)[x] = f[x]
      /\ \A x \in DOMAIN g : x \notin DOMAIN f => (f @@ g)[x] = g[x]
  BY OverIs
<1> QED BY <1>1 DEF NextsRight, PlacesRight

LEMMA AllRight ==
    ASSUME NEW v, NEW S
    PROVE  /\ v \in Int => NextsRight(All(v, S))
           /\ EntryRight(v) /\ S \subseteq EntryRefs => PlacesRight(All(v, S))
  BY AllIs DEF NextsRight, PlacesRight

LEMMA FieldsRight ==
    ASSUME NEW v, EntryRight(v), NEW x
    PROVE  /\ EntryRight([v EXCEPT !.state = x]) /\ EntryRight([v EXCEPT !.name = x])
           /\ EntryRight([v EXCEPT !.dir = x])
           /\ x \in Int => EntryRight([v EXCEPT !.first = x]) /\ EntryRight([v EXCEPT !.size = x])
<1>1. /\ EntryRight([v EXCEPT !.state = x]) /\ EntryRight([v EXCEPT !.name = x])
      /\ EntryRight([v EXCEPT !.dir = x])
  BY DEF EntryRight
<1>2. x \in Int => EntryRight([v EXCEPT !.first = x]) /\ EntryRight([v EXCEPT !.size = x])
  BY DEF EntryRight
<1> QED BY <1>1, <1>2

LEMMA EndIsEntry ==
    /\ EntryRight(EndEntry)
    /\ \A n : EntryRight(File(n))
    /\ \A n : \A c \in Int : EntryRight(Dir(n, c))
<1>1. EntryRight(EndEntry)
  BY DEF EndEntry, EntryRight
<1>2. ASSUME NEW n PROVE EntryRight(File(n))
  <2> DEFINE v == [EndEntry EXCEPT !.state = "live"]
  <2>1. EntryRight(v)
    BY <1>1, FieldsRight
  <2>2. File(n) = [v EXCEPT !.name = n]
    BY Zenon DEF File
  <2> HIDE DEF v
  <2>3. EntryRight([v EXCEPT !.name = n])
    BY <2>1, FieldsRight
  <2> QED BY <2>2, <2>3, Zenon
<1>3. ASSUME NEW n, NEW c \in Int PROVE EntryRight(Dir(n, c))
  <2> DEFINE v == [File(n) EXCEPT !.first = c]
  <2>1. EntryRight(v)
    BY <1>2, FieldsRight
  <2>2. Dir(n, c) = [v EXCEPT !.dir = TRUE]
    BY Zenon DEF Dir
  <2> HIDE DEF v
  <2>3. EntryRight([v EXCEPT !.dir = TRUE])
    BY <2>1, FieldsRight
  <2> QED BY <2>2, <2>3, Zenon
<1> QED BY <1>1, <1>2, <1>3

LEMMA EntryAtTyped ==
    ASSUME Whole(table, block), NEW p \in EntryRefs
    PROVE  EntryRight(EntryAt(p))
<1>1. Cached.table = table /\ Cached.block = block
  BY DEF Cached
<1>2. Whole(Cached.table, Cached.block)
  BY <1>1
<1> QED BY <1>2, EntryIsTyped DEF EntryAt

LEMMA TargetRight ==
    ASSUME Whole(table, block), NEW p \in EntryRefs \cup ClusterRefs, NEW v \in Int
    PROVE  /\ NextsRight(TargetSetNext(p, v)) /\ PlacesRight(TargetSetEntry(p, v))
           /\ \A c \in DOMAIN TargetSetNext(p, v) : TargetSetNext(p, v)[c] = v
<1>1. CASE p \in EntryRefs
  <2>1. p.slot # NoSlot
    BY <1>1, ReferencesAre
  <2> DEFINE e == [EntryAt(p) EXCEPT !.first = IF v = FAT_EOF THEN FAT_UNUSED ELSE v]
  <2>2. EntryRight(e)
    <3>1. EntryRight(EntryAt(p))
      BY <1>1, EntryAtTyped
    <3> QED BY <3>1 DEF EntryRight
  <2>3. TargetSetNext(p, v) = <<>> /\ TargetSetEntry(p, v) = p :> e
    BY <2>1 DEF TargetSetNext, TargetSetEntry
  <2> HIDE DEF e
  <2>4. PlacesRight(p :> e)
    BY <1>1, <2>2, OneRight
  <2> QED BY <2>3, <2>4, NoneIs, NoneRight
<1>2. CASE p \in ClusterRefs
  <2>1. p.slot = NoSlot
    BY <1>2, ReferencesAre
  <2>2. TargetSetNext(p, v) = p.cluster :> v /\ TargetSetEntry(p, v) = <<>>
    BY <2>1 DEF TargetSetNext, TargetSetEntry
  <2>3. NextsRight(p.cluster :> v) /\ DOMAIN (p.cluster :> v) = {p.cluster}
        /\ (p.cluster :> v)[p.cluster] = v
    BY DEF NextsRight, :>
  <2> QED BY <2>2, <2>3, NoneRight
<1> QED BY <1>1, <1>2

(* Blocks whose entries are changed.                                       *)
LEMMA UpdatedBlock ==
    ASSUME NEW e, PlacesRight(e), NEW b, BlockRight(b), NEW c \in Clusters
    PROVE  LET here == {p \in DOMAIN e : p.cluster = c}
               new  == [b EXCEPT !.entries =
                          [i \in {p.slot : p \in here} |-> e[EntryRef(c, i)]] @@ @]
           IN  /\ BlockRight(new)
               /\ here = {} => new = b
               /\ \A i \in Indices : new.entries[i] =
                     IF EntryRef(c, i) \in DOMAIN e THEN e[EntryRef(c, i)] ELSE b.entries[i]
<1> DEFINE here == {p \in DOMAIN e : p.cluster = c}
           f == [i \in {p.slot : p \in here} |-> e[EntryRef(c, i)]]
           g == f @@ b.entries
<1>1. /\ DOMAIN b.entries = Indices /\ \A i \in Indices : EntryRight(b.entries[i])
      /\ b = [entries |-> b.entries, data |-> b.data]
      /\ b.entries = [i \in Indices |-> b.entries[i]]
  BY DEF BlockRight
<1>2. ASSUME NEW p \in here
      PROVE  p.slot \in Indices /\ p = EntryRef(c, p.slot)
  <2>1. p \in DOMAIN e /\ p.cluster = c /\ p \in EntryRefs
    BY <1>2 DEF PlacesRight
  <2> QED BY <2>1, ReferencesAre
<1>3. ASSUME NEW i \in Indices
      PROVE  i \in DOMAIN f <=> EntryRef(c, i) \in DOMAIN e
  <2>1. i \in DOMAIN f => EntryRef(c, i) \in DOMAIN e
    BY <1>2
  <2>2. EntryRef(c, i).cluster = c /\ EntryRef(c, i).slot = i
    BY DEF EntryRef
  <2>3. EntryRef(c, i) \in DOMAIN e => EntryRef(c, i) \in here
    BY <2>2
  <2> QED BY <2>1, <2>2, <2>3
<1>4. \A i \in DOMAIN f : i \in Indices /\ f[i] = e[EntryRef(c, i)]
  BY <1>2
<1>5. here = {} => DOMAIN f = {}
  BY <1>2
<1> HIDE DEF f, here
<1>6. /\ DOMAIN g = DOMAIN f \cup Indices /\ g = [i \in DOMAIN g |-> g[i]]
      /\ \A i \in Indices : g[i] = IF i \in DOMAIN f THEN f[i] ELSE b.entries[i]
  BY <1>1 DEF @@
<1>7. DOMAIN g = Indices
  BY <1>4, <1>6
<1>8. \A i \in Indices :
         g[i] = IF EntryRef(c, i) \in DOMAIN e THEN e[EntryRef(c, i)] ELSE b.entries[i]
  BY <1>3, <1>4, <1>6
<1> HIDE DEF g
<1>9. \A i \in Indices : EntryRight(g[i])
  BY <1>1, <1>8 DEF PlacesRight
<1>10. here = {} => g = b.entries
  <2>1. here = {} => \A i \in Indices : g[i] = b.entries[i]
    BY <1>5, <1>6
  <2>2. g = [i \in Indices |-> g[i]]
    BY <1>6, <1>7
  <2> QED BY <1>1, <2>1, <2>2
<1>11. [b EXCEPT !.entries = g] = [entries |-> g, data |-> b.data]
  BY <1>1
<1>12. g = [i \in Indices |-> g[i]]
  BY <1>6, <1>7
<1>13. BlockRight([entries |-> g, data |-> b.data])
  BY <1>9, <1>12 DEF BlockRight
<1>14. /\ [b EXCEPT !.entries = g].entries = g
       /\ here = {} => [b EXCEPT !.entries = g] = b
  BY <1>1, <1>10, <1>11
<1> QED BY <1>8, <1>11, <1>13, <1>14 DEF g, f, here

LEMMA UpdateKeeps ==
    ASSUME MemoryRight, NEW n, NextsRight(n), NEW e, PlacesRight(e),
           Update(n, e), UNCHANGED device, pc' # "idle"
    PROVE  /\ MemoryRight'
           /\ \A c \in Clusters : table'[c] = IF c \in DOMAIN n THEN n[c] ELSE table[c]
           /\ \A c \in Clusters :
                 /\ (\A p \in DOMAIN e : p.cluster # c) => block'[c] = block[c]
                 /\ \A i \in Indices : block'[c].entries[i] =
                       IF EntryRef(c, i) \in DOMAIN e THEN e[EntryRef(c, i)]
                       ELSE block[c].entries[i]
<1>1. /\ Whole(table, block)
      /\ \A c \in Clusters : Sector(c) \notin dirty => table[c] = device.table[c]
      /\ \A c \in Clusters : Unit(c) \notin dirty => block[c] = device.block[c]
  BY DEF MemoryRight
<1>2. /\ table' = n @@ table
      /\ dirty' = dirty \cup {Sector(c) : c \in DOMAIN n} \cup {Unit(p.cluster) : p \in DOMAIN e}
  BY DEF Update
<1>3. ASSUME NEW c \in Clusters
      PROVE  table'[c] = (IF c \in DOMAIN n THEN n[c] ELSE table[c]) /\ table'[c] \in Int
  BY <1>1, <1>2 DEF Whole, NextsRight, @@
<1>4. Clusters \subseteq DOMAIN table'
  BY <1>1, <1>2 DEF Whole, @@
<1>5. /\ DOMAIN block' = Clusters
      /\ \A c \in Clusters :
           /\ BlockRight(block'[c])
           /\ (\A p \in DOMAIN e : p.cluster # c) => block'[c] = block[c]
           /\ \A i \in Indices : block'[c].entries[i] =
                 IF EntryRef(c, i) \in DOMAIN e THEN e[EntryRef(c, i)]
                 ELSE block[c].entries[i]
  <2>1. \A c \in Clusters : BlockRight(block[c])
    BY <1>1 DEF Whole
  <2>2. DOMAIN block' = Clusters
    BY DEF Update
  <2>3. ASSUME NEW c \in Clusters
        PROVE  /\ BlockRight(block'[c])
               /\ (\A p \in DOMAIN e : p.cluster # c) => block'[c] = block[c]
               /\ \A i \in Indices : block'[c].entries[i] =
                     IF EntryRef(c, i) \in DOMAIN e THEN e[EntryRef(c, i)]
                     ELSE block[c].entries[i]
    <3> DEFINE here == {p \in DOMAIN e : p.cluster = c}
               new  == [block[c] EXCEPT !.entries =
                          [i \in {p.slot : p \in here} |-> e[EntryRef(c, i)]] @@ @]
    <3>1. block'[c] = new
      BY DEF Update
    <3>2. /\ BlockRight(new)
          /\ here = {} => new = block[c]
          /\ \A i \in Indices : new.entries[i] =
                IF EntryRef(c, i) \in DOMAIN e THEN e[EntryRef(c, i)] ELSE block[c].entries[i]
      BY <2>1, UpdatedBlock
    <3>3. (\A p \in DOMAIN e : p.cluster # c) => here = {}
      OBVIOUS
    <3> HIDE DEF here, new
    <3> QED BY <3>1, <3>2, <3>3
  <2> QED BY <2>2, <2>3
<1>6. Whole(table', block')
  BY <1>3, <1>4, <1>5 DEF Whole
<1>7. ASSUME NEW c \in Clusters
      PROVE  /\ Sector(c) \notin dirty' => table'[c] = device.table[c]
             /\ Unit(c) \notin dirty' => block'[c] = device.block[c]
  <2>1. Sector(c) \notin dirty' => Sector(c) \notin dirty /\ c \notin DOMAIN n
    BY <1>2
  <2>2. Unit(c) \notin dirty' => Unit(c) \notin dirty /\ \A p \in DOMAIN e : p.cluster # c
    BY <1>2
  <2> QED BY <1>1, <1>3, <1>5, <2>1, <2>2
<1> QED BY <1>3, <1>5, <1>6, <1>7 DEF MemoryRight

(* Clusters that are written.                                              *)
LEMMA WriteKeeps ==
    ASSUME MemoryRight, NEW w, \A c \in DOMAIN w : BlockRight(w[c]),
           NEW m \in BOOLEAN, WriteBlocks(w, m), UNCHANGED table, pc' # "idle"
    PROVE  /\ MemoryRight'
           /\ device'.table = device.table /\ device'.last = device.last
           /\ \A c \in Clusters :
                 /\ block'[c] = IF c \in DOMAIN w THEN w[c] ELSE block[c]
                 /\ device'.block[c] =
                       IF m /\ c \in DOMAIN w THEN w[c] ELSE device.block[c]
<1>1. /\ Whole(table, block) /\ Whole(device.table, device.block) /\ device.last \in Int
      /\ device = [table |-> device.table, block |-> device.block, last |-> device.last]
      /\ \A c \in Clusters : Sector(c) \notin dirty => table[c] = device.table[c]
      /\ \A c \in Clusters : Unit(c) \notin dirty => block[c] = device.block[c]
  BY DEF MemoryRight
<1> DEFINE db == IF m THEN w @@ device.block ELSE device.block
<1>2. /\ block' = w @@ block
      /\ device' = [table |-> device.table, block |-> db, last |-> device.last]
      /\ m => dirty' = dirty
      /\ ~ m => dirty' = dirty \cup {Unit(c) : c \in DOMAIN w}
  BY <1>1 DEF WriteBlocks
<1>3. /\ Clusters \subseteq DOMAIN block'
      /\ \A c \in Clusters : block'[c] = IF c \in DOMAIN w THEN w[c] ELSE block[c]
  BY <1>1, <1>2 DEF Whole, @@
<1>4. /\ Clusters \subseteq DOMAIN db
      /\ \A c \in Clusters : db[c] = IF m /\ c \in DOMAIN w THEN w[c] ELSE device.block[c]
  BY <1>1 DEF Whole, @@
<1> HIDE DEF db
<1>5. /\ device'.table = device.table /\ device'.block = db /\ device'.last = device.last
      /\ device' = [table |-> device'.table, block |-> device'.block, last |-> device'.last]
  BY <1>2
<1>6. Whole(table', block') /\ Whole(device'.table, device'.block)
  BY <1>1, <1>3, <1>4, <1>5 DEF Whole
<1>7. ASSUME NEW c \in Clusters
      PROVE  /\ Sector(c) \notin dirty' => table'[c] = device'.table[c]
             /\ Unit(c) \notin dirty' => block'[c] = device'.block[c]
  <2>1. dirty \subseteq dirty' /\ (~ m /\ c \in DOMAIN w => Unit(c) \in dirty')
    BY <1>2
  <2> QED BY <1>1, <1>3, <1>4, <1>5, <2>1
<1> QED BY <1>1, <1>3, <1>4, <1>5, <1>6, <1>7 DEF MemoryRight

HIDE DEF FAT_FIRST, FAT_UNUSED, FAT_EOF, FAT_BAD, FAT_ERR
-----------------------------------------------------------------------------
(***************************************************************************)
(* A program that exits: its searches, its memory and its variables are as *)
(* they have to be.                                                        *)
(***************************************************************************)
(* The numbers of a request, and what the searches are given.              *)
LEMMA RequestsAre ==
    \A q \in Requests :
       /\ q.begin \in Clusters /\ q.end \in Clusters
       /\ q.size \in Int /\ q.cluster \in Int /\ q.next \in Int
  BY CommandsAssumption

LEMMA CeilInt == \A n \in Int : Ceil(n) \in Int /\ n \div Bytes \in Int
<1>1. Bytes \in Nat /\ Bytes > 0
  BY CommandsAssumption
<1>2. ASSUME NEW n \in Int PROVE Ceil(n) \in Int /\ n \div Bytes \in Int
  <2>1. n + Bytes - 1 \in Int
    BY <1>1
  <2>2. \A k \in Int : k \div Bytes \in Int
    BY <1>1
  <2> QED BY <2>1, <2>2 DEF Ceil
<1> QED BY <1>2

(* The search when the program goes on without one.                        *)
LEMMA SearchRests ==
    ASSUME SearchRight, fn = "none",
           \/ UNCHANGED search
           \/ TakeAnswer
           \/ last' \in Int /\ UNCHANGED <<fn, result, locals>>,
           pc' \notin Finding \cup {"attach"}
    PROVE  SearchRight'
<1>1. fn' = "none"
  BY DEF search, TakeAnswer
<1>2. last' \in Int /\ result' \in Int
  BY DEF search, TakeAnswer, Taken, SearchRight, NoResult
<1>3. begin' \in Int /\ end' \in Int /\ start' \in Int /\ cl' \in Int /\ first' \in Int
  BY DEF search, locals, arguments, loop, TakeAnswer, Taken, SearchRight, FAT_FIRST
<1> QED BY <1>1, <1>2, <1>3 DEF SearchRight

(* A search for a cluster begins.                                          *)
LEMMA SearchBegins ==
    ASSUME SearchRight, NEW b \in Clusters, NEW e \in Clusters, NEW s \in Int,
           CallFind(b, e, s, 1), pc' \in Finding
    PROVE  SearchRight'
<1> DEFINE from == IF s = -1 THEN last ELSE s
<1>1. Call("find", b, e, from, 1)
  BY DEF CallFind
<1>2. from \in Int /\ b \in Int /\ e \in Int /\ last \in Int
  BY ReferencesAre DEF SearchRight
<1> HIDE DEF from
<1>3. CASE ~ (IsRegular(b) /\ IsRegular(e) /\ IsRegular(from))
  <2>1. fn' = "exit" /\ UNCHANGED <<last, result, locals>>
    BY <1>1, <1>3 DEF Call
  <2>2. /\ last' \in Int /\ result' \in Int /\ begin' \in Int /\ end' \in Int
        /\ start' \in Int /\ cl' \in Int /\ first' \in Int
    BY <2>1 DEF locals, arguments, loop, SearchRight
  <2>3. pc' \in Waiting /\ pc' # "attach"
    BY DEF Waiting, Finding
  <2> QED BY <2>1, <2>2, <2>3 DEF SearchRight
<1>4. CASE IsRegular(b) /\ IsRegular(e) /\ IsRegular(from)
  <2>1. /\ fn' = "find" /\ begin' = b /\ end' = e /\ length' = 1
        /\ start' = (IF IsBetween(from, b, e) THEN from ELSE b)
        /\ cl' = start' /\ count' = 0 /\ UNCHANGED <<last, result, first>>
    BY <1>1, <1>4 DEF Call
  <2>2. from \in Clusters
    BY <1>2, <1>4, LastAssumption DEF IsRegular, IsBetween, Clusters, FAT_FIRST
  <2>3. cl' \in Clusters /\ cl' \in Int /\ start' \in Int
    BY <2>1, <2>2, ReferencesAre
  <2>4. last' \in Int /\ result' \in Int /\ first' \in Int
    BY <2>1 DEF SearchRight
  <2>5. pc' \in Waiting /\ pc' # "attach"
    BY DEF Waiting, Finding
  <2> QED BY <1>2, <2>1, <2>3, <2>4, <2>5 DEF SearchRight
<1> QED BY <1>3, <1>4

(* Searches the programs wait for go on.                                   *)
LEMMA IntervalIn ==
    ASSUME NEW b \in Clusters, NEW e \in Clusters, NEW c \in Clusters
    PROVE  IntervalNext(c, b, e) \in Clusters
  BY LastAssumption DEF IntervalNext, Clusters, FAT_FIRST

LEMMA SearchGoesOn ==
    ASSUME SearchRight, Searching, UNCHANGED <<table, pc>>
    PROVE  SearchRight'
<1>1. fn \in {"none", "exit", "find", "allocated"}
  BY DEF SearchRight
<1>2. Find \/ Allocated
  BY <1>1 DEF Searching, NumFree, AreaBad, MostFree, Longest
<1>3. pc \in Waiting /\ pc # "attach"
  BY <1>2 DEF Find, Allocated, SearchRight, Waiting, Finding
<1>4. UNCHANGED arguments
  BY <1>2 DEF Find, Allocated
<1>5. FAT_ERR \in Int /\ Clusters \subseteq Int
  BY ReferencesAre DEF FAT_ERR
<1>6. \A c \in Int : \A b \in Int : \A e \in Int : IntervalNext(c, b, e) \in Int
  BY LastAssumption DEF IntervalNext, FAT_FIRST
<1>7. CASE Find
  <2>1. fn = "find" /\ begin' = begin /\ end' = end /\ start' = start /\ length' = length
    BY <1>4, <1>7 DEF Find, arguments
  <2>2. last' \in Int /\ first' \in Int
    BY <1>7 DEF Find, SequenceFirst, SearchRight
  <2>3. /\ cl' \in Int
        /\ \/ fn' = "none" /\ result' \in {first', FAT_ERR}
           \/ fn' = "find" /\ result' = result
    BY <1>6, <1>7 DEF Find, Return, LoopOrReturn, Loop, SearchRight
  <2>4. ASSUME pc \in Finding
        PROVE  /\ fn' = "find" => cl' \in Clusters /\ count' = 0
               /\ fn' = "none" => result' = FAT_ERR \/ (result' \in Clusters /\ Free(result'))
    <3>1. length = 1 /\ count = 0 /\ begin \in Clusters /\ end \in Clusters /\ cl \in Clusters
      BY <2>1, <2>4 DEF SearchRight
    <3>2. CASE Free(cl)
      <4>1. first' = cl /\ count' = 1
        BY <1>5, <1>7, <3>1, <3>2 DEF Find, SequenceFirst, SequenceCount
      <4>2. fn' = "none" /\ result' = cl
        BY <1>7, <3>1, <3>2, <4>1 DEF Find, Return
      <4> QED BY <3>1, <3>2, <4>2
    <3>3. CASE ~ Free(cl)
      <4>1. count' = 0 /\ LoopOrReturn(start, FAT_ERR)
        BY <1>7, <3>3 DEF Find
      <4>2. cl' \in Clusters
        BY <3>1, <4>1, IntervalIn DEF LoopOrReturn
      <4>3. fn' = "none" => result' = FAT_ERR
        BY <2>1, <4>1 DEF LoopOrReturn, Return, Loop
      <4> QED BY <4>1, <4>2, <4>3
    <3> QED BY <3>2, <3>3
  <2>5. \A c \in Clusters : Free(c) => Free(c)'
    BY DEF Free
  <2>6. result' \in Int
    BY <1>5, <2>2, <2>3 DEF SearchRight
  <2>7. begin' \in Int /\ end' \in Int /\ start' \in Int
    BY <2>1 DEF SearchRight
  <2>8. pc' = pc /\ fn' \in {"none", "find"}
    BY <2>3
  <2>9. ASSUME fn' = "find", pc' \in Finding
        PROVE  /\ length' = 1 /\ count' = 0
               /\ begin' \in Clusters /\ end' \in Clusters /\ cl' \in Clusters
    <3>1. length = 1 /\ begin \in Clusters /\ end \in Clusters
      BY <2>1, <2>8, <2>9 DEF SearchRight
    <3> QED BY <2>1, <2>4, <2>8, <2>9, <3>1
  <2>10. ASSUME fn' = "none", pc' \in Finding \cup {"attach"}
         PROVE  result' = FAT_ERR \/ (result' \in Clusters /\ Free(result)')
    <3>1. result' = FAT_ERR \/ (result' \in Clusters /\ Free(result'))
      BY <1>3, <2>4, <2>8, <2>10
    <3> QED BY <3>1 DEF Free
  <2>11. pc' # "attach" /\ pc' \in Waiting /\ fn' # "allocated"
    BY <1>3, <2>8
  <2> QED BY <2>2, <2>3, <2>6, <2>7, <2>8, <2>9, <2>10, <2>11 DEF SearchRight
<1>8. CASE Allocated
  <2>1. fn = "allocated" /\ begin' = begin /\ end' = end /\ start' = start /\ UNCHANGED <<last, first>>
    BY <1>4, <1>8 DEF Allocated, arguments
  <2>2. /\ cl' \in Int
        /\ \/ fn' = "none" /\ result' \in {cl, FAT_ERR}
           \/ fn' = "allocated" /\ result' = result
    <3>1. cl \in Int /\ begin \in Int /\ end \in Int
      BY DEF SearchRight
    <3>2. CASE Used(cl)
      BY <1>8, <3>1, <3>2 DEF Allocated, Return
    <3>3. CASE ~ Used(cl)
      <4>1. LoopOrReturn(start, FAT_ERR)
        BY <1>8, <3>3 DEF Allocated
      <4> QED BY <1>6, <2>1, <3>1, <4>1 DEF LoopOrReturn, Return, Loop
    <3> QED BY <3>2, <3>3
  <2>3. pc' = "bad" /\ pc' \notin Finding /\ pc' \in Waiting
    BY <2>1 DEF SearchRight, Finding, Waiting
  <2> QED BY <1>5, <2>1, <2>2, <2>3 DEF SearchRight
<1> QED BY <1>2, <1>7, <1>8

-----------------------------------------------------------------------------
(* How a command ends: the program exits, or goes to close.                *)
LEMMA NoRefIs == NoRef \in EntryRefs \cup ClusterRefs \cup {NoRef}
  OBVIOUS

LEMMA ExitKeeps ==
    ASSUME ExitInv, pc \in Running, Exit
    PROVE  ExitInv'
<1>1. /\ pc' = "idle" /\ ended' = "exit" /\ table' = device.table /\ block' = device.block
      /\ dirty' = {} /\ last' = device.last /\ fn' = "none" /\ Taken
      /\ at' = NoRef /\ file' = NoRef /\ left' = 0 /\ size' = 0
      /\ UNCHANGED <<device, request, before>>
  BY DEF Exit, UpTo, Forget, session
<1>2. SearchRight'
  BY <1>1 DEF ExitInv, MemoryRight, SearchRight, Taken, NoResult, FAT_FIRST, Finding, Waiting
<1>3. MemoryRight'
  BY <1>1 DEF ExitInv, MemoryRight
<1>4. LocalsRight'
  BY <1>1 DEF ExitInv, LocalsRight, WithFile, Creation
<1>5. Untouched
  BY DEF ExitInv, Harmless
<1>6. Untouched'
  BY <1>1, <1>5 DEF Untouched
<1>7. Harmless'
  BY <1>1, <1>6 DEF Harmless, Running, Waiting, Finding, Creation
<1> QED BY <1>2, <1>3, <1>4, <1>7 DEF ExitInv

LEMMA DoneKeeps ==
    ASSUME ExitInv, fn = "none", Done, MemoryRight',
           \/ UNCHANGED search
           \/ TakeAnswer
           \/ last' \in Int /\ UNCHANGED <<fn, result, locals>>
    PROVE  ExitInv'
<1>1. pc' = "close" /\ UNCHANGED <<request, before, ended, at, file, left, size>>
  BY DEF Done, UpTo, session, local
<1>2. SearchRight'
  <2>1. pc' \notin Finding \cup {"attach"}
    BY <1>1 DEF Finding
  <2> QED BY <2>1, SearchRests DEF ExitInv
<1>3. LocalsRight'
  BY <1>1 DEF ExitInv, LocalsRight, WithFile, Creation
<1>4. Harmless'
  BY <1>1 DEF Harmless, Running, Waiting, Finding, Creation
<1> QED BY <1>2, <1>3, <1>4 DEF ExitInv

(* The program does not wait for a search.                                 *)
LEMMA NotWaiting ==
    ASSUME ExitInv, pc \notin Waiting
    PROVE  fn = "none"
  BY DEF ExitInv, SearchRight

LEMMA DoneUpdateKeeps ==
    ASSUME ExitInv, fn = "none", NEW n, NextsRight(n), NEW e, PlacesRight(e), DoneUpdate(n, e)
    PROVE  ExitInv'
<1>1. Update(n, e) /\ Done /\ UNCHANGED search /\ UNCHANGED device
  BY DEF DoneUpdate
<1>2. pc' # "idle"
  BY <1>1 DEF Done, UpTo
<1>3. MemoryRight'
  BY <1>1, <1>2, UpdateKeeps DEF ExitInv
<1> QED BY <1>1, <1>3, DoneKeeps

(* The filesystem in memory does not change.                               *)
LEMMA MemoryStays ==
    ASSUME MemoryRight, UNCHANGED <<device, memory>>, pc' # "idle"
    PROVE  MemoryRight'
  BY DEF memory, MemoryRight

(* A command goes on.                                                      *)
LEMMA StepKeeps ==
    ASSUME ExitInv, pc \in Running, pc' \in Running, SearchRight', MemoryRight', LocalsRight',
           UNCHANGED <<device, before>>,
           \/ pc' \in {"start", "more", "got", "attach"}
           \/ pc' \in Creation /\ request'.command = "writefile"
           => NothingFreed'
    PROVE  ExitInv'
<1>1. Untouched
  BY DEF ExitInv, Harmless
<1>2. Untouched'
  BY <1>1 DEF Untouched
<1>3. Harmless'
  BY <1>2 DEF Harmless, Running, Waiting, Finding, Creation
<1> QED BY <1>3 DEF ExitInv

(* Nothing is freed if the table does not change, or takes clusters.       *)
LEMMA NothingFreedStays ==
    ASSUME NothingFreed, UNCHANGED before,
           \A c \in Clusters : table'[c] = table[c] \/ table'[c] # FAT_UNUSED
    PROVE  NothingFreed'
  BY DEF NothingFreed

-----------------------------------------------------------------------------
(* Commands that do one step.                                              *)
LEMMA OnFileIs ==
    ASSUME ExitInv, pc = "start", file # NoRef
    PROVE  /\ file \in EntryRefs /\ EntryRight(EntryAt(file)) /\ fn = "none"
           /\ Whole(table, block) /\ request \in Requests
<1>1. file \in EntryRefs /\ request \in Requests
  BY DEF ExitInv, LocalsRight
<1>2. Whole(table, block)
  BY DEF ExitInv, MemoryRight
<1>3. fn = "none"
  BY NotWaiting DEF Waiting, Finding
<1> QED BY <1>1, <1>2, <1>3, EntryAtTyped

LEMMA StartRuns == \A p \in {"start", "create", "grow", "created", "more", "got", "attach",
                             "written", "sequence", "dir", "extend", "extended", "chain",
                             "chainfirst", "chained", "recover", "recovered", "bad"} :
                      p \in Running
  BY DEF Running, Waiting, Finding

LEMMA OnEntryKeeps ==
    ASSUME ExitInv, pc = "start", file # NoRef, NEW v, EntryRight(v),
           DoneUpdate(<<>>, file :> v)
    PROVE  ExitInv'
<1>1. PlacesRight(file :> v)
  BY OnFileIs, OneRight
<1> HIDE DEF DoneUpdate
<1> QED BY <1>1, NoneRight, OnFileIs, DoneUpdateKeeps

LEMMA SetNameKeeps == ASSUME ExitInv, SetName PROVE ExitInv'
<1>1. pc = "start" /\ file # NoRef
      /\ DoneUpdate(<<>>, file :> [EntryAt(file) EXCEPT !.name = request.other])
  BY DEF SetName, OnFile, Starts
<1> DEFINE v == [EntryAt(file) EXCEPT !.name = request.other]
<1>2. EntryRight(v)
  BY <1>1, OnFileIs, FieldsRight
<1> HIDE DEF v
<1> QED BY <1>1, <1>2, OnEntryKeeps DEF v

LEMMA SetSizeKeeps == ASSUME ExitInv, SetSize PROVE ExitInv'
<1> DEFINE v == [EntryAt(file) EXCEPT !.size = request.size]
<1>1. pc = "start" /\ file # NoRef /\ (Exit \/ DoneUpdate(<<>>, file :> v))
  BY DEF SetSize, OnFile, Starts
<1>2. EntryRight(v)
  BY <1>1, OnFileIs, FieldsRight, RequestsAre
<1> HIDE DEF v
<1> QED BY <1>1, <1>2, OnEntryKeeps, StartRuns, ExitKeeps

LEMMA SetFirstKeeps == ASSUME ExitInv, SetFirst PROVE ExitInv'
<1> DEFINE v == [EntryAt(file) EXCEPT !.first = request.cluster]
<1>1. pc = "start" /\ file # NoRef /\ DoneUpdate(<<>>, file :> v)
  BY DEF SetFirst, OnFile, Starts
<1>2. EntryRight(v)
  BY <1>1, OnFileIs, FieldsRight, RequestsAre
<1> HIDE DEF v
<1> QED BY <1>1, <1>2, OnEntryKeeps

LEMMA DeleteKeeps == ASSUME ExitInv, Delete PROVE ExitInv'
<1> DEFINE v == [EntryAt(file) EXCEPT !.state = "deleted"]
<1>1. pc = "start" /\ file # NoRef /\ DoneUpdate(<<>>, file :> v)
  BY DEF Delete, OnFile, Starts
<1>2. EntryRight(v)
  BY <1>1, OnFileIs, FieldsRight
<1> HIDE DEF v
<1> QED BY <1>1, <1>2, OnEntryKeeps

(* What is known where a command starts.                                   *)
LEMMA StartIs ==
    ASSUME ExitInv, pc = "start"
    PROVE  /\ fn = "none" /\ request \in Requests /\ Whole(table, block)
           /\ request.size \in Int /\ request.cluster \in Int /\ request.next \in Int
           /\ request.begin \in Clusters /\ request.end \in Clusters
<1>1. request \in Requests /\ Whole(table, block)
  BY DEF ExitInv, MemoryRight, LocalsRight
<1>2. fn = "none"
  BY NotWaiting DEF Waiting, Finding
<1> QED BY <1>1, <1>2, RequestsAre

LEMMA NotFoundKeeps == ASSUME ExitInv, NotFound PROVE ExitInv'
<1>1. /\ pc = "start"
      /\ \/ Exit
         \/ Done /\ UNCHANGED <<search, device, memory>>
  BY Zenon DEF NotFound
<1>2. CASE Exit
  BY <1>1, <1>2, StartRuns, ExitKeeps
<1>3. CASE Done /\ UNCHANGED <<search, device, memory>>
  <2>1. MemoryRight'
    BY <1>3, MemoryStays DEF Done, UpTo, ExitInv
  <2> QED BY <1>1, <1>3, <2>1, StartIs, DoneKeeps
<1> QED BY <1>1, <1>2, <1>3

LEMMA SetNextKeeps == ASSUME ExitInv, SetNext PROVE ExitInv'
<1> DEFINE n == request.cluster :> request.next
<1>1. pc = "start" /\ DoneUpdate(n, <<>>)
  BY DEF SetNext, Starts
<1>2. NextsRight(n)
  BY <1>1, StartIs, OneRight
<1> HIDE DEF n
<1> QED BY <1>1, <1>2, NoneRight, StartIs, DoneUpdateKeeps

LEMMA SetLastKeeps == ASSUME ExitInv, SetLast PROVE ExitInv'
<1>1. /\ pc = "start" /\ last' = request.cluster /\ Done
      /\ UNCHANGED <<memory, device>> /\ UNCHANGED <<fn, result, locals>>
  BY DEF SetLast, Starts
<1>2. MemoryRight'
  BY <1>1, MemoryStays DEF Done, UpTo, ExitInv
<1> QED BY <1>1, <1>2, StartIs, DoneKeeps

LEMMA DataBlockRight == \A what, part : BlockRight(DataBlock(what, part))
<1>1. \A i \in Indices : EntryRight(NoEntries[i])
  BY EndIsEntry DEF NoEntries
<1> QED BY <1>1 DEF DataBlock, BlockRight, NoEntries

LEMMA ZeroRight == BlockRight(Zero)
<1>1. \A i \in Indices : EntryRight(NoEntries[i])
  BY EndIsEntry DEF NoEntries
<1> QED BY <1>1 DEF Zero, BlockRight, NoEntries

LEMMA DoneWriteKeeps ==
    ASSUME ExitInv, pc = "start", NEW w, \A c \in DOMAIN w : BlockRight(w[c]),
           NEW m \in BOOLEAN, WriteBlocks(w, m), Done, UNCHANGED <<search, table>>
    PROVE  ExitInv'
<1>1. MemoryRight'
  BY WriteKeeps DEF Done, UpTo, ExitInv
<1> QED BY <1>1, StartIs, DoneKeeps

LEMMA WriteClusterKeeps == ASSUME ExitInv, WriteCluster PROVE ExitInv'
<1> DEFINE w == request.cluster :> DataBlock("new", 1)
<1>1. pc = "start" /\ WriteBlocks(w, TRUE) /\ Done /\ UNCHANGED <<search, table>>
  BY DEF WriteCluster, Starts
<1>2. \A c \in DOMAIN w : BlockRight(w[c])
  BY DataBlockRight DEF :>
<1> HIDE DEF w
<1> QED BY <1>1, <1>2, DoneWriteKeeps

LEMMA SparseKeeps == ASSUME ExitInv, Sparse PROVE ExitInv'
<1> DEFINE w == All(Zero, Unused)
<1>1. pc = "start" /\ WriteBlocks(w, TRUE) /\ Done /\ UNCHANGED <<search, table>>
  BY DEF Sparse, Starts
<1>2. \A c \in DOMAIN w : BlockRight(w[c])
  BY ZeroRight, AllIs
<1> HIDE DEF w
<1> QED BY <1>1, <1>2, DoneWriteKeeps

LEMMA OverwriteKeeps == ASSUME ExitInv, Overwrite PROVE ExitInv'
<1> DEFINE chain == ChainOf(file)
           n     == Min({Len(chain), Ceil(request.size)})
           part(c) == CHOOSE k \in 1 .. n : chain[k] = c
           w == [c \in ClustersOf(SubSeq(chain, 1, n)) |-> DataBlock("new", part(c))]
           m == request.option = "immediate"
<1>1. /\ pc = "start"
      /\ \/ Exit
         \/ /\ request.option = "test" /\ UNCHANGED <<device, block, dirty>>
            /\ Done /\ UNCHANGED <<search, table>>
         \/ WriteBlocks(w, m) /\ Done /\ UNCHANGED <<search, table>>
  BY DEF Overwrite, OnFile, Starts
<1>2. \A c \in DOMAIN w : BlockRight(w[c])
  BY DataBlockRight
<1> HIDE DEF w
<1>3. CASE Exit
  BY <1>1, <1>3, StartRuns, ExitKeeps
<1>4. CASE UNCHANGED <<device, block, dirty>> /\ Done /\ UNCHANGED <<search, table>>
  <2>1. MemoryRight'
    BY <1>4, MemoryStays DEF Done, UpTo, memory, ExitInv
  <2> QED BY <1>1, <1>4, <2>1, StartIs, DoneKeeps
<1>5. CASE WriteBlocks(w, m) /\ Done /\ UNCHANGED <<search, table>>
  BY <1>1, <1>2, <1>5, DoneWriteKeeps
<1> QED BY <1>1, <1>3, <1>4, <1>5

(* A program waits for a search.                                           *)
LEMMA AreaSearched ==
    ASSUME ExitInv, NEW p \in Finding, SearchArea(p)
    PROVE  SearchRight' /\ pc' = p
<1>1. CallFind(request.begin, request.end, -1, 1) /\ pc' = p
  BY DEF SearchArea, Search, UpTo
<1>2. request.begin \in Clusters /\ request.end \in Clusters
  BY RequestsAre DEF ExitInv, LocalsRight
<1> QED BY <1>1, <1>2, SearchBegins DEF ExitInv

LEMMA EndsIn == FAT_FIRST \in Clusters /\ Last \in Clusters
  BY LastAssumption DEF Clusters, FAT_FIRST

LEMMA AllSearched ==
    ASSUME ExitInv, NEW p \in Finding, NEW s \in Int, SearchAll(p, s)
    PROVE  SearchRight' /\ pc' = p
<1>1. CallFind(FAT_FIRST, Last, s, 1) /\ pc' = p
  BY DEF SearchAll, Search, UpTo
<1> QED BY <1>1, EndsIn, SearchBegins DEF ExitInv

(* What a search found.                                                    *)
LEMMA AnswerIs ==
    ASSUME ExitInv, Answered, pc \in Finding, result # FAT_ERR
    PROVE  result \in Clusters /\ Free(result) /\ fn = "none" /\ result \in Int
  BY ReferencesAre DEF ExitInv, SearchRight, Answered

LEMMA BadsKeeps == ASSUME ExitInv, Bads PROVE ExitInv'
<1>1. /\ pc = "start" /\ pc' = "bad"
      /\ Call("allocated", request.cluster, request.next, request.cluster, 1)
      /\ UNCHANGED <<device, memory, session, ended, ghosts, local>>
  BY DEF Bads, Starts, CallAllocated, UpTo
<1>2. request.cluster \in Int /\ request.next \in Int
  BY <1>1, StartIs
<1>3. /\ fn' \in {"exit", "allocated"} /\ last' = last /\ result' = result /\ first' = first
      /\ begin' \in Int /\ end' \in Int /\ start' \in Int /\ cl' \in Int
  <2>1. CASE fn' = "exit" /\ UNCHANGED <<last, result, locals>>
    BY <2>1 DEF locals, arguments, loop, ExitInv, SearchRight
  <2>2. CASE /\ fn' = "allocated" /\ begin' = request.cluster /\ end' = request.next
             /\ start' \in {request.cluster} /\ cl' = start'
             /\ UNCHANGED <<last, result, first>>
    BY <1>2, <2>2
  <2> QED BY <1>1, <2>1, <2>2 DEF Call
<1>4. last \in Int /\ result \in Int /\ first \in Int
  BY DEF ExitInv, SearchRight
<1>5. SearchRight'
  BY <1>1, <1>3, <1>4 DEF SearchRight, Waiting, Finding
<1>6. MemoryRight'
  BY <1>1, MemoryStays DEF ExitInv
<1>7. LocalsRight'
  BY <1>1 DEF ExitInv, LocalsRight, session, local, WithFile, Creation
<1> QED BY <1>1, <1>5, <1>6, <1>7, StartRuns, StepKeeps DEF session, Creation

LEMMA MarkBadKeeps == ASSUME ExitInv, MarkBad PROVE ExitInv'
<1> DEFINE n == All(FAT_BAD, request.cluster .. request.next)
<1>1. /\ pc = "bad" /\ fn = "none"
      /\ \/ Update(n, <<>>) /\ Done /\ TakeAnswer /\ UNCHANGED device
         \/ Exit
  BY DEF MarkBad, Answered
<1>2. NextsRight(n)
  BY AllRight DEF FAT_BAD
<1> HIDE DEF n
<1>3. CASE Exit
  BY <1>1, <1>3, StartRuns, ExitKeeps
<1>4. CASE Update(n, <<>>) /\ Done /\ TakeAnswer /\ UNCHANGED device
  <2>1. MemoryRight'
    BY <1>2, <1>4, NoneRight, UpdateKeeps DEF ExitInv, Done, UpTo
  <2> QED BY <1>1, <1>4, <2>1, DoneKeeps
<1> QED BY <1>1, <1>3, <1>4

LEMMA ZeroAllKeeps == ASSUME ExitInv, ZeroAll PROVE ExitInv'
<1> DEFINE n == Root :> FAT_EOF @@ All(FAT_UNUSED, Clusters)
           e == All(EndEntry, {EntryRef(Root, i) : i \in Indices})
<1>1. pc = "start" /\ DoneUpdate(n, e)
  BY DEF ZeroAll, Starts
<1>2. NextsRight(n)
  <2>1. NextsRight(Root :> FAT_EOF)
    BY OneRight DEF FAT_EOF
  <2>2. NextsRight(All(FAT_UNUSED, Clusters))
    BY AllRight DEF FAT_UNUSED
  <2> QED BY <2>1, <2>2, OverRight
<1>3. PlacesRight(e)
  <2>1. {EntryRef(Root, i) : i \in Indices} \subseteq EntryRefs
    BY ReferencesAre DEF EntryRefs, EntryRef
  <2> QED BY <2>1, EndIsEntry, AllRight
<1> HIDE DEF n, e
<1> QED BY <1>1, <1>2, <1>3, StartIs, DoneUpdateKeeps

-----------------------------------------------------------------------------
(* Files are created.                                                      *)
LEMMA StartCreatingKeeps == ASSUME ExitInv, StartCreating PROVE ExitInv'
<1>1. /\ pc = "start" /\ pc' = "create" /\ request.command # "link"
      /\ UNCHANGED <<search, device, memory, session, ended, ghosts, local>>
  BY DEF StartCreating, Starts, UpTo
<1>2. fn = "none"
  BY <1>1, StartIs
<1>3. SearchRight'
  BY <1>1, <1>2, SearchRests DEF ExitInv, Finding
<1>4. MemoryRight'
  BY <1>1, MemoryStays DEF ExitInv
<1>5. LocalsRight'
  BY <1>1 DEF ExitInv, LocalsRight, session, local, WithFile, Creation
<1>6. NothingFreed'
  <2>1. NothingFreed
    BY <1>1 DEF ExitInv, Harmless
  <2> QED BY <1>1, <2>1, NothingFreedStays DEF session, memory
<1> QED BY <1>1, <1>3, <1>4, <1>5, <1>6, StartRuns, StepKeeps DEF session

LEMMA CannotCreateKeeps ==
    ASSUME ExitInv, pc \in {"create", "grow"}, fn = "none", CannotCreate
    PROVE  ExitInv'
<1>1. CASE Exit
  BY <1>1, StartRuns, ExitKeeps
<1>2. CASE /\ pc' = "close" /\ TakeAnswer /\ Forget
           /\ UNCHANGED <<device, memory, session, ended, ghosts, output>>
  <2>1. at' = NoRef /\ file' = NoRef /\ left' = 0 /\ size' = 0 /\ UNCHANGED request
    BY <1>2 DEF Forget, session
  <2>2. SearchRight'
    BY <1>2, SearchRests DEF ExitInv, Finding
  <2>3. MemoryRight'
    BY <1>2, MemoryStays DEF ExitInv
  <2>4. LocalsRight'
    BY <1>2, <2>1 DEF ExitInv, LocalsRight, WithFile, Creation
  <2>5. Harmless'
    BY <1>2 DEF Harmless, Running, Waiting, Finding, Creation
  <2> QED BY <2>2, <2>3, <2>4, <2>5 DEF ExitInv
<1> QED BY <1>1, <1>2 DEF CannotCreate, UpTo

LEMMA CreateKeeps == ASSUME ExitInv, Create PROVE ExitInv'
<1>1. pc = "create" /\ fn = "none" /\ pc \in Running
  BY NotWaiting, StartRuns DEF Create, Waiting, Finding
<1>2. CASE CannotCreate
  BY <1>1, <1>2, CannotCreateKeeps
<1>3. CASE SearchAll("grow", -1) /\ UNCHANGED <<device, memory, session, ended, ghosts, local>>
  <2>1. SearchRight' /\ pc' = "grow"
    BY <1>3, AllSearched DEF Finding
  <2>2. MemoryRight'
    BY <1>3, <2>1, MemoryStays DEF ExitInv
  <2>3. LocalsRight'
    BY <1>1, <1>3, <2>1 DEF ExitInv, LocalsRight, session, local, WithFile, Creation
  <2>4. request.command = "writefile" => NothingFreed
    BY <1>1 DEF ExitInv, Harmless, Creation
  <2>5. request.command = "writefile" => NothingFreed'
    BY <1>3, <2>4, NothingFreedStays DEF session, memory
  <2> QED BY <1>1, <1>3, <2>1, <2>2, <2>3, <2>5, StartRuns, StepKeeps DEF session
<1>4. ASSUME NEW p \in FreeEntry,
             Update(<<>>, p[2] :> File(NewName)), pc' = "created", at' = p[2],
             UNCHANGED <<search, device, session, ended, file, left, size>>
      PROVE  ExitInv'
  <2>1. p[2] \in EntryRefs
    BY FreeEntryIs
  <2>2. PlacesRight(p[2] :> File(NewName))
    BY <2>1, EndIsEntry, OneRight
  <2>3. /\ MemoryRight'
        /\ \A c \in Clusters : table'[c] = table[c]
    BY <1>4, <2>2, NoneRight, NoneIs, UpdateKeeps DEF ExitInv
  <2>4. SearchRight'
    BY <1>1, <1>4, SearchRests DEF ExitInv, Finding
  <2>5. LocalsRight'
    BY <1>1, <1>4, <2>1 DEF ExitInv, LocalsRight, session, WithFile, Creation
  <2>6. request.command = "writefile" => NothingFreed
    BY <1>1 DEF ExitInv, Harmless, Creation
  <2>7. request.command = "writefile" => NothingFreed'
    BY <1>4, <2>3, <2>6, NothingFreedStays DEF session
  <2> QED BY <1>1, <1>4, <2>3, <2>4, <2>5, <2>7, StartRuns, StepKeeps DEF session
<1> QED BY <1>2, <1>3, <1>4 DEF Create, UpTo

LEMMA DirBlockRight ==
    ASSUME NEW v, EntryRight(v)
    PROVE  BlockRight(DirBlock(0 :> v))
<1>1. DirBlock(0 :> v) = [entries |-> (0 :> v) @@ NoEntries, data |-> NoData]
  BY DEF DirBlock, Zero
<1> DEFINE g == (0 :> v) @@ NoEntries
<1>2. \A i \in Indices : EntryRight(NoEntries[i])
  BY EndIsEntry DEF NoEntries
<1>3. 0 \in Indices
  BY ReferencesAre
<1>4. g = [i \in Indices |-> g[i]] /\ \A i \in Indices : EntryRight(g[i])
  <2>1. DOMAIN g = Indices /\ g = [i \in DOMAIN g |-> g[i]]
    BY <1>3 DEF :>, @@, NoEntries
  <2>2. \A i \in Indices : EntryRight(g[i])
    BY <1>2 DEF :>, @@, NoEntries
  <2> HIDE DEF g
  <2> QED BY <2>1, <2>2
<1> HIDE DEF g
<1> QED BY <1>1, <1>4 DEF BlockRight, g

(* The last cluster of the directory.                                      *)
LEMMA RootLast ==
    ASSUME NEW t
    PROVE  /\ Len(Chain(t, Root)) \in 1 .. Last
           /\ Chain(t, Root)[Len(Chain(t, Root))] \in Clusters
<1>1. /\ Chain(t, Root) \in Seq(Clusters) /\ Len(Chain(t, Root)) \in 0 .. Last
      /\ Len(Chain(t, Root)) > 0
  BY ChainIs, ReferencesAre
<1>2. Last \in Nat
  BY LastAssumption
<1>3. Len(Chain(t, Root)) \in 1 .. Len(Chain(t, Root))
  BY <1>1
<1> QED BY <1>1, <1>2, <1>3

LEMMA GrowMemory ==
    ASSUME MemoryRight, NEW r \in Clusters, NEW c \in Clusters, NEW b, BlockRight(b),
           Clusters \subseteq DOMAIN table' /\ Clusters \subseteq DOMAIN block',
           \A d \in Clusters :
              /\ table'[d] = IF d = c THEN r ELSE IF d = r THEN FAT_EOF ELSE table[d]
              /\ block'[d] = IF d = r THEN b ELSE block[d],
           dirty' = dirty \cup {Sector(r), Sector(c), Unit(r)},
           UNCHANGED device, pc' # "idle"
    PROVE  MemoryRight'
<1>1. /\ Whole(table, block)
      /\ \A d \in Clusters : Sector(d) \notin dirty => table[d] = device.table[d]
      /\ \A d \in Clusters : Unit(d) \notin dirty => block[d] = device.block[d]
  BY DEF MemoryRight
<1>2. /\ Clusters \subseteq DOMAIN table' /\ Clusters \subseteq DOMAIN block'
      /\ \A d \in Clusters :
            /\ table'[d] = IF d = c THEN r ELSE IF d = r THEN FAT_EOF ELSE table[d]
            /\ block'[d] = IF d = r THEN b ELSE block[d]
  OBVIOUS
<1>3. r \in Int /\ FAT_EOF \in Int
  BY ReferencesAre DEF FAT_EOF
<1>4. Whole(table', block')
  BY <1>1, <1>2, <1>3 DEF Whole
<1>5. ASSUME NEW d \in Clusters
      PROVE  /\ Sector(d) \notin dirty' => table'[d] = device.table[d]
             /\ Unit(d) \notin dirty' => block'[d] = device.block[d]
  BY <1>1, <1>2
<1> QED BY <1>2, <1>4, <1>5 DEF MemoryRight

LEMMA GrowKeeps == ASSUME ExitInv, Grow PROVE ExitInv'
<1> DEFINE chain == Chain(table, Root)
           c == chain[Len(chain)]
           b == DirBlock(0 :> File(NewName))
<1>1. pc = "grow" /\ Answered /\ fn = "none"
  BY DEF Grow, Answered
<1>2. CASE result = FAT_ERR
  <2>1. CannotCreate
    BY <1>2 DEF Grow
  <2> QED BY <1>1, <2>1, CannotCreateKeeps
<1>3. CASE result # FAT_ERR
  <2>1. /\ table' = [table EXCEPT ![result] = FAT_EOF, ![c] = result]
        /\ block' = [block EXCEPT ![result] = b]
        /\ dirty' = dirty \cup {Sector(result), Sector(c), Unit(result)}
        /\ pc' = "created" /\ at' = EntryRef(result, 0) /\ TakeAnswer
        /\ UNCHANGED <<device, session, ended, misplaced, file, left, size, output>>
    BY <1>3 DEF Grow, UpTo
  <2>2. result \in Clusters /\ c \in Clusters /\ BlockRight(b)
    BY <1>1, <1>3, AnswerIs, RootLast, EndIsEntry, DirBlockRight DEF Finding
  <2> HIDE DEF c, b
  <2>3. /\ MemoryRight'
        /\ \A d \in Clusters :
              table'[d] = IF d = c THEN result ELSE IF d = result THEN FAT_EOF ELSE table[d]
    <3>1. MemoryRight /\ pc' # "idle" /\ UNCHANGED device
      BY <2>1 DEF ExitInv
    <3>2. /\ Clusters \subseteq DOMAIN table' /\ Clusters \subseteq DOMAIN block'
          /\ \A d \in Clusters :
                /\ table'[d] = IF d = c THEN result ELSE IF d = result THEN FAT_EOF ELSE table[d]
                /\ block'[d] = IF d = result THEN b ELSE block[d]
      BY <2>1, <2>2, <3>1 DEF MemoryRight, Whole
    <3>3. dirty' = dirty \cup {Sector(result), Sector(c), Unit(result)}
      BY <2>1
    <3>4. MemoryRight'
      BY <2>2, <3>1, <3>2, <3>3, GrowMemory
    <3> QED BY <3>2, <3>4
  <2>4. SearchRight'
    BY <1>1, <2>1, SearchRests DEF ExitInv, Finding
  <2>5. at' \in EntryRefs
    BY <2>1, <2>2, ReferencesAre DEF EntryRefs, EntryRef
  <2>6. LocalsRight'
    BY <1>1, <2>1, <2>5 DEF ExitInv, LocalsRight, session, WithFile, Creation
  <2>7. request.command = "writefile" => NothingFreed
    BY <1>1 DEF ExitInv, Harmless, Creation
  <2>8. \A d \in Clusters : d # FAT_UNUSED /\ FAT_EOF # FAT_UNUSED
    BY DEF Clusters, FAT_UNUSED, FAT_EOF, FAT_FIRST
  <2>9. request.command = "writefile" => NothingFreed'
    <3>1. \A d \in Clusters : table'[d] = table[d] \/ table'[d] # FAT_UNUSED
      BY <2>2, <2>3, <2>8
    <3> QED BY <2>1, <2>7, <3>1, NothingFreedStays DEF session
  <2> QED BY <1>1, <2>1, <2>3, <2>4, <2>6, <2>9, StartRuns, StepKeeps DEF session
<1> QED BY <1>2, <1>3

LEMMA WriteFileKeeps == ASSUME ExitInv, WriteFile PROVE ExitInv'
<1>1. /\ pc = "created" /\ request.command = "writefile" /\ pc' = "more"
      /\ file' = at /\ left' = request.size /\ size' = 0
      /\ UNCHANGED <<search, device, memory, session, ended, ghosts, at, output>>
  BY DEF WriteFile, UpTo
<1>2. fn = "none"
  BY <1>1, NotWaiting DEF Waiting, Finding
<1>3. SearchRight'
  BY <1>1, <1>2, SearchRests DEF ExitInv, Finding
<1>4. MemoryRight'
  BY <1>1, MemoryStays DEF ExitInv
<1>5. at \in EntryRefs /\ request \in Requests
  BY <1>1 DEF ExitInv, LocalsRight
<1>6. LocalsRight'
  BY <1>1, <1>5, RequestsAre DEF LocalsRight, session, WithFile, Creation
<1>7. NothingFreed
  BY <1>1 DEF ExitInv, Harmless, Creation
<1>8. NothingFreed'
  BY <1>1, <1>7, NothingFreedStays DEF session, memory
<1> QED BY <1>1, <1>3, <1>4, <1>6, <1>8, StartRuns, StepKeeps DEF session

LEMMA MoreKeeps == ASSUME ExitInv, More PROVE ExitInv'
<1>1. pc = "more" /\ SearchArea("got") /\ UNCHANGED <<device, memory, session, ended, ghosts, local>>
  BY DEF More
<1>2. SearchRight' /\ pc' = "got"
  BY <1>1, AreaSearched DEF Finding
<1>3. MemoryRight'
  BY <1>1, <1>2, MemoryStays DEF ExitInv
<1>4. LocalsRight'
  BY <1>1, <1>2 DEF ExitInv, LocalsRight, session, local, WithFile, Creation
<1>5. NothingFreed
  BY <1>1 DEF ExitInv, Harmless
<1>6. NothingFreed'
  BY <1>1, <1>5, NothingFreedStays DEF session, memory
<1> QED BY <1>1, <1>2, <1>3, <1>4, <1>6, StartRuns, StepKeeps DEF session

LEMMA WritePartKeeps == ASSUME ExitInv, WritePart PROVE ExitInv'
<1> DEFINE w == result :> DataBlock("new", (size \div Bytes) + 1)
<1>1. pc = "got" /\ Answered /\ fn = "none"
  BY DEF WritePart, Answered
<1>2. NothingFreed
  BY <1>1 DEF ExitInv, Harmless
<1>3. CASE result = FAT_ERR
  <2>1. Exit
    BY <1>3 DEF WritePart
  <2> QED BY <1>1, <2>1, StartRuns, ExitKeeps
<1>4. CASE result # FAT_ERR /\ left = 0
  <2>1. /\ pc' = "written" /\ TakeAnswer
        /\ UNCHANGED <<device, memory, session, ended, ghosts, local>>
    BY <1>4 DEF WritePart, UpTo
  <2>2. SearchRight'
    BY <1>1, <2>1, SearchRests DEF ExitInv, Finding
  <2>3. MemoryRight'
    BY <2>1, MemoryStays DEF ExitInv
  <2>4. LocalsRight'
    BY <1>1, <2>1 DEF ExitInv, LocalsRight, session, local, WithFile, Creation
  <2> QED BY <1>1, <2>1, <2>2, <2>3, <2>4, StartRuns, StepKeeps DEF session, Creation
<1>5. CASE result # FAT_ERR /\ left # 0
  <2>1. /\ WriteBlocks(w, TRUE) /\ pc' = "attach"
        /\ UNCHANGED <<search, table, session, ended, ghosts, local>>
    BY <1>5 DEF WritePart, UpTo
  <2>2. \A c \in DOMAIN w : BlockRight(w[c])
    BY DataBlockRight DEF :>
  <2>3. DOMAIN w = {result}
    BY OneIs
  <2>4. result \in Clusters /\ Free(result)
    BY <1>1, <1>5, AnswerIs DEF Finding
  <2> HIDE DEF w
  <2>5. /\ MemoryRight' /\ device'.table = device.table
        /\ \A c \in Clusters : c # result => device'.block[c] = device.block[c]
    BY <2>1, <2>2, <2>3, WriteKeeps DEF ExitInv
  <2>6. SearchRight'
    <3>1. /\ last' = last /\ fn' = fn /\ result' = result /\ begin' = begin /\ end' = end
          /\ start' = start /\ cl' = cl /\ first' = first /\ table' = table
      BY <2>1 DEF search, locals, arguments, loop
    <3> QED BY <1>1, <1>5, <2>1, <2>4, <3>1
            DEF ExitInv, SearchRight, Finding, Waiting, Free
  <2>7. LocalsRight'
    BY <1>1, <2>1 DEF ExitInv, LocalsRight, session, local, WithFile, Creation
  <2>8. Untouched
    BY <1>1, StartRuns DEF ExitInv, Harmless
  <2>9. before.table[result] = FAT_UNUSED
    BY <1>2, <2>4 DEF NothingFreed, Free
  <2>10. Untouched'
    BY <2>1, <2>5, <2>8, <2>9 DEF Untouched, session
  <2>11. NothingFreed'
    BY <1>2, <2>1, NothingFreedStays DEF session
  <2> QED BY <2>1, <2>5, <2>6, <2>7, <2>10, <2>11 DEF ExitInv, Harmless
<1> QED BY <1>3, <1>4, <1>5

LEMMA AttachKeeps == ASSUME ExitInv, Attach PROVE ExitInv'
<1> DEFINE res == Min({left, Bytes})
           n == result :> FAT_EOF @@ TargetSetNext(at, result)
           e == TargetSetEntry(at, result)
<1>1. /\ pc = "attach" /\ Update(n, e) /\ at' = ClusterRef(result)
      /\ size' = size + res /\ left' = left - res
      /\ pc' \in {"more", "written"} /\ TakeAnswer
      /\ UNCHANGED <<device, session, ended, ghosts, file, output>>
  BY DEF Attach, UpTo
<1>2. fn = "none" /\ result \in Clusters /\ result \in Int
  BY <1>1, ReferencesAre DEF ExitInv, SearchRight
<1>3. /\ at \in EntryRefs \cup ClusterRefs /\ Whole(table, block) /\ left \in Int /\ size \in Int
      /\ file \in EntryRefs
  BY <1>1 DEF ExitInv, LocalsRight, MemoryRight, WithFile
<1>4. NextsRight(n) /\ PlacesRight(e) /\ \A c \in DOMAIN n : n[c] # FAT_UNUSED
  <2>1. /\ NextsRight(TargetSetNext(at, result)) /\ PlacesRight(e)
        /\ \A c \in DOMAIN TargetSetNext(at, result) : TargetSetNext(at, result)[c] = result
    BY <1>2, <1>3, TargetRight
  <2>2. NextsRight(result :> FAT_EOF)
    BY OneRight DEF FAT_EOF
  <2>3. FAT_EOF # FAT_UNUSED /\ result # FAT_UNUSED
    BY <1>2 DEF FAT_EOF, FAT_UNUSED, Clusters, FAT_FIRST
  <2>4. NextsRight(n)
    BY <2>1, <2>2, OverRight
  <2>5. \A c \in DOMAIN n : n[c] \in {FAT_EOF, result}
    <3>1. /\ DOMAIN (result :> FAT_EOF) = {result} /\ (result :> FAT_EOF)[result] = FAT_EOF
      BY OneIs
    <3>2. /\ DOMAIN n = DOMAIN (result :> FAT_EOF) \cup DOMAIN TargetSetNext(at, result)
          /\ \A x \in DOMAIN (result :> FAT_EOF) : n[x] = (result :> FAT_EOF)[x]
          /\ \A x \in DOMAIN TargetSetNext(at, result) :
                x \notin DOMAIN (result :> FAT_EOF) => n[x] = TargetSetNext(at, result)[x]
      BY OverIs
    <3> HIDE DEF n
    <3> QED BY <2>1, <3>1, <3>2
  <2> QED BY <2>1, <2>3, <2>4, <2>5
<1>5. res \in Int
  BY <1>3, CommandsAssumption DEF Min
<1> HIDE DEF n, e, res
<1>6. /\ MemoryRight'
      /\ \A c \in Clusters : table'[c] = IF c \in DOMAIN n THEN n[c] ELSE table[c]
  BY <1>1, <1>4, UpdateKeeps DEF ExitInv
<1>7. SearchRight'
  BY <1>1, <1>2, SearchRests DEF ExitInv, Finding
<1>8. ClusterRef(result) \in ClusterRefs
  BY <1>2 DEF ClusterRef, ClusterRefs
<1>9. LocalsRight'
  BY <1>1, <1>3, <1>5, <1>8 DEF ExitInv, LocalsRight, session, WithFile, Creation
<1>10. NothingFreed
  BY <1>1 DEF ExitInv, Harmless
<1>11. NothingFreed'
  BY <1>1, <1>4, <1>6, <1>10, NothingFreedStays DEF session
<1> QED BY <1>1, <1>6, <1>7, <1>9, <1>11, StartRuns, StepKeeps DEF session

LEMMA WrittenKeeps == ASSUME ExitInv, Written PROVE ExitInv'
<1> DEFINE v == [EntryAt(file) EXCEPT !.size = size]
<1>1. pc = "written" /\ DoneUpdate(<<>>, file :> v)
  BY DEF Written
<1>2. fn = "none" /\ file \in EntryRefs /\ Whole(table, block) /\ size \in Int
  BY <1>1, NotWaiting DEF ExitInv, LocalsRight, MemoryRight, WithFile, Waiting, Finding
<1>3. EntryRight(v)
  BY <1>2, EntryAtTyped, FieldsRight
<1> HIDE DEF v
<1>4. PlacesRight(file :> v)
  BY <1>2, <1>3, OneRight
<1> QED BY <1>1, <1>2, <1>4, NoneRight, DoneUpdateKeeps

-----------------------------------------------------------------------------
LEMMA CeilNat == \A n \in Int : n > 0 => Ceil(n) \in Nat
<1>1. Bytes \in Nat /\ Bytes > 0
  BY CommandsAssumption
<1>2. ASSUME NEW n \in Int, n > 0 PROVE Ceil(n) \in Nat
  <2>1. n + Bytes - 1 \in Nat
    BY <1>1, <1>2
  <2>2. \A k \in Nat : k \div Bytes \in Nat
    BY <1>1
  <2> QED BY <2>1, <2>2 DEF Ceil
<1> QED BY <1>2

(* The loop of a command does not end.                                     *)
LEMMA ForeverKeeps ==
    ASSUME ExitInv, fn = "none", pc' = "forever",
           UNCHANGED <<search, device, memory, session, ended, ghosts, local>>
    PROVE  ExitInv'
<1>1. SearchRight'
  BY SearchRests DEF ExitInv, Finding
<1>2. MemoryRight'
  BY MemoryStays DEF ExitInv
<1>3. LocalsRight'
  BY DEF ExitInv, LocalsRight, session, local, WithFile, Creation
<1>4. Harmless'
  BY DEF Harmless, Running, Waiting, Finding, Creation
<1> QED BY <1>1, <1>2, <1>3, <1>4 DEF ExitInv

LEMMA ConsecutiveKeeps == ASSUME ExitInv, Consecutive PROVE ExitInv'
<1> DEFINE k == Ceil(request.size)
<1>1. /\ pc = "start" /\ pc' = "sequence"
      /\ CallFind(request.begin, request.end, -1, k)
      /\ UNCHANGED <<device, memory, session, ended, ghosts, local>>
  BY DEF Consecutive, Starts, Search, UpTo
<1>2. SearchRight /\ fn = "none" /\ request.begin \in Int /\ request.end \in Int
  BY <1>1, StartIs, ReferencesAre DEF ExitInv
<1> HIDE DEF k
<1>3. SearchRight'
  <2>1. CASE Return(FAT_ERR) /\ UNCHANGED <<last, locals>>
    BY <1>1, <1>2, <2>1 DEF SearchRight, Return, locals, arguments, loop, FAT_ERR, Waiting, Finding
  <2>2. CASE fn' = "exit" /\ UNCHANGED <<last, result, locals>>
    BY <1>1, <1>2, <2>2 DEF SearchRight, locals, arguments, loop, Waiting, Finding
  <2>3. CASE /\ fn' = "find" /\ begin' = request.begin /\ end' = request.end
             /\ start' \in {last, request.begin} /\ cl' = start'
             /\ UNCHANGED <<last, result, first>>
    BY <1>1, <1>2, <2>3 DEF SearchRight, Waiting, Finding
  <2> QED BY <1>1, <2>1, <2>2, <2>3 DEF CallFind, Call
<1>6. MemoryRight'
  BY <1>1, MemoryStays DEF ExitInv
<1>7. LocalsRight'
  BY <1>1 DEF ExitInv, LocalsRight, session, local, WithFile, Creation, Consecutive, Starts
<1> QED BY <1>1, <1>3, <1>6, <1>7, StartRuns, StepKeeps DEF session, Creation

LEMMA SequenceKeeps == ASSUME ExitInv, Sequence PROVE ExitInv'
<1>1. pc = "sequence" /\ fn = "none" /\ result \in Int /\ request.command = "consecutive"
  BY DEF Sequence, Answered, ExitInv, SearchRight, LocalsRight
<1>2. CASE Exit
  BY <1>1, <1>2, StartRuns, ExitKeeps
<1>3. CASE /\ left' = result /\ pc' = "create" /\ TakeAnswer
           /\ UNCHANGED <<device, memory, session, ended, ghosts, at, file, size, output>>
  <2>1. SearchRight'
    BY <1>1, <1>3, SearchRests DEF ExitInv, Finding
  <2>2. MemoryRight'
    BY <1>3, MemoryStays DEF ExitInv
  <2>3. LocalsRight'
    BY <1>1, <1>3 DEF ExitInv, LocalsRight, session, WithFile, Creation
  <2> QED BY <1>1, <1>3, <2>1, <2>2, <2>3, StartRuns, StepKeeps DEF session
<1> QED BY <1>2, <1>3 DEF Sequence, UpTo

LEMMA CreatedIs ==
    ASSUME ExitInv, pc = "created"
    PROVE  /\ fn = "none" /\ at \in EntryRefs /\ EntryRight(EntryAt(at))
           /\ left \in Int /\ request \in Requests /\ request.size \in Int
<1>1. at \in EntryRefs /\ left \in Int /\ request \in Requests /\ Whole(table, block)
  BY DEF ExitInv, LocalsRight, MemoryRight
<1>2. fn = "none"
  BY NotWaiting DEF Waiting, Finding
<1> QED BY <1>1, <1>2, EntryAtTyped, RequestsAre

LEMMA ChainSequenceKeeps == ASSUME ExitInv, ChainSequence PROVE ExitInv'
<1> DEFINE final == left + Ceil(request.size) - 1
           n == [c \in left .. final |-> IF c = final THEN FAT_EOF ELSE c + 1]
           u == [EntryAt(at) EXCEPT !.size = request.size]
           v == [u EXCEPT !.first = left]
<1>1. pc = "created"
  BY DEF ChainSequence
<1>2. [EntryAt(at) EXCEPT !.size = request.size, !.first = left] = v
  BY Zenon
<1>3. DoneUpdate(n, at :> [EntryAt(at) EXCEPT !.size = request.size, !.first = left])
  BY DEF ChainSequence
<1>4. EntryRight(u)
  BY <1>1, CreatedIs, FieldsRight
<1> HIDE DEF u
<1>5. EntryRight(v)
  BY <1>1, <1>4, CreatedIs, FieldsRight
<1> HIDE DEF v
<1>6. PlacesRight(at :> v)
  BY <1>1, <1>5, CreatedIs, OneRight
<1>7. NextsRight(n)
  BY DEF NextsRight, FAT_EOF
<1> HIDE DEF n, final, DoneUpdate
<1>8. DoneUpdate(n, at :> v)
  BY <1>2, <1>3, Zenon
<1> QED BY <1>1, <1>6, <1>7, <1>8, CreatedIs, DoneUpdateKeeps

LEMMA MakeDirKeeps == ASSUME ExitInv, MakeDir PROVE ExitInv'
<1> DEFINE v == [EntryAt(at) EXCEPT !.dir = TRUE]
<1>1. /\ pc = "created" /\ Update(<<>>, at :> v) /\ SearchArea("dir")
      /\ UNCHANGED <<device, session, ended, ghosts, local>>
  BY DEF MakeDir
<1>2. SearchRight' /\ pc' = "dir"
  BY <1>1, AreaSearched DEF Finding
<1>3. EntryRight(v)
  BY <1>1, CreatedIs, FieldsRight
<1> HIDE DEF v
<1>4. PlacesRight(at :> v)
  BY <1>1, <1>3, CreatedIs, OneRight
<1>5. MemoryRight'
  BY <1>1, <1>2, <1>4, NoneRight, UpdateKeeps DEF ExitInv
<1>6. LocalsRight'
  BY <1>1, <1>2, CreatedIs DEF ExitInv, LocalsRight, session, local, WithFile, Creation
<1> QED BY <1>1, <1>2, <1>5, <1>6, StartRuns, StepKeeps DEF session, Creation

LEMMA NewDirRight ==
    ASSUME Whole(table, block), NEW p \in EntryRefs, NEW c \in Clusters
    PROVE  PlacesRight(TargetSetEntry(p, c) @@ EntryRef(c, 0) :> Dir(".", c)
                 @@ EntryRef(c, 1) :> Dir("..", 0)
                 @@ All(EndEntry, {EntryRef(c, i) : i \in Indices}))
<1>1. c \in Int /\ 0 \in Indices /\ 1 \in Indices
  BY ReferencesAre
<1>2. PlacesRight(TargetSetEntry(p, c))
  BY <1>1, TargetRight
<1>3. \A i \in Indices : EntryRef(c, i) \in EntryRefs
  BY DEF EntryRef, EntryRefs
<1>4. PlacesRight(EntryRef(c, 0) :> Dir(".", c))
  BY <1>1, <1>3, EndIsEntry, OneRight
<1>5. PlacesRight(EntryRef(c, 1) :> Dir("..", 0))
  BY <1>1, <1>3, EndIsEntry, OneRight
<1>6. PlacesRight(All(EndEntry, {EntryRef(c, i) : i \in Indices}))
  <2>1. {EntryRef(c, i) : i \in Indices} \subseteq EntryRefs
    BY <1>3
  <2> QED BY <2>1, EndIsEntry, AllRight
<1>7. PlacesRight(TargetSetEntry(p, c) @@ EntryRef(c, 0) :> Dir(".", c))
  BY <1>2, <1>4, OverRight
<1>8. PlacesRight(TargetSetEntry(p, c) @@ EntryRef(c, 0) :> Dir(".", c)
                 @@ EntryRef(c, 1) :> Dir("..", 0))
  BY <1>5, <1>7, OverRight
<1> QED BY <1>6, <1>8, OverRight

LEMMA DirClusterKeeps == ASSUME ExitInv, DirCluster PROVE ExitInv'
<1> DEFINE n == result :> FAT_EOF
           e == TargetSetEntry(at, result) @@ EntryRef(result, 0) :> Dir(".", result)
                 @@ EntryRef(result, 1) :> Dir("..", 0)
                 @@ All(EndEntry, {EntryRef(result, i) : i \in Indices})
<1>1. pc = "dir" /\ Answered /\ fn = "none"
  BY DEF DirCluster, Answered
<1>2. CASE Exit
  BY <1>1, <1>2, StartRuns, ExitKeeps
<1>3. CASE result # FAT_ERR /\ Update(n, e) /\ Done /\ TakeAnswer /\ UNCHANGED device
  <2>1. result \in Clusters
    BY <1>1, <1>3, AnswerIs DEF Finding
  <2>2. at \in EntryRefs /\ Whole(table, block)
    BY <1>1 DEF ExitInv, LocalsRight, MemoryRight
  <2>3. PlacesRight(e)
    BY <2>1, <2>2, NewDirRight
  <2>4. NextsRight(n)
    BY OneRight DEF FAT_EOF
  <2> HIDE DEF n, e
  <2>5. MemoryRight'
    BY <1>3, <2>3, <2>4, UpdateKeeps DEF ExitInv, Done, UpTo
  <2> QED BY <1>1, <1>3, <2>5, DoneKeeps
<1> QED BY <1>2, <1>3 DEF DirCluster

LEMMA LinkKeeps == ASSUME ExitInv, Link PROVE ExitInv'
<1> DEFINE chain == ChainOf(file)
           n     == request.cluster
<1>1. pc = "start" /\ request.command = "link" /\ file # NoRef
  BY DEF Link, OnFile, Starts
<1>2. file \in EntryRefs /\ EntryRight(EntryAt(file)) /\ fn = "none"
  BY <1>1, OnFileIs
<1>3. CASE Done /\ UNCHANGED <<search, device, memory>>
  <2>1. MemoryRight'
    BY <1>3, MemoryStays DEF Done, UpTo, ExitInv
  <2> QED BY <1>2, <1>3, <2>1, DoneKeeps
<1>4. CASE /\ ~ (n > 0 /\ n >= Len(chain))
           /\ left' = (IF n = 0 THEN EntryAt(file).first ELSE chain[n + 1])
           /\ pc' = "create"
           /\ UNCHANGED <<search, device, memory, session, ended, ghosts, at, file, size, output>>
  <2>1. n \in Nat /\ chain \in Seq(Clusters) /\ Len(chain) \in Nat
    BY <1>1, StartIs, CommandsAssumption, ChainIs DEF ChainOf
  <2>2. n = 0 \/ n + 1 \in 1 .. Len(chain)
    BY <1>4, <2>1
  <2>3. left' \in Int
    <3> HIDE DEF chain
    <3>1. n # 0 => chain[n + 1] \in Clusters
      BY <2>1, <2>2
    <3>2. EntryAt(file).first \in Int
      BY <1>2 DEF EntryRight
    <3> QED BY <1>4, <3>1, <3>2, ReferencesAre
  <2>4. SearchRight'
    BY <1>2, <1>4, SearchRests DEF ExitInv, Finding
  <2>5. MemoryRight'
    BY <1>4, MemoryStays DEF ExitInv
  <2>6. LocalsRight'
    BY <1>1, <1>2, <1>4, <2>3 DEF ExitInv, LocalsRight, session, WithFile, Creation
  <2> QED BY <1>1, <1>4, <2>4, <2>5, <2>6, StartRuns, StepKeeps DEF session
<1> QED BY <1>3, <1>4 DEF Link, UpTo

LEMMA LinkedKeeps == ASSUME ExitInv, Linked PROVE ExitInv'
<1> DEFINE long == IF request.size > 0 THEN request.size
                   ELSE EntryAt(file).size - request.cluster * Bytes
           u == [EntryAt(at) EXCEPT !.first = left]
           w == [u EXCEPT !.dir = EntryAt(file).dir]
           v == [w EXCEPT !.size = long]
<1>1. pc = "created" /\ request.command = "link"
  BY DEF Linked
<1>2. DoneUpdate(<<>>, at :> v)
  BY Zenon DEF Linked
<1>3. file \in EntryRefs /\ Whole(table, block) /\ request.cluster \in Int /\ Bytes \in Int
  BY <1>1, RequestsAre, CommandsAssumption DEF ExitInv, LocalsRight, MemoryRight, Creation
<1>4. EntryAt(file).size \in Int
  BY <1>3, EntryAtTyped DEF EntryRight
<1>5. long \in Int
  <2>1. request.cluster * Bytes \in Int
    BY <1>3
  <2> QED BY <1>1, <1>4, <2>1, CreatedIs
<1> HIDE DEF long
<1>6. EntryRight(u)
  BY <1>1, CreatedIs, FieldsRight
<1> HIDE DEF u
<1>7. EntryRight(w)
  BY <1>6, FieldsRight
<1> HIDE DEF w
<1>8. EntryRight(v)
  BY <1>5, <1>7, FieldsRight
<1> HIDE DEF v, DoneUpdate
<1>9. PlacesRight(at :> v)
  BY <1>1, <1>8, CreatedIs, OneRight
<1> QED BY <1>1, <1>2, <1>9, CreatedIs, NoneRight, DoneUpdateKeeps

-----------------------------------------------------------------------------
(* Files that exist are changed.                                           *)
LEMMA DeletedRight ==
    ASSUME EntryRight(EntryAt(file))
    PROVE  EntryRight(DeletedEntry)
  BY FieldsRight, EndIsEntry DEF DeletedEntry

LEMMA DeleteFileKeeps == ASSUME ExitInv, DeleteFile PROVE ExitInv'
<1> DEFINE n == All(FAT_UNUSED, ClustersOf(ChainOf(file)))
           e == file :> DeletedEntry
<1>1. pc = "start" /\ file # NoRef
  BY DEF DeleteFile, OnFile, Starts
<1>2. file \in EntryRefs /\ EntryRight(EntryAt(file)) /\ fn = "none"
  BY <1>1, OnFileIs
<1>3. NextsRight(n) /\ PlacesRight(e)
  BY <1>2, AllRight, OneRight, DeletedRight DEF FAT_UNUSED
<1>4. \/ Exit
      \/ pc' = "forever" /\ UNCHANGED <<search, device, memory, session, ended, ghosts, local>>
      \/ DoneUpdate(n, e)
  BY DEF DeleteFile, UpTo
<1> HIDE DEF n, e, DoneUpdate
<1> QED BY <1>1, <1>2, <1>3, <1>4, StartRuns, ExitKeeps, ForeverKeeps, DoneUpdateKeeps

LEMMA KeptIs ==
    ASSUME NEW chain \in Seq(Clusters), NEW n \in Int
    PROVE  Kept(chain, n) \in 0 .. Len(chain)
<1>1. CASE n > 0
  <2>1. Len(chain) \in Nat /\ Ceil(n) \in Nat
    BY <1>1, CeilNat
  <2>2. /\ Min({Len(chain), Ceil(n)}) \in {Len(chain), Ceil(n)}
        /\ \A k \in {Len(chain), Ceil(n)} : Min({Len(chain), Ceil(n)}) <= k
    BY <2>1, MinIs
  <2> QED BY <1>1, <2>1, <2>2 DEF Kept
<1>2. CASE ~ (n > 0)
  BY <1>2 DEF Kept
<1> QED BY <1>1, <1>2

(* The reference crop and concat end with: the entry or a cluster.         *)
LEMMA RefIs ==
    ASSUME NEW chain \in Seq(Clusters), NEW k \in 0 .. Len(chain), NEW p \in EntryRefs
    PROVE  (IF k = 0 THEN p ELSE ClusterRef(chain[k])) \in EntryRefs \cup ClusterRefs
<1>1. k # 0 => chain[k] \in Clusters
  OBVIOUS
<1>2. \A c \in Int : ClusterRef(c) \in ClusterRefs
  BY DEF ClusterRef, ClusterRefs
<1> QED BY <1>1, <1>2, ReferencesAre

LEMMA CropKeeps == ASSUME ExitInv, Crop PROVE ExitInv'
<1> DEFINE chain == ChainOf(file)
           long  == IF request.size = -1 THEN EntryAt(file).size ELSE request.size
           kept  == Kept(chain, long)
           ref   == IF kept = 0 THEN file ELSE ClusterRef(chain[kept])
           rest  == ClustersOf(SubSeq(chain, kept + 1, Len(chain)))
           n == TargetSetNext(ref, FAT_EOF) @@
                         All(FAT_UNUSED, IF request.option = "free" THEN rest ELSE {})
           e == TargetSetEntry(ref, FAT_EOF)
<1>1. pc = "start" /\ file # NoRef /\ DoneUpdate(n, e)
  BY DEF Crop, OnFile, Starts
<1>2. file \in EntryRefs /\ EntryRight(EntryAt(file)) /\ fn = "none" /\ Whole(table, block)
  BY <1>1, OnFileIs
<1>3. chain \in Seq(Clusters)
  BY ChainIs DEF ChainOf
<1>4. long \in Int
  BY <1>1, <1>2, StartIs DEF EntryRight
<1> HIDE DEF chain, long
<1>5. kept \in 0 .. Len(chain)
  BY <1>3, <1>4, KeptIs
<1> HIDE DEF kept
<1>6. ref \in EntryRefs \cup ClusterRefs
  BY <1>2, <1>3, <1>5, RefIs
<1> HIDE DEF ref, rest
<1>7. NextsRight(TargetSetNext(ref, FAT_EOF)) /\ PlacesRight(e)
  BY <1>2, <1>6, TargetRight DEF FAT_EOF
<1>8. NextsRight(n)
  BY <1>7, AllRight, OverRight DEF FAT_UNUSED
<1> HIDE DEF n, e, DoneUpdate
<1> QED BY <1>1, <1>2, <1>7, <1>8, DoneUpdateKeeps

LEMMA ConcatKeeps == ASSUME ExitInv, Concat PROVE ExitInv'
<1> DEFINE chain == ChainOf(file)
           ref   == IF chain = <<>> THEN file ELSE ClusterRef(chain[Len(chain)])
           n == TargetSetNext(ref, EntryAt(at).first)
           long == (Len(chain) * Bytes) + EntryAt(at).size
           from == IF chain = <<>> THEN EntryAt(at).first ELSE EntryAt(file).first
           u == [EntryAt(file) EXCEPT !.size = long]
           v == [u EXCEPT !.first = IF chain = <<>> THEN EntryAt(at).first ELSE @]
<1>1. /\ pc = "start" /\ file # NoRef /\ at # NoRef
      /\ \/ pc' = "forever" /\ UNCHANGED <<search, device, memory, session, ended, ghosts, local>>
         \/ DoneUpdate(n, file :> v)
  <2>1. v = [EntryAt(file) EXCEPT !.size = long,
                                  !.first = IF chain = <<>> THEN EntryAt(at).first ELSE @]
    BY Zenon
  <2> HIDE DEF DoneUpdate
  <2> QED BY <2>1, Zenon DEF Concat, OnFile, Starts, UpTo
<1>2. file \in EntryRefs /\ EntryRight(EntryAt(file)) /\ fn = "none" /\ Whole(table, block)
  BY <1>1, OnFileIs
<1>3. at \in EntryRefs
  BY <1>1 DEF ExitInv, LocalsRight
<1>4. chain \in Seq(Clusters)
  BY ChainIs DEF ChainOf
<1>5. EntryAt(at).first \in Int /\ EntryAt(at).size \in Int /\ Bytes \in Int
  BY <1>2, <1>3, EntryAtTyped, CommandsAssumption DEF EntryRight
<1> HIDE DEF chain
<1>6. ref \in EntryRefs \cup ClusterRefs
  <2>1. Len(chain) \in 0 .. Len(chain) /\ (chain = <<>> <=> Len(chain) = 0)
    BY <1>4
  <2> QED BY <1>2, <1>4, <2>1, RefIs
<1> HIDE DEF ref
<1>7. NextsRight(n)
  BY <1>2, <1>5, <1>6, TargetRight
<1>8. long \in Int
  BY <1>4, <1>5
<1> HIDE DEF long
<1>9. EntryRight(u)
  BY <1>2, <1>8, FieldsRight
<1>10. EntryRight(v)
  <2>1. u.first \in Int
    BY <1>9 DEF EntryRight
  <2>2. (IF chain = <<>> THEN EntryAt(at).first ELSE u.first) \in Int
    BY <1>5, <2>1
  <2> HIDE DEF u
  <2> QED BY <1>9, <2>2, FieldsRight
<1> HIDE DEF v, u, n, DoneUpdate
<1>11. PlacesRight(file :> v)
  BY <1>2, <1>10, OneRight
<1> QED BY <1>1, <1>2, <1>7, <1>11, ForeverKeeps, DoneUpdateKeeps

LEMMA ClusterRefIs == \A c \in Int : ClusterRef(c) \in ClusterRefs /\ ClusterRef(c).cluster = c
  BY DEF ClusterRef, ClusterRefs

LEMMA ExtendKeeps == ASSUME ExitInv, Extend PROVE ExitInv'
<1>1. /\ pc = "start" /\ file # NoRef /\ pc' = "extend"
      /\ at' = ClusterRef(EntryAt(file).first) /\ left' = request.size /\ size' = FAT_UNUSED
      /\ UNCHANGED <<search, device, memory, session, ended, ghosts, file, output>>
  BY DEF Extend, OnFile, Starts, UpTo
<1>2. /\ file \in EntryRefs /\ EntryAt(file).first \in Int /\ fn = "none"
      /\ request.size \in Int
  BY <1>1, OnFileIs, StartIs DEF EntryRight
<1>3. at' \in ClusterRefs /\ left' \in Int /\ size' \in Int
  BY <1>1, <1>2, ClusterRefIs DEF FAT_UNUSED
<1>4. SearchRight'
  BY <1>1, <1>2, SearchRests DEF ExitInv, Finding
<1>5. MemoryRight'
  BY <1>1, MemoryStays DEF ExitInv
<1>6. LocalsRight'
  BY <1>1, <1>2, <1>3 DEF ExitInv, LocalsRight, session, WithFile, Creation
<1> QED BY <1>1, <1>4, <1>5, <1>6, StartRuns, StepKeeps DEF session, Creation

(* Where a file is extended.                                               *)
LEMMA ExtendIs ==
    ASSUME ExitInv, pc \in {"extend", "extended"}
    PROVE  /\ file \in EntryRefs /\ Whole(table, block) /\ left \in Int /\ size \in Int
           /\ request \in Requests /\ pc \in Running /\ Bytes \in Int
           /\ pc = "extend" => fn = "none"
<1>1. /\ file \in EntryRefs /\ Whole(table, block) /\ left \in Int /\ size \in Int
      /\ request \in Requests
  BY DEF ExitInv, LocalsRight, MemoryRight, WithFile
<1>2. pc = "extend" => fn = "none"
  BY NotWaiting DEF Waiting, Finding
<1> QED BY <1>1, <1>2, StartRuns, CommandsAssumption

LEMMA ExtendNextKeeps ==
    ASSUME ExitInv, pc = "extend", NEW c \in Clusters, ExtendNext(c, table[c]),
           UNCHANGED <<device, session, ended, ghosts, file, output>>
    PROVE  ExitInv'
<1>1. /\ at' = ClusterRef(table[c]) /\ size' = table[c] /\ left' = left - Bytes
      /\ UNCHANGED <<search, pc>>
      /\ \/ \E v \in {FAT_UNUSED, FAT_EOF} : Update(c :> v, <<>>)
         \/ UNCHANGED memory
  BY DEF ExtendNext
<1>2. /\ file \in EntryRefs /\ left' \in Int /\ size' \in Int /\ at' \in ClusterRefs
      /\ fn = "none" /\ pc \in Running
  <2>1. table[c] \in Int /\ left - Bytes \in Int
    BY ExtendIs DEF Whole
  <2> QED BY <1>1, <2>1, ExtendIs, ClusterRefIs
<1>3. SearchRight'
  BY <1>1, <1>2, SearchRests DEF ExitInv, Finding
<1>4. MemoryRight'
  <2>1. CASE UNCHANGED memory
    BY <1>1, <2>1, MemoryStays DEF ExitInv
  <2>2. ASSUME NEW v \in {FAT_UNUSED, FAT_EOF}, Update(c :> v, <<>>)
        PROVE  MemoryRight'
    <3>1. NextsRight(c :> v)
      BY <2>2, OneRight DEF FAT_UNUSED, FAT_EOF
    <3>2. pc' # "idle" /\ MemoryRight
      BY <1>1 DEF ExitInv
    <3> QED BY <2>2, <3>1, <3>2, NoneRight, UpdateKeeps
  <2> QED BY <1>1, <2>1, <2>2
<1>5. LocalsRight'
  BY <1>1, <1>2 DEF ExitInv, LocalsRight, session, WithFile, Creation
<1> QED BY <1>1, <1>2, <1>3, <1>4, <1>5, StepKeeps DEF session, Creation

LEMMA ExtendLoopKeeps == ASSUME ExitInv, ExtendLoop PROVE ExitInv'
<1>1. pc = "extend" /\ pc \in Running
  BY StartRuns DEF ExtendLoop
<1>2. CASE Exit
  BY <1>1, <1>2, ExitKeeps
<1>3. CASE /\ SearchArea("extended") /\ left' = left - Bytes /\ UNCHANGED <<memory, at, size>>
           /\ UNCHANGED <<device, session, ended, ghosts, file, output>>
  <2>1. SearchRight' /\ pc' = "extended"
    BY <1>3, AreaSearched DEF Finding
  <2>2. MemoryRight'
    BY <1>3, <2>1, MemoryStays DEF ExitInv
  <2>3. left' \in Int /\ file \in EntryRefs
    BY <1>1, <1>3, ExtendIs
  <2>4. LocalsRight'
    BY <1>1, <1>3, <2>1, <2>3 DEF ExitInv, LocalsRight, session, WithFile, Creation
  <2> QED BY <1>1, <1>3, <2>1, <2>2, <2>4, StartRuns, StepKeeps DEF session, Creation
<1>4. CASE /\ at.cluster \in Clusters /\ ExtendNext(at.cluster, table[at.cluster])
           /\ UNCHANGED <<device, session, ended, ghosts, file, output>>
  BY <1>1, <1>4, ExtendNextKeeps
<1> QED BY <1>2, <1>3, <1>4 DEF ExtendLoop

(* A cluster that was found is put after another.                          *)
LEMMA LinkedOn ==
    ASSUME ExitInv, NEW c, NEW r \in Clusters, Update(r :> FAT_EOF @@ c :> r, <<>>),
           UNCHANGED device, pc' # "idle"
    PROVE  MemoryRight'
<1>1. NextsRight(r :> FAT_EOF)
  BY OneRight DEF FAT_EOF
<1>2. NextsRight(c :> r)
  BY OneRight, ReferencesAre
<1>3. NextsRight(r :> FAT_EOF @@ c :> r)
  BY <1>1, <1>2, OverRight
<1> QED BY <1>3, NoneRight, UpdateKeeps DEF ExitInv

LEMMA ExtendedKeeps == ASSUME ExitInv, Extended PROVE ExitInv'
<1>1. pc = "extended" /\ Answered /\ fn = "none" /\ pc \in Running
  BY StartRuns DEF Extended, Answered
<1>2. CASE Exit
  BY <1>1, <1>2, ExitKeeps
<1>3. CASE /\ result # FAT_ERR
           /\ Update(result :> FAT_EOF @@ at.cluster :> result, <<>>)
           /\ at' = ClusterRef(result) /\ size' = result
           /\ pc' = "extend" /\ TakeAnswer
           /\ UNCHANGED <<device, session, ended, ghosts, file, left, output>>
  <2>1. result \in Clusters /\ result \in Int
    BY <1>1, <1>3, AnswerIs DEF Finding
  <2>2. MemoryRight'
    BY <1>3, <2>1, LinkedOn
  <2>3. SearchRight'
    BY <1>1, <1>3, SearchRests DEF ExitInv, Finding
  <2>4. file \in EntryRefs /\ at' \in ClusterRefs /\ size' \in Int
    BY <1>1, <1>3, <2>1, ExtendIs, ClusterRefIs
  <2>5. LocalsRight'
    BY <1>1, <1>3, <2>4 DEF ExitInv, LocalsRight, session, WithFile, Creation
  <2> QED BY <1>1, <1>3, <2>2, <2>3, <2>5, StartRuns, StepKeeps DEF session, Creation
<1> QED BY <1>2, <1>3 DEF Extended, UpTo

LEMMA ExtendEndKeeps == ASSUME ExitInv, ExtendEnd PROVE ExitInv'
<1>1. /\ pc = "extend"
      /\ \/ DoneUpdate(<<>>, TargetSetEntry(file, FAT_EOF))
         \/ Done /\ UNCHANGED <<search, device, memory>>
  BY DEF ExtendEnd
<1>2. file \in EntryRefs /\ Whole(table, block) /\ fn = "none"
  BY <1>1, ExtendIs
<1>3. PlacesRight(TargetSetEntry(file, FAT_EOF))
  BY <1>2, TargetRight DEF FAT_EOF
<1>4. CASE Done /\ UNCHANGED <<search, device, memory>>
  <2>1. MemoryRight'
    BY <1>4, MemoryStays DEF Done, UpTo, ExitInv
  <2> QED BY <1>2, <1>4, <2>1, DoneKeeps
<1> HIDE DEF DoneUpdate
<1> QED BY <1>1, <1>2, <1>3, <1>4, NoneRight, DoneUpdateKeeps

LEMMA CreateChainKeeps == ASSUME ExitInv, CreateChain PROVE ExitInv'
<1>1. /\ pc = "start" /\ pc \in Running
      /\ UNCHANGED <<device, memory, session, ended, ghosts, file, size, output>>
  BY StartRuns DEF CreateChain, Starts
<1>2. fn = "none" /\ request.cluster \in Int /\ request.size \in Int
  BY <1>1, StartIs
<1>3. CASE /\ at' = ClusterRef(request.cluster) /\ last' = request.cluster + 1
           /\ left' = request.size /\ pc' = "chain"
           /\ UNCHANGED <<fn, result, locals>>
  <2>1. last' \in Int /\ left' \in Int /\ at' \in ClusterRefs
    BY <1>2, <1>3, ClusterRefIs
  <2>2. SearchRight'
    BY <1>2, <1>3, <2>1, SearchRests DEF ExitInv, Finding
  <2>3. MemoryRight'
    BY <1>1, <1>3, MemoryStays DEF ExitInv
  <2>4. LocalsRight'
    BY <1>1, <1>3, <2>1 DEF ExitInv, LocalsRight, session, WithFile, Creation
  <2> QED BY <1>1, <1>3, <2>2, <2>3, <2>4, StartRuns, StepKeeps DEF session, Creation
<1>4. CASE SearchArea("chainfirst") /\ UNCHANGED <<at, left>>
  <2>1. SearchRight' /\ pc' = "chainfirst"
    BY <1>4, AreaSearched DEF Finding
  <2>2. MemoryRight'
    BY <1>1, <2>1, MemoryStays DEF ExitInv
  <2>3. LocalsRight'
    BY <1>1, <1>4, <2>1 DEF ExitInv, LocalsRight, session, WithFile, Creation
  <2> QED BY <1>1, <2>1, <2>2, <2>3, StartRuns, StepKeeps DEF session, Creation
<1> QED BY <1>3, <1>4 DEF CreateChain, UpTo

LEMMA ChainFirstKeeps == ASSUME ExitInv, ChainFirst PROVE ExitInv'
<1>1. /\ pc = "chainfirst" /\ fn = "none" /\ pc \in Running
      /\ at' = ClusterRef(result) /\ left' = request.size
      /\ pc' = "chain" /\ TakeAnswer
      /\ UNCHANGED <<device, memory, session, ended, ghosts, file, size, output>>
  BY StartRuns DEF ChainFirst, UpTo, Answered
<1>2. result \in Int /\ request.size \in Int
  BY RequestsAre DEF ExitInv, SearchRight, LocalsRight
<1>3. at' \in ClusterRefs /\ left' \in Int
  BY <1>1, <1>2, ClusterRefIs
<1>4. SearchRight'
  BY <1>1, SearchRests DEF ExitInv, Finding
<1>5. MemoryRight'
  BY <1>1, MemoryStays DEF ExitInv
<1>6. LocalsRight'
  BY <1>1, <1>3 DEF ExitInv, LocalsRight, session, WithFile, Creation
<1> QED BY <1>1, <1>4, <1>5, <1>6, StartRuns, StepKeeps DEF session, Creation

LEMMA ChainLoopKeeps == ASSUME ExitInv, ChainLoop PROVE ExitInv'
<1>1. pc = "chain" /\ pc \in Running
  BY StartRuns DEF ChainLoop
<1>2. fn = "none"
  BY <1>1, NotWaiting DEF Waiting, Finding
<1>3. CASE Done /\ UNCHANGED <<search, device, memory>>
  <2>1. MemoryRight'
    BY <1>3, MemoryStays DEF Done, UpTo, ExitInv
  <2> QED BY <1>2, <1>3, <2>1, DoneKeeps
<1>4. CASE SearchArea("chained") /\ UNCHANGED <<device, memory, session, ended, ghosts, local>>
  <2>1. SearchRight' /\ pc' = "chained"
    BY <1>4, AreaSearched DEF Finding
  <2>2. MemoryRight'
    BY <1>4, <2>1, MemoryStays DEF ExitInv
  <2>3. LocalsRight'
    BY <1>1, <1>4, <2>1 DEF ExitInv, LocalsRight, session, local, WithFile, Creation
  <2> QED BY <1>1, <1>4, <2>1, <2>2, <2>3, StartRuns, StepKeeps DEF session, Creation
<1> QED BY <1>3, <1>4 DEF ChainLoop

LEMMA ChainedKeeps == ASSUME ExitInv, Chained PROVE ExitInv'
<1>1. pc = "chained" /\ Answered /\ fn = "none" /\ pc \in Running
  BY StartRuns DEF Chained, Answered
<1>2. CASE Exit
  BY <1>1, <1>2, ExitKeeps
<1>3. CASE /\ result # FAT_ERR
           /\ Update(result :> FAT_EOF @@ at.cluster :> result, <<>>)
           /\ at' = ClusterRef(result) /\ left' = left - Bytes
           /\ pc' = "chain" /\ TakeAnswer
           /\ UNCHANGED <<device, session, ended, ghosts, file, size, output>>
  <2>1. result \in Clusters /\ result \in Int
    BY <1>1, <1>3, AnswerIs DEF Finding
  <2>2. MemoryRight'
    BY <1>3, <2>1, LinkedOn
  <2>3. SearchRight'
    BY <1>1, <1>3, SearchRests DEF ExitInv, Finding
  <2>4. at' \in ClusterRefs /\ left' \in Int
    BY <1>3, <2>1, ClusterRefIs, CommandsAssumption DEF ExitInv, LocalsRight
  <2>5. LocalsRight'
    BY <1>1, <1>3, <2>4 DEF ExitInv, LocalsRight, session, WithFile, Creation
  <2> QED BY <1>1, <1>3, <2>2, <2>3, <2>5, StartRuns, StepKeeps DEF session, Creation
<1> QED BY <1>2, <1>3 DEF Chained, UpTo

-----------------------------------------------------------------------------
(* Files that are given back.                                              *)
LEMMA RecoverKeeps == ASSUME ExitInv, Recover PROVE ExitInv'
<1>1. /\ pc = "start" /\ file # NoRef /\ pc' = "recover" /\ at' = file
      /\ left' = EntryAt(file).size /\ size' = EntryAt(file).first
      /\ UNCHANGED <<search, device, memory, session, ended, ghosts, file, output>>
  BY DEF Recover, OnFile, Starts, UpTo
<1>2. /\ file \in EntryRefs /\ EntryAt(file).first \in Int /\ EntryAt(file).size \in Int
      /\ fn = "none"
  BY <1>1, OnFileIs DEF EntryRight
<1>3. SearchRight'
  BY <1>1, <1>2, SearchRests DEF ExitInv, Finding
<1>4. MemoryRight'
  BY <1>1, MemoryStays DEF ExitInv
<1>5. LocalsRight'
  BY <1>1, <1>2 DEF ExitInv, LocalsRight, session, WithFile, Creation
<1> QED BY <1>1, <1>3, <1>4, <1>5, StartRuns, StepKeeps DEF session, Creation

LEMMA RecoverIs ==
    ASSUME ExitInv, pc \in {"recover", "recovered"}
    PROVE  /\ file \in EntryRefs /\ at \in EntryRefs \cup ClusterRefs /\ Whole(table, block)
           /\ EntryRight(EntryAt(file)) /\ left \in Int /\ size \in Int
           /\ pc \in Running /\ Bytes \in Int
           /\ pc = "recover" => fn = "none"
<1>1. /\ file \in EntryRefs /\ at \in EntryRefs \cup ClusterRefs /\ Whole(table, block)
      /\ left \in Int /\ size \in Int
  BY DEF ExitInv, LocalsRight, MemoryRight, WithFile
<1>2. pc = "recover" => fn = "none"
  BY NotWaiting DEF Waiting, Finding
<1> QED BY <1>1, <1>2, StartRuns, CommandsAssumption, EntryAtTyped

LEMMA RecoverReadKeeps == ASSUME ExitInv, RecoverRead PROVE ExitInv'
<1> DEFINE n == size :> FAT_EOF @@ TargetSetNext(at, size)
           e == TargetSetEntry(at, size)
           from == IF request.command = "recover" THEN size ELSE EntryAt(file).first
<1>1. pc = "recover" /\ pc \in Running
  BY StartRuns DEF RecoverRead
<1>2. CASE Exit
  BY <1>1, <1>2, ExitKeeps
<1>3. CASE /\ left' = left - Bytes
           /\ \/ UNCHANGED <<memory, at>>
              \/ Update(n, e) /\ at' = ClusterRef(size)
           /\ SearchAll("recovered", RecoverFrom(from))
           /\ UNCHANGED <<device, session, ended, ghosts, file, size>>
  <2>1. /\ file \in EntryRefs /\ at \in EntryRefs \cup ClusterRefs /\ Whole(table, block)
        /\ EntryAt(file).first \in Int /\ left \in Int /\ size \in Int /\ Bytes \in Int
    BY <1>1, RecoverIs DEF EntryRight
  <2>2. RecoverFrom(from) \in Int
    <3>1. from \in Int
      BY <2>1
    <3> HIDE DEF from
    <3> QED BY <3>1, LastAssumption DEF RecoverFrom, IntervalNext, FAT_FIRST
  <2> HIDE DEF from
  <2>3. SearchRight' /\ pc' = "recovered"
    BY <1>3, <2>2, AllSearched DEF Finding
  <2>4. NextsRight(n) /\ PlacesRight(e)
    <3>1. NextsRight(TargetSetNext(at, size)) /\ PlacesRight(e)
      BY <2>1, TargetRight
    <3>2. NextsRight(size :> FAT_EOF)
      BY OneRight DEF FAT_EOF
    <3> QED BY <3>1, <3>2, OverRight
  <2> HIDE DEF n, e
  <2>5. MemoryRight'
    <3>1. CASE UNCHANGED memory
      BY <1>3, <2>3, <3>1, MemoryStays DEF ExitInv
    <3>2. CASE Update(n, e)
      BY <1>3, <2>3, <2>4, <3>2, UpdateKeeps DEF ExitInv
    <3> QED BY <1>3, <3>1, <3>2
  <2>6. at' \in EntryRefs \cup ClusterRefs /\ left' \in Int
    BY <1>3, <2>1, ClusterRefIs
  <2>7. LocalsRight'
    BY <1>1, <1>3, <2>1, <2>3, <2>6 DEF ExitInv, LocalsRight, session, WithFile, Creation
  <2> QED BY <1>1, <1>3, <2>3, <2>5, <2>7, StartRuns, StepKeeps DEF session, Creation
<1> QED BY <1>2, <1>3 DEF RecoverRead

LEMMA RecoveredKeeps == ASSUME ExitInv, Recovered PROVE ExitInv'
<1>1. /\ pc = "recovered" /\ fn = "none" /\ pc \in Running
      /\ size' = result /\ pc' = "recover" /\ TakeAnswer
      /\ UNCHANGED <<device, memory, session, ended, ghosts, at, file, left, output>>
  BY StartRuns DEF Recovered, UpTo, Answered
<1>2. result \in Int
  BY DEF ExitInv, SearchRight
<1>3. SearchRight'
  BY <1>1, SearchRests DEF ExitInv, Finding
<1>4. MemoryRight'
  BY <1>1, MemoryStays DEF ExitInv
<1>5. LocalsRight'
  BY <1>1, <1>2, RecoverIs DEF ExitInv, LocalsRight, session, WithFile, Creation
<1> QED BY <1>1, <1>3, <1>4, <1>5, StartRuns, StepKeeps DEF session, Creation

LEMMA RecoverEndKeeps == ASSUME ExitInv, RecoverEnd PROVE ExitInv'
<1> DEFINE v == [EntryAt(file) EXCEPT !.state = "live"]
           e == IF request.command = "recover" THEN <<>> ELSE file :> v
<1>1. pc = "recover" /\ DoneUpdate(<<>>, e)
  BY DEF RecoverEnd
<1>2. file \in EntryRefs /\ EntryRight(EntryAt(file)) /\ fn = "none"
  BY <1>1, RecoverIs
<1>3. EntryRight(v)
  BY <1>2, FieldsRight
<1> HIDE DEF v
<1>4. PlacesRight(e)
  BY <1>2, <1>3, OneRight, NoneRight
<1> HIDE DEF e, DoneUpdate
<1> QED BY <1>1, <1>2, <1>4, NoneRight, DoneUpdateKeeps

-----------------------------------------------------------------------------
(* The searches, and what is around a command.                             *)
LEMMA SearchExitsKeeps == ASSUME ExitInv, SearchExits PROVE ExitInv'
<1>1. fn = "exit" /\ Exit
  BY DEF SearchExits
<1>2. pc \in Running
  BY <1>1 DEF ExitInv, SearchRight, Running
<1> QED BY <1>1, <1>2, ExitKeeps

LEMMA SearchedKeeps == ASSUME ExitInv, Searched PROVE ExitInv'
<1>1. Searching /\ UNCHANGED <<device, block, dirty, session, ended, ghosts, pc, local>>
  BY DEF Searched
<1>2. UNCHANGED table
  BY <1>1 DEF Searching, Find, Allocated, NumFree, AreaBad, MostFree, Longest
<1>3. SearchRight'
  BY <1>1, <1>2, SearchGoesOn DEF ExitInv
<1>4. MemoryRight'
  BY <1>1, <1>2 DEF ExitInv, MemoryRight
<1>5. LocalsRight'
  BY <1>1 DEF ExitInv, LocalsRight, session, local
<1>6. NothingFreed => NothingFreed'
  BY <1>1, <1>2 DEF NothingFreed, session
<1>7. Untouched => Untouched'
  BY <1>1 DEF Untouched, session
<1>8. Harmless'
  BY <1>1, <1>6, <1>7 DEF ExitInv, Harmless, session
<1> QED BY <1>3, <1>4, <1>5, <1>8 DEF ExitInv

LEMMA OpenKeeps == ASSUME ExitInv, Open PROVE ExitInv'
<1>1. /\ pc = "idle" /\ pc' = "start" /\ ended' = "none" /\ request' \in Requests
      /\ file' = Ref(device, IF request'.command \in Undeleting THEN "deleted" ELSE "live",
                     request'.file)
      /\ at' = IF request'.command = "concat" THEN Ref(device, "live", request'.other) ELSE NoRef
      /\ before' = device
      /\ UNCHANGED <<search, device, memory, left, size>>
  BY DEF Open, UpTo
<1>2. \A state, n : Ref(device, state, n) \in EntryRefs \cup {NoRef}
  BY LookedUpAre
<1>3. at' \in EntryRefs \cup {NoRef} /\ file' \in EntryRefs \cup {NoRef}
  BY <1>1, <1>2
<1>4. fn = "none"
  BY <1>1, NotWaiting DEF Waiting, Finding
<1>5. SearchRight'
  BY <1>1, <1>4, SearchRests DEF ExitInv, Finding
<1>6. MemoryRight'
  BY <1>1, MemoryStays DEF ExitInv
<1>7. LocalsRight'
  BY <1>1, <1>3 DEF ExitInv, LocalsRight, WithFile, Creation
<1>8. \A c \in Clusters : table[c] = device.table[c]
  BY <1>1 DEF ExitInv, MemoryRight
<1>9. Untouched' /\ NothingFreed'
  BY <1>1, <1>8 DEF Untouched, NothingFreed, memory
<1> QED BY <1>1, <1>5, <1>6, <1>7, <1>9 DEF ExitInv, Harmless

LEMMA CloseKeeps == ASSUME ExitInv, Close PROVE ExitInv'
<1>1. /\ pc = "close" /\ pc' = "flush" /\ dirty' = dirty \cup {Info}
      /\ at' = NoRef /\ file' = NoRef /\ left' = 0 /\ size' = 0
      /\ UNCHANGED <<search, device, table, block, session, ended>>
  BY DEF Close, UpTo, Forget
<1>2. fn = "none"
  BY <1>1, NotWaiting DEF Waiting, Finding
<1>3. SearchRight'
  BY <1>1, <1>2, SearchRests DEF ExitInv, Finding
<1>4. MemoryRight'
  BY <1>1 DEF ExitInv, MemoryRight
<1>5. LocalsRight'
  BY <1>1 DEF ExitInv, LocalsRight, session, WithFile, Creation
<1> QED BY <1>1, <1>3, <1>4, <1>5 DEF ExitInv, Harmless, Running, Waiting, Finding, Creation

LEMMA FlushMemory ==
    ASSUME SearchRight, MemoryRight, NEW u, Flush(u)
    PROVE  /\ MemoryRight'
           /\ \A c \in Clusters : /\ device'.table[c] \in {table[c], device.table[c]}
                                  /\ device'.block[c] \in {block[c], device.block[c]}
<1> DEFINE dt == [c \in Clusters |-> IF Sector(c) = u THEN table[c] ELSE device.table[c]]
           db == [c \in Clusters |-> IF Unit(c) = u THEN block[c] ELSE device.block[c]]
           dl == IF u = Info THEN last ELSE device.last
<1>1. /\ device = [table |-> device.table, block |-> device.block, last |-> device.last]
      /\ Whole(table, block) /\ Whole(device.table, device.block) /\ device.last \in Int
      /\ \A c \in Clusters : Sector(c) \notin dirty => table[c] = device.table[c]
      /\ \A c \in Clusters : Unit(c) \notin dirty => block[c] = device.block[c]
  BY DEF MemoryRight
<1>2. device' = [device EXCEPT !.table = dt, !.block = db, !.last = dl]
  BY Zenon DEF Flush
<1>3. /\ pc = "flush" /\ dirty' = dirty \ {u} /\ table' = table /\ block' = block /\ pc' = pc
  BY DEF Flush
<1> DEFINE d1 == [device EXCEPT !.table = dt]
           d2 == [d1 EXCEPT !.block = db]
           d3 == [d2 EXCEPT !.last = dl]
<1>4. device' = d3
  BY <1>2, Zenon
<1>5. d1 = [table |-> dt, block |-> device.block, last |-> device.last]
  <2> HIDE DEF dt
  <2> QED BY <1>1
<1>6. d2 = [table |-> dt, block |-> db, last |-> device.last]
  <2> HIDE DEF d1, dt, db
  <2> QED BY <1>5
<1>7. d3 = [table |-> dt, block |-> db, last |-> dl]
  <2> HIDE DEF d2, dt, db, dl
  <2> QED BY <1>6
<1> HIDE DEF d1, d2, d3
<1>8. /\ device'.table = dt /\ device'.block = db /\ device'.last = dl
      /\ device' = [table |-> device'.table, block |-> device'.block, last |-> device'.last]
  <2> HIDE DEF dt, db, dl
  <2> QED BY <1>4, <1>7
<1>9. last \in Int
  BY DEF SearchRight
<1>10. \A c \in Clusters :
          /\ dt[c] = (IF Sector(c) = u THEN table[c] ELSE device.table[c])
          /\ db[c] = (IF Unit(c) = u THEN block[c] ELSE device.block[c])
  OBVIOUS
<1>11. DOMAIN dt = Clusters /\ DOMAIN db = Clusters /\ dl \in Int
  BY <1>1, <1>9
<1> HIDE DEF dt, db, dl
<1>12. Whole(dt, db)
  BY <1>1, <1>10, <1>11 DEF Whole
<1>13. ASSUME NEW c \in Clusters
       PROVE  /\ Sector(c) \notin dirty' => table'[c] = dt[c]
              /\ Unit(c) \notin dirty' => block'[c] = db[c]
  BY <1>1, <1>3, <1>10
<1> QED BY <1>1, <1>3, <1>8, <1>10, <1>11, <1>12, <1>13 DEF MemoryRight

LEMMA FlushKeeps == ASSUME ExitInv, NEW u, Flush(u) PROVE ExitInv'
<1>1. /\ pc = "flush" /\ pc' = pc
      /\ UNCHANGED <<search, table, block, session, ended, ghosts, pc, local>>
  BY DEF Flush
<1>2. fn = "none"
  BY <1>1, NotWaiting DEF Waiting, Finding
<1>3. SearchRight'
  BY <1>1, <1>2, SearchRests DEF ExitInv, Finding
<1>4. MemoryRight'
  BY FlushMemory DEF ExitInv
<1>5. LocalsRight'
  BY <1>1 DEF ExitInv, LocalsRight, session, local
<1> QED BY <1>1, <1>3, <1>4, <1>5 DEF ExitInv, Harmless, Running, Waiting, Finding, Creation

LEMMA ClosedKeeps == ASSUME ExitInv, Closed \/ Crash PROVE ExitInv'
<1>1. /\ pc = "flush" /\ UNCHANGED <<search, device, memory, session, ghosts, local>>
      /\ \/ dirty = {} /\ pc' = "idle" /\ ended' = "closed"
         \/ pc' = "crashed"
  BY DEF Closed, Crash, UpTo
<1>2. fn = "none"
  BY <1>1, NotWaiting DEF Waiting, Finding
<1>3. SearchRight'
  BY <1>1, <1>2, SearchRests DEF ExitInv, Finding
<1>4. MemoryRight'
  BY <1>1 DEF ExitInv, MemoryRight, memory
<1>5. LocalsRight'
  BY <1>1 DEF ExitInv, LocalsRight, session, local, WithFile, Creation
<1> QED BY <1>1, <1>3, <1>4, <1>5 DEF ExitInv, Harmless, Running, Waiting, Finding, Creation

LEMMA StutterKeeps == ASSUME ExitInv, UNCHANGED vars PROVE ExitInv'
<1>1. UNCHANGED <<search, device, memory, session, ended, ghosts, pc, local>>
  BY DEF vars
<1>2. SearchRight'
  BY <1>1 DEF ExitInv, SearchRight, search, locals, arguments, loop, memory, Free
<1>3. MemoryRight'
  BY <1>1 DEF ExitInv, MemoryRight, memory
<1>4. LocalsRight'
  BY <1>1 DEF ExitInv, LocalsRight, session, local
<1>5. Harmless'
  BY <1>1 DEF ExitInv, Harmless, Untouched, NothingFreed, session, memory
<1> QED BY <1>2, <1>3, <1>4, <1>5 DEF ExitInv

(* The filesystems that are given.                                         *)
LEMMA ImagesAre ==
    ASSUME NEW f \in Images
    PROVE  /\ Whole(f.table, f.block) /\ f.last \in Int
           /\ f = [table |-> f.table, block |-> f.block, last |-> f.last]
<1>1. f \in [table : [Clusters -> NextValues], block : [Clusters -> Blocks], last : Clusters]
  BY ImagesAssumption
<1>2. /\ f.table \in [Clusters -> NextValues] /\ f.block \in [Clusters -> Blocks]
      /\ f.last \in Clusters
      /\ f = [table |-> f.table, block |-> f.block, last |-> f.last]
  BY <1>1
<1>3. NextValues \subseteq Int
  BY ReferencesAre DEF NextValues, FAT_UNUSED, FAT_EOF, FAT_BAD, FAT_ERR
<1>4. ASSUME NEW v \in EntryValues PROVE EntryRight(v)
  BY DEF EntryValues, EntryRight
<1>5. ASSUME NEW b \in Blocks PROVE BlockRight(b)
  <2>1. /\ b.entries \in [Indices -> EntryValues]
        /\ b = [entries |-> b.entries, data |-> b.data]
    BY DEF Blocks
  <2> QED BY <1>4, <2>1 DEF BlockRight
<1>6. Whole(f.table, f.block)
  BY <1>2, <1>3, <1>5 DEF Whole
<1> QED BY <1>2, <1>6, ReferencesAre

LEMMA InitExit == Init => ExitInv
<1> SUFFICES ASSUME Init PROVE ExitInv
  OBVIOUS
<1>1. /\ device \in Images /\ table = device.table /\ block = device.block /\ dirty = {}
      /\ SearchInit /\ last = device.last /\ request \in Requests
      /\ pc = "idle" /\ at = NoRef /\ file = NoRef /\ left = 0 /\ size = 0
      /\ ended = "none"
  BY DEF Init, Nothing
<1>2. SearchRight
  BY <1>1, ImagesAre DEF SearchRight, SearchInit, NoResult, FAT_FIRST, Waiting, Finding
<1>3. MemoryRight
  BY <1>1, ImagesAre DEF MemoryRight
<1>4. LocalsRight
  BY <1>1 DEF LocalsRight, WithFile, Creation
<1> QED BY <1>1, <1>2, <1>3, <1>4 DEF ExitInv, Harmless, Running, Waiting, Finding, Creation

LEMMA ExitNext == ExitInv /\ [Next]_vars => ExitInv'
<1> SUFFICES ASSUME ExitInv, [Next]_vars PROVE ExitInv'
  OBVIOUS
<1>1. CASE NotFound \/ SetName \/ SetSize \/ SetFirst \/ Delete \/ SetNext \/ SetLast
           \/ WriteCluster \/ Bads \/ MarkBad \/ ZeroAll \/ Sparse
  BY <1>1, NotFoundKeeps, SetNameKeeps, SetSizeKeeps, SetFirstKeeps, DeleteKeeps, SetNextKeeps,
     SetLastKeeps, WriteClusterKeeps, BadsKeeps, MarkBadKeeps, ZeroAllKeeps, SparseKeeps
<1>2. CASE StartCreating \/ Create \/ Grow \/ WriteFile \/ More \/ WritePart \/ Attach
           \/ Written \/ Overwrite
  BY <1>2, StartCreatingKeeps, CreateKeeps, GrowKeeps, WriteFileKeeps, MoreKeeps,
     WritePartKeeps, AttachKeeps, WrittenKeeps, OverwriteKeeps
<1>3. CASE Consecutive \/ Sequence \/ ChainSequence \/ MakeDir \/ DirCluster
           \/ Link \/ Linked \/ DeleteFile \/ Crop \/ Concat
  BY <1>3, ConsecutiveKeeps, SequenceKeeps, ChainSequenceKeeps, MakeDirKeeps, DirClusterKeeps,
     LinkKeeps, LinkedKeeps, DeleteFileKeeps, CropKeeps, ConcatKeeps
<1>4. CASE Extend \/ ExtendLoop \/ Extended \/ ExtendEnd
           \/ CreateChain \/ ChainFirst \/ ChainLoop \/ Chained
  BY <1>4, ExtendKeeps, ExtendLoopKeeps, ExtendedKeeps, ExtendEndKeeps, CreateChainKeeps,
     ChainFirstKeeps, ChainLoopKeeps, ChainedKeeps
<1>5. CASE Recover \/ RecoverRead \/ Recovered \/ RecoverEnd \/ SearchExits \/ Searched
  BY <1>5, RecoverKeeps, RecoverReadKeeps, RecoveredKeeps, RecoverEndKeeps, SearchExitsKeeps,
     SearchedKeeps
<1>6. CASE Open \/ Close \/ Closed \/ Crash \/ \E u \in dirty : Flush(u)
  BY <1>6, OpenKeeps, CloseKeeps, ClosedKeeps, FlushKeeps
<1>7. CASE UNCHANGED vars
  BY <1>7, StutterKeeps
<1> QED BY <1>1, <1>2, <1>3, <1>4, <1>5, <1>6, <1>7 DEF Next, Run, Commanded

LEMMA SpecExit == Spec => []ExitInv
<1>1. Init => ExitInv
  BY InitExit
<1>2. ExitInv /\ [Next]_vars => ExitInv'
  BY ExitNext
<1> QED BY <1>1, <1>2, PTL DEF Spec

(* A program that exits changed nothing but free clusters.                 *)
THEOREM ExitIsHarmless == Spec => []ExitHarmless
<1>1. ExitInv => ExitHarmless
  BY DEF ExitInv, Harmless, Untouched, ExitHarmless
<1> QED BY <1>1, SpecExit, PTL

-----------------------------------------------------------------------------
(***************************************************************************)
(* The files that a command does not name.                                 *)
(***************************************************************************)
(* What a command may change: free clusters, those it is given by number,  *)
(* and the chains of the files it names.                                   *)
NamedFiles == {request.file, request.other}
NamedChains ==
    UNION {ClustersIn(before, q) : q \in {q \in Live(before) : EntryIn(before, q).name \in NamedFiles}}
Own == {c \in Clusters : before.table[c] = FAT_UNUSED} \cup Touched \cup NamedChains

Protected == Clusters \ (Own \cup RootIn(before))
OthersEntry(q) == EntryIn(before, q).state = "live" /\ EntryIn(before, q).name \notin NamedFiles

(* The others are in a table and blocks as they were, and the directory    *)
(* goes on at most.                                                        *)
KeptIn(t, b) ==
    /\ \A c \in Protected : t[c] = before.table[c] /\ b[c] = before.block[c]
    /\ \A c \in RootIn(before) :
          /\ t[c] # FAT_UNUSED
          /\ before.table[c] \in Clusters \/ ~ grown => t[c] = before.table[c]
          /\ \A i \in Indices :
                LET q == EntryRef(c, i)
                IN  /\ EntryIn(before, q).state # "end" => b[c].entries[i].state # "end"
                    /\ OthersEntry(q) => b[c].entries[i] = EntryIn(before, q)

ContentsKept ==
    Careful => KeptIn(table, block) /\ KeptIn(device.table, device.block)

(* An entry a command may write.                                           *)
MayHave(p, v) ==
    \/ p.cluster \in Own
    \/ p.cluster \in RootIn(before) /\ ~ OthersEntry(p) /\ v.state # "end"
Writable(p) == MayHave(p, EntryAt(p))
PlaceMine(p) ==
    /\ p \in EntryRefs => Writable(p)
    /\ p \in ClusterRefs /\ p.cluster \in Clusters => p.cluster \in Own

(* Where a command starts.                                                 *)
StartRight ==
    /\ pc = "start" =>
          /\ \A c \in Clusters : table[c] = before.table[c] /\ block[c] = before.block[c]
          /\ file = Ref(before, IF request.command \in Undeleting THEN "deleted" ELSE "live",
                        request.file)
          /\ at = IF request.command = "concat" THEN Ref(before, "live", request.other)
                  ELSE NoRef
    /\ pc \in {"start", "sequence", "create", "grow"} => ~ grown /\ ~ misplaced

(* A sequence that is looked for.                                          *)
SequenceSoFar ==
    /\ length > 0 /\ count \in Nat /\ begin \in Clusters /\ end \in Clusters /\ cl \in Clusters
    /\ \/ length = 1 /\ count = 0
       \/ /\ begin < end /\ count < length
          /\ cl \in begin .. end /\ start \in begin .. end
          /\ count > 0 =>
                /\ first \in begin .. end
                /\ \A c \in first .. first + count - 1 : c \in Clusters /\ Free(c)
                /\ \/ cl = first + count /\ (first < start => cl < start)
                   \/ cl < first

SequenceRight ==
    pc = "sequence" /\ ~ Astray =>
       /\ fn = "find" => length = Ceil(request.size) /\ SequenceSoFar
       /\ fn = "none" =>
             \/ result = FAT_ERR
             \/ \A c \in result .. result + Ceil(request.size) - 1 : c \in Clusters /\ Free(c)

ChainsOn == {"extend", "extended", "chain", "chained"}

OwnGoesOn == \A c \in Own : c \in Clusters /\ table[c] \in Clusters => table[c] \in Own

PlacesMine ==
    Careful /\ pc \in Running =>
       /\ PlaceMine(file) /\ PlaceMine(at)
       /\ pc = "bad" => request.command = "bad"
       /\ pc \in ChainsOn => at \in ClusterRefs
       /\ pc \in Creation /\ request.command = "consecutive" =>
             left .. left + Ceil(request.size) - 1 \subseteq Own
       /\ pc \in {"extend", "extended"} => OwnGoesOn
       /\ pc \in {"recover", "recovered"} /\ request.command # "recover" /\ size \in Clusters =>
             size \in Own

OthersInv == ContentsKept /\ StartRight /\ SequenceRight /\ PlacesMine

-----------------------------------------------------------------------------
(* These do not depend on what changes during a command.                   *)
LEMMA FrameSame ==
    ASSUME UNCHANGED <<request, before>>
    PROVE  /\ Own' = Own /\ Protected' = Protected /\ RootIn(before') = RootIn(before)
           /\ Astray' <=> Astray
           /\ \A p : OthersEntry(p)' <=> OthersEntry(p)
           /\ \A p, v : MayHave(p, v)' <=> MayHave(p, v)
           /\ UNCHANGED misplaced => (Careful' <=> Careful)
<1>1. request' = request /\ before' = before
  OBVIOUS
<1>2. Touched' = Touched
  BY <1>1 DEF Touched
<1>3. NamedFiles' = NamedFiles
  BY <1>1 DEF NamedFiles
<1>4. NamedChains' = NamedChains
  BY <1>1, <1>3 DEF NamedChains
<1>5. Own' = Own
  BY <1>1, <1>2, <1>4 DEF Own
<1>6. Protected' = Protected /\ RootIn(before') = RootIn(before)
  BY <1>1, <1>5 DEF Protected
<1>7. ASSUME NEW p PROVE OthersEntry(p)' <=> OthersEntry(p)
  BY <1>1, <1>3 DEF OthersEntry
<1>8. ASSUME NEW p, NEW v PROVE MayHave(p, v)' <=> MayHave(p, v)
  BY <1>1, <1>5, <1>7 DEF MayHave
<1>9. Astray' <=> Astray
  BY <1>1 DEF Astray
<1>10. UNCHANGED misplaced => (Careful' <=> Careful)
  BY <1>1, <1>2, <1>9 DEF Careful
<1> QED BY <1>5, <1>6, <1>7, <1>8, <1>9, <1>10

(* What a command may change is not in the directory, whose clusters are   *)
(* in use.                                                                 *)
LEMMA RootUsed ==
    ASSUME NEW f, EndsWell(f, Root)
    PROVE  \A c \in RootIn(f) : c \in Clusters /\ f.table[c] # FAT_UNUSED
<1>1. \A c \in ClustersOf(Chain(f.table, Root)) : c \in Clusters /\ f.table[c] # FAT_UNUSED
  BY ChainEnding
<1> QED BY <1>1 DEF RootIn

LEMMA OwnApart ==
    ASSUME Careful
    PROVE  /\ \A c \in RootIn(before) : c \in Clusters /\ c \notin Own
           /\ \A c \in RootIn(before) : before.table[c] # FAT_UNUSED
<1>1. Sound(before) /\ Touched \cap RootIn(before) = {}
  BY DEF Careful
<1>2. \A c \in RootIn(before) : c \in Clusters /\ before.table[c] # FAT_UNUSED
  BY <1>1, RootUsed DEF Sound
<1>3. \A q \in Live(before) : ClustersIn(before, q) \cap RootIn(before) = {}
  BY <1>1 DEF Sound
<1>4. NamedChains \cap RootIn(before) = {}
  BY <1>3 DEF NamedChains
<1> QED BY <1>1, <1>2, <1>4 DEF Own

LEMMA FreeIsOwn ==
    ASSUME ContentsKept, Careful, NEW c \in Clusters, Free(c)
    PROVE  c \in Own
<1>1. KeptIn(table, block)
  BY DEF ContentsKept
<1>2. table[c] = FAT_UNUSED
  BY DEF Free
<1>3. c \notin RootIn(before)
  BY <1>1, <1>2 DEF KeptIn
<1>4. CASE c \in Protected
  <2>1. before.table[c] = FAT_UNUSED
    BY <1>1, <1>2, <1>4 DEF KeptIn
  <2> QED BY <2>1 DEF Own
<1> QED BY <1>3, <1>4 DEF Protected

-----------------------------------------------------------------------------
(* A change that leaves the others.                                        *)
KeptStep(t, b, u, d) ==
    \A c \in Clusters \ Own :
       /\ u[c] = t[c]
       /\ c \in Protected => d[c] = b[c]
       /\ c \in RootIn(before) =>
             \A i \in Indices :
                \/ d[c].entries[i] = b[c].entries[i]
                \/ ~ OthersEntry(EntryRef(c, i)) /\ d[c].entries[i].state # "end"

LEMMA KeptBySteps ==
    ASSUME Careful, NEW t, NEW b, NEW u, NEW d, KeptIn(t, b), KeptStep(t, b, u, d)
    PROVE  KeptIn(u, d)
<1>1. \A c \in RootIn(before) : c \in Clusters \ Own
  BY OwnApart
<1>2. \A c \in Protected : c \in Clusters \ Own
  BY DEF Protected
<1>3. \A c \in Protected : u[c] = before.table[c] /\ d[c] = before.block[c]
  BY <1>2 DEF KeptIn, KeptStep
<1>4. ASSUME NEW c \in RootIn(before)
      PROVE  /\ u[c] # FAT_UNUSED
             /\ before.table[c] \in Clusters \/ ~ grown => u[c] = before.table[c]
  BY <1>1 DEF KeptIn, KeptStep
<1>5. ASSUME NEW c \in RootIn(before), NEW i \in Indices
      PROVE  LET q == EntryRef(c, i)
             IN  /\ EntryIn(before, q).state # "end" => d[c].entries[i].state # "end"
                 /\ OthersEntry(q) => d[c].entries[i] = EntryIn(before, q)
  BY <1>1 DEF KeptIn, KeptStep
<1> QED BY <1>3, <1>4, <1>5 DEF KeptIn

LEMMA ContentsFrame ==
    ASSUME UNCHANGED <<request, before>>, grown => grown',
           Careful' => KeptIn(table', block') /\ KeptIn(device'.table, device'.block)
    PROVE  ContentsKept'
<1>1. /\ Protected' = Protected /\ RootIn(before') = RootIn(before) /\ before' = before
      /\ \A p : OthersEntry(p)' <=> OthersEntry(p)
  BY FrameSame
<1>2. KeptIn(table', block') => KeptIn(table, block)'
  BY <1>1 DEF KeptIn
<1>3. KeptIn(device'.table, device'.block) => KeptIn(device.table, device.block)'
  BY <1>1 DEF KeptIn
<1> QED BY <1>2, <1>3 DEF ContentsKept

(* What is set in the table and in the directory is the command's own.     *)
OwnNexts(n)  == \A c \in DOMAIN n : c \in Clusters => c \in Own
OwnPlaces(e) == \A p \in DOMAIN e : MayHave(p, e[p])

LEMMA NoneOwn == OwnNexts(<<>>) /\ OwnPlaces(<<>>)
  BY NoneIs DEF OwnNexts, OwnPlaces

LEMMA OneOwn ==
    ASSUME NEW x, NEW v
    PROVE  /\ (x \in Clusters => x \in Own) => OwnNexts(x :> v)
           /\ MayHave(x, v) => OwnPlaces(x :> v)
<1>1. DOMAIN (x :> v) = {x} /\ (x :> v)[x] = v
  BY OneIs
<1> QED BY <1>1 DEF OwnNexts, OwnPlaces

LEMMA OverOwn ==
    ASSUME NEW f, NEW g
    PROVE  /\ OwnNexts(f) /\ OwnNexts(g) => OwnNexts(f @@ g)
           /\ OwnPlaces(f) /\ OwnPlaces(g) => OwnPlaces(f @@ g)
<1>1. /\ DOMAIN (f @@ g) = DOMAIN f \cup DOMAIN g
      /\ \A x \in DOMAIN f : (f @@ g)[x] = f[x]
      /\ \A x \in DOMAIN g : x \notin DOMAIN f => (f @@ g)[x] = g[x]
  BY OverIs
<1> QED BY <1>1 DEF OwnNexts, OwnPlaces

LEMMA AllOwn ==
    ASSUME NEW v, NEW S
    PROVE  /\ (\A c \in S : c \in Clusters => c \in Own) => OwnNexts(All(v, S))
           /\ (\A p \in S : p.cluster \in Own) => OwnPlaces(All(v, S))
  BY AllIs DEF OwnNexts, OwnPlaces, MayHave

LEMMA EntryAtIs ==
    ASSUME NEW p \in EntryRefs
    PROVE  /\ p = EntryRef(p.cluster, p.slot) /\ p.cluster \in Clusters /\ p.slot \in Indices
           /\ EntryAt(p) = block[p.cluster].entries[p.slot]
           /\ EntryAt(p)' = block'[p.cluster].entries[p.slot]
  BY ReferencesAre DEF EntryAt, EntryIn, Cached

LEMMA WritableFrame ==
    ASSUME UNCHANGED <<request, before>>, NEW p
    PROVE  Writable(p)' <=> MayHave(p, EntryAt(p)')
<1>1. Own' = Own /\ RootIn(before') = RootIn(before) /\ (OthersEntry(p)' <=> OthersEntry(p))
  BY FrameSame
<1> QED BY <1>1 DEF Writable, MayHave

LEMMA UpdateOthers ==
    ASSUME MemoryRight, ContentsKept, NEW n, NextsRight(n), NEW e, PlacesRight(e),
           Update(n, e), UNCHANGED <<device, request, before>>, grown => grown', pc' # "idle",
           Careful' => Careful /\ OwnNexts(n) /\ OwnPlaces(e)
    PROVE  /\ ContentsKept'
           /\ Careful' => \A q \in EntryRefs : Writable(q) => Writable(q)'
<1>1. /\ \A c \in Clusters : table'[c] = IF c \in DOMAIN n THEN n[c] ELSE table[c]
      /\ \A c \in Clusters :
            /\ (\A p \in DOMAIN e : p.cluster # c) => block'[c] = block[c]
            /\ \A i \in Indices : block'[c].entries[i] =
                  IF EntryRef(c, i) \in DOMAIN e THEN e[EntryRef(c, i)]
                  ELSE block[c].entries[i]
  BY UpdateKeeps
<1>2. ASSUME Careful' PROVE KeptStep(table, block, table', block')
  <2>1. Careful /\ OwnNexts(n) /\ OwnPlaces(e)
    BY <1>2
  <2>2. ASSUME NEW c \in Clusters \ Own
        PROVE  /\ table'[c] = table[c]
               /\ c \in Protected => block'[c] = block[c]
               /\ c \in RootIn(before) =>
                     \A i \in Indices :
                        \/ block'[c].entries[i] = block[c].entries[i]
                        \/ ~ OthersEntry(EntryRef(c, i)) /\ block'[c].entries[i].state # "end"
    <3>1. table'[c] = table[c]
      BY <1>1, <2>1 DEF OwnNexts
    <3>2. ASSUME c \in Protected PROVE block'[c] = block[c]
      <4>1. \A p \in DOMAIN e : p.cluster # c
        BY <2>1, <3>2 DEF OwnPlaces, MayHave, Protected
      <4> QED BY <1>1, <4>1
    <3>3. ASSUME NEW i \in Indices, EntryRef(c, i) \in DOMAIN e
          PROVE  /\ ~ OthersEntry(EntryRef(c, i)) /\ block'[c].entries[i].state # "end"
      <4>1. block'[c].entries[i] = e[EntryRef(c, i)]
        BY <1>1, <3>3
      <4>2. EntryRef(c, i).cluster = c
        BY DEF EntryRef
      <4>3. MayHave(EntryRef(c, i), e[EntryRef(c, i)])
        BY <2>1, <3>3 DEF OwnPlaces
      <4> QED BY <4>1, <4>2, <4>3 DEF MayHave
    <3>4. \A i \in Indices : \/ block'[c].entries[i] = block[c].entries[i]
                             \/ ~ OthersEntry(EntryRef(c, i)) /\ block'[c].entries[i].state # "end"
      BY <1>1, <3>3
    <3> QED BY <3>1, <3>2, <3>4
  <2> QED BY <2>2 DEF KeptStep
<1>3. Careful' => KeptIn(table', block')
  BY <1>2, KeptBySteps DEF ContentsKept
<1>4. ContentsKept'
  BY <1>3, ContentsFrame DEF ContentsKept
<1>5. ASSUME Careful', NEW q \in EntryRefs, Writable(q) PROVE Writable(q)'
  <2>1. /\ q = EntryRef(q.cluster, q.slot) /\ q.cluster \in Clusters /\ q.slot \in Indices
        /\ EntryAt(q) = block[q.cluster].entries[q.slot]
        /\ EntryAt(q)' = block'[q.cluster].entries[q.slot]
    BY EntryAtIs
  <2>2. EntryAt(q)' = IF q \in DOMAIN e THEN e[q] ELSE EntryAt(q)
    BY <1>1, <2>1
  <2>3. MayHave(q, EntryAt(q)) /\ OwnPlaces(e)
    BY <1>5 DEF Writable
  <2>4. MayHave(q, EntryAt(q)')
    BY <2>2, <2>3 DEF OwnPlaces
  <2> QED BY <2>4, WritableFrame
<1> QED BY <1>4, <1>5

LEMMA WriteOthers ==
    ASSUME MemoryRight, ContentsKept, NEW w, \A c \in DOMAIN w : BlockRight(w[c]),
           NEW m \in BOOLEAN, WriteBlocks(w, m), UNCHANGED table,
           UNCHANGED <<request, before, grown, misplaced>>, pc' # "idle",
           Careful => \A c \in DOMAIN w : c \in Clusters => c \in Own
    PROVE  /\ ContentsKept'
           /\ Careful => \A q \in EntryRefs : Writable(q) => Writable(q)'
<1>1. /\ device'.table = device.table
      /\ \A c \in Clusters :
            /\ block'[c] = IF c \in DOMAIN w THEN w[c] ELSE block[c]
            /\ device'.block[c] =
                  IF m /\ c \in DOMAIN w THEN w[c] ELSE device.block[c]
  BY WriteKeeps
<1>2. Careful' <=> Careful
  BY FrameSame
<1>3. ASSUME Careful
      PROVE  /\ KeptStep(table, block, table', block')
             /\ KeptStep(device.table, device.block, device'.table, device'.block)
  BY <1>1, <1>3 DEF KeptStep
<1>4. Careful => KeptIn(table', block') /\ KeptIn(device'.table, device'.block)
  BY <1>3, KeptBySteps DEF ContentsKept
<1>5. ContentsKept'
  BY <1>2, <1>4, ContentsFrame
<1>6. ASSUME Careful, NEW q \in EntryRefs, Writable(q) PROVE Writable(q)'
  <2>1. /\ q.cluster \in Clusters
        /\ EntryAt(q) = block[q.cluster].entries[q.slot]
        /\ EntryAt(q)' = block'[q.cluster].entries[q.slot]
    BY EntryAtIs
  <2>2. q.cluster \in Own \/ EntryAt(q)' = EntryAt(q)
    BY <1>1, <1>6, <2>1
  <2>3. MayHave(q, EntryAt(q)')
    BY <1>6, <2>2 DEF Writable, MayHave
  <2> QED BY <2>3, WritableFrame
<1> QED BY <1>5, <1>6

LEMMA MemoryOthers ==
    ASSUME ContentsKept, UNCHANGED <<device, table, block, request, before, grown, misplaced>>
    PROVE  /\ ContentsKept'
           /\ \A q \in EntryRefs : Writable(q) => Writable(q)'
<1>1. Careful' <=> Careful
  BY FrameSame
<1>2. ContentsKept'
  BY <1>1, ContentsFrame DEF ContentsKept
<1>3. ASSUME NEW q \in EntryRefs, Writable(q) PROVE Writable(q)'
  <2>1. EntryAt(q)' = EntryAt(q)
    BY EntryAtIs
  <2> QED BY <1>3, <2>1, WritableFrame DEF Writable
<1> QED BY <1>2, <1>3

(* The others when a command ends.                                         *)
LEMMA OthersDone ==
    ASSUME ContentsKept', pc' \notin Running
    PROVE  OthersInv'
<1>1. pc' \notin {"start", "sequence", "create", "grow"}
  BY DEF Running, Waiting, Creation, Finding
<1> QED BY <1>1 DEF OthersInv, StartRight, SequenceRight, PlacesMine

LEMMA ExitOthers == ASSUME OthersInv, Exit PROVE OthersInv'
<1>1. /\ pc' = "idle" /\ table' = device.table /\ block' = device.block
      /\ UNCHANGED <<device, request, before, grown, misplaced>>
  BY DEF Exit, UpTo, session, ghosts
<1>2. Careful' <=> Careful
  BY <1>1, FrameSame
<1>3. ContentsKept'
  BY <1>1, <1>2, ContentsFrame DEF ContentsKept, OthersInv
<1> QED BY <1>1, <1>3, OthersDone DEF Running, Waiting, Finding

LEMMA DoneIs ==
    ASSUME Done
    PROVE  /\ pc' = "close" /\ pc' \notin Running /\ pc' # "idle"
           /\ UNCHANGED <<request, before, grown, misplaced>>
  BY DEF Done, UpTo, session, ghosts, Running, Waiting, Finding

LEMMA DoneOthers == ASSUME OthersInv, Done, UNCHANGED <<device, memory>> PROVE OthersInv'
<1>1. ContentsKept'
  BY DoneIs, MemoryOthers DEF OthersInv, memory
<1> QED BY <1>1, DoneIs, OthersDone

LEMMA UpdateDoneOthers ==
    ASSUME ExitInv, OthersInv, NEW n, NextsRight(n), NEW e, PlacesRight(e),
           Careful => OwnNexts(n) /\ OwnPlaces(e), Update(n, e), Done, UNCHANGED device
    PROVE  OthersInv'
<1>1. Careful' => Careful /\ OwnNexts(n) /\ OwnPlaces(e)
  BY DoneIs, FrameSame
<1>2. MemoryRight /\ ContentsKept
  BY DEF ExitInv, OthersInv
<1>3. ContentsKept'
  BY <1>1, <1>2, DoneIs, UpdateOthers
<1> QED BY <1>3, DoneIs, OthersDone

LEMMA DoneUpdateOthers ==
    ASSUME ExitInv, OthersInv, NEW n, NextsRight(n), NEW e, PlacesRight(e),
           Careful => OwnNexts(n) /\ OwnPlaces(e), DoneUpdate(n, e)
    PROVE  OthersInv'
  BY UpdateDoneOthers DEF DoneUpdate

(* A command goes on.                                                      *)
LEMMA PlaceStays ==
    ASSUME UNCHANGED <<request, before>>, NEW p, PlaceMine(p),
           \A q \in EntryRefs : Writable(q) => Writable(q)'
    PROVE  PlaceMine(p)'
<1>1. Own' = Own
  BY FrameSame
<1> QED BY <1>1 DEF PlaceMine

LEMMA StepOthers ==
    ASSUME ContentsKept', PlacesMine', pc' \notin {"start", "sequence"},
           pc' \in {"create", "grow"} => ~ grown' /\ ~ misplaced'
    PROVE  OthersInv'
  BY DEF OthersInv, StartRight, SequenceRight

LEMMA StateStays ==
    ASSUME NEW v, EntryRight(v), NEW x
    PROVE  /\ [v EXCEPT !.name = x].state = v.state /\ [v EXCEPT !.dir = x].state = v.state
           /\ [v EXCEPT !.first = x].state = v.state /\ [v EXCEPT !.size = x].state = v.state
           /\ [v EXCEPT !.state = x].state = x
  BY DEF EntryRight

LEMMA EntryMine ==
    ASSUME NEW p \in EntryRefs, PlaceMine(p), NEW v, EntryAt(p).state # "end" => v.state # "end"
    PROVE  MayHave(p, v)
  BY DEF PlaceMine, Writable, MayHave

LEMMA RunMine ==
    ASSUME OthersInv, Careful, pc \in Running
    PROVE  PlaceMine(file) /\ PlaceMine(at)
  BY DEF OthersInv, PlacesMine

(* What is set through a reference.                                        *)
LEMMA TargetOwn ==
    ASSUME Whole(table, block), NEW p \in EntryRefs \cup ClusterRefs, PlaceMine(p), NEW v \in Int
    PROVE  OwnNexts(TargetSetNext(p, v)) /\ OwnPlaces(TargetSetEntry(p, v))
<1>1. CASE p \in EntryRefs
  <2>1. p.slot # NoSlot
    BY <1>1, ReferencesAre
  <2> DEFINE e == [EntryAt(p) EXCEPT !.first = IF v = FAT_EOF THEN FAT_UNUSED ELSE v]
  <2>2. e.state = EntryAt(p).state
    BY <1>1, EntryAtTyped, StateStays
  <2>3. TargetSetNext(p, v) = <<>> /\ TargetSetEntry(p, v) = p :> e
    BY <2>1 DEF TargetSetNext, TargetSetEntry
  <2> HIDE DEF e
  <2>4. MayHave(p, e)
    BY <1>1, <2>2, EntryMine
  <2> QED BY <2>3, <2>4, OneOwn, NoneOwn
<1>2. CASE p \in ClusterRefs
  <2>1. p.slot = NoSlot
    BY <1>2, ReferencesAre
  <2>2. TargetSetNext(p, v) = p.cluster :> v /\ TargetSetEntry(p, v) = <<>>
    BY <2>1 DEF TargetSetNext, TargetSetEntry
  <2>3. p.cluster \in Clusters => p.cluster \in Own
    BY <1>2 DEF PlaceMine
  <2> QED BY <2>2, <2>3, OneOwn, NoneOwn
<1> QED BY <1>1, <1>2

-----------------------------------------------------------------------------
(* Commands that do one step.                                              *)
LEMMA OnEntryOthers ==
    ASSUME ExitInv, OthersInv, pc = "start", file # NoRef, NEW v, EntryRight(v),
           EntryAt(file).state # "end" => v.state # "end", DoneUpdate(<<>>, file :> v)
    PROVE  OthersInv'
<1>1. file \in EntryRefs /\ PlacesRight(file :> v)
  BY OnFileIs, OneRight
<1>2. ASSUME Careful PROVE OwnNexts(<<>>) /\ OwnPlaces(file :> v)
  <2>1. MayHave(file, v)
    BY <1>1, <1>2, StartRuns, RunMine, EntryMine
  <2> QED BY <2>1, OneOwn, NoneOwn
<1> HIDE DEF DoneUpdate
<1> QED BY <1>1, <1>2, NoneRight, DoneUpdateOthers

LEMMA NotFoundOthers == ASSUME ExitInv, OthersInv, NotFound PROVE OthersInv'
<1>1. CASE Exit
  BY <1>1, ExitOthers
<1>2. CASE Done /\ UNCHANGED <<search, device, memory>>
  BY <1>2, DoneOthers
<1> QED BY <1>1, <1>2, Zenon DEF NotFound

LEMMA SetNameOthers == ASSUME ExitInv, OthersInv, SetName PROVE OthersInv'
<1> DEFINE v == [EntryAt(file) EXCEPT !.name = request.other]
<1>1. pc = "start" /\ file # NoRef /\ DoneUpdate(<<>>, file :> v)
  BY DEF SetName, OnFile, Starts
<1>2. EntryRight(v) /\ v.state = EntryAt(file).state
  BY <1>1, OnFileIs, FieldsRight, StateStays
<1> HIDE DEF v
<1> QED BY <1>1, <1>2, OnEntryOthers

LEMMA SetSizeOthers == ASSUME ExitInv, OthersInv, SetSize PROVE OthersInv'
<1> DEFINE v == [EntryAt(file) EXCEPT !.size = request.size]
<1>1. pc = "start" /\ file # NoRef /\ (Exit \/ DoneUpdate(<<>>, file :> v))
  BY DEF SetSize, OnFile, Starts
<1>2. EntryRight(v) /\ v.state = EntryAt(file).state
  BY <1>1, OnFileIs, FieldsRight, RequestsAre, StateStays
<1> HIDE DEF v, DoneUpdate
<1> QED BY <1>1, <1>2, OnEntryOthers, ExitOthers

LEMMA SetFirstOthers == ASSUME ExitInv, OthersInv, SetFirst PROVE OthersInv'
<1> DEFINE v == [EntryAt(file) EXCEPT !.first = request.cluster]
<1>1. pc = "start" /\ file # NoRef /\ DoneUpdate(<<>>, file :> v)
  BY DEF SetFirst, OnFile, Starts
<1>2. EntryRight(v) /\ v.state = EntryAt(file).state
  BY <1>1, OnFileIs, FieldsRight, RequestsAre, StateStays
<1> HIDE DEF v
<1> QED BY <1>1, <1>2, OnEntryOthers

LEMMA DeleteOthers == ASSUME ExitInv, OthersInv, Delete PROVE OthersInv'
<1> DEFINE v == [EntryAt(file) EXCEPT !.state = "deleted"]
<1>1. pc = "start" /\ file # NoRef /\ DoneUpdate(<<>>, file :> v)
  BY DEF Delete, OnFile, Starts
<1>2. EntryRight(v) /\ v.state = "deleted"
  BY <1>1, OnFileIs, FieldsRight, StateStays
<1> HIDE DEF v
<1> QED BY <1>1, <1>2, OnEntryOthers

LEMMA SetNextOthers == ASSUME ExitInv, OthersInv, SetNext PROVE OthersInv'
<1> DEFINE n == request.cluster :> request.next
<1>1. pc = "start" /\ request.command = "setnext" /\ DoneUpdate(n, <<>>)
  BY DEF SetNext, Starts
<1>2. NextsRight(n)
  BY <1>1, StartIs, OneRight
<1>3. request.cluster \in Own
  BY <1>1 DEF Own, Touched
<1>4. OwnNexts(n)
  BY <1>3, OneOwn
<1> HIDE DEF n, DoneUpdate
<1> QED BY <1>1, <1>2, <1>4, NoneRight, NoneOwn, DoneUpdateOthers

LEMMA SetLastOthers == ASSUME OthersInv, SetLast PROVE OthersInv'
  BY DoneOthers DEF SetLast

LEMMA DoneWriteOthers ==
    ASSUME ExitInv, OthersInv, NEW w, \A c \in DOMAIN w : BlockRight(w[c]),
           NEW m \in BOOLEAN, WriteBlocks(w, m), Done, UNCHANGED <<search, table>>,
           Careful => \A c \in DOMAIN w : c \in Clusters => c \in Own
    PROVE  OthersInv'
<1>1. MemoryRight /\ ContentsKept
  BY DEF ExitInv, OthersInv
<1>2. ContentsKept'
  BY <1>1, DoneIs, WriteOthers
<1> QED BY <1>2, DoneIs, OthersDone

LEMMA WriteClusterOthers == ASSUME ExitInv, OthersInv, WriteCluster PROVE OthersInv'
<1> DEFINE w == request.cluster :> DataBlock("new", 1)
<1>1. request.command = "write" /\ WriteBlocks(w, TRUE) /\ Done /\ UNCHANGED <<search, table>>
  BY DEF WriteCluster, Starts
<1>2. \A c \in DOMAIN w : BlockRight(w[c])
  BY DataBlockRight DEF :>
<1>3. \A c \in DOMAIN w : c \in Own
  BY <1>1 DEF Own, Touched, :>
<1> HIDE DEF w
<1> QED BY <1>1, <1>2, <1>3, DoneWriteOthers

LEMMA BadsOthers == ASSUME ExitInv, OthersInv, Bads PROVE OthersInv'
<1>1. /\ pc = "start" /\ pc' = "bad" /\ request.command = "bad"
      /\ UNCHANGED <<device, memory, session, ended, ghosts, local>>
  BY DEF Bads, Starts, UpTo
<1>2. UNCHANGED <<device, table, block, request, before, grown, misplaced, file, at>>
  BY <1>1 DEF memory, session, ghosts, local
<1>3. ContentsKept' /\ (Careful' <=> Careful)
  BY <1>2, MemoryOthers, FrameSame DEF OthersInv
<1>4. ASSUME Careful' PROVE PlaceMine(file)' /\ PlaceMine(at)'
  <2>1. PlaceMine(file) /\ PlaceMine(at)
    BY <1>1, <1>3, <1>4, StartRuns, RunMine
  <2>2. \A q \in EntryRefs : Writable(q) => Writable(q)'
    BY <1>2, MemoryOthers DEF OthersInv
  <2>3. PlaceMine(file') <=> PlaceMine(file)
    BY <1>2
  <2> QED BY <1>2, <2>1, <2>2, PlaceStays
<1>5. PlacesMine'
  BY <1>1, <1>2, <1>4 DEF PlacesMine, ChainsOn, Creation
<1> QED BY <1>1, <1>3, <1>5, StepOthers

LEMMA MarkBadOthers == ASSUME ExitInv, OthersInv, MarkBad PROVE OthersInv'
<1> DEFINE n == All(FAT_BAD, request.cluster .. request.next)
<1>1. \/ pc = "bad" /\ Update(n, <<>>) /\ Done /\ UNCHANGED device
      \/ Exit
  BY DEF MarkBad
<1>2. NextsRight(n)
  BY AllRight DEF FAT_BAD
<1>3. ASSUME Careful, pc = "bad" PROVE OwnNexts(n)
  <2>2. request.command = "bad"
    BY <1>3, StartRuns DEF OthersInv, PlacesMine
  <2>1. \A c \in request.cluster .. request.next : c \in Own
    BY <2>2 DEF Own, Touched
  <2> QED BY <2>1, AllOwn
<1> HIDE DEF n
<1> QED BY <1>1, <1>2, <1>3, NoneRight, NoneOwn, UpdateDoneOthers, ExitOthers

(* The references of a command that goes on.                               *)
LEMMA PlacesStay ==
    ASSUME OthersInv, pc \in Running, UNCHANGED <<request, before>>,
           Careful' => Careful /\ \A q \in EntryRefs : Writable(q) => Writable(q)'
    PROVE  Careful' =>
              /\ file' \in {file, at} => PlaceMine(file)'
              /\ at' \in {file, at} => PlaceMine(at)'
<1> SUFFICES ASSUME Careful'
             PROVE  /\ file' \in {file, at} => PlaceMine(file)'
                    /\ at' \in {file, at} => PlaceMine(at)'
  OBVIOUS
<1>1. PlaceMine(file) /\ PlaceMine(at)
  BY RunMine
<1>2. \A q \in EntryRefs : Writable(q) => Writable(q)'
  OBVIOUS
<1>3. Own' = Own
  BY FrameSame
<1>4. file' \in {file, at} => PlaceMine(file)'
  BY <1>1, <1>2, <1>3 DEF PlaceMine
<1>5. at' \in {file, at} => PlaceMine(at)'
  BY <1>1, <1>2, <1>3 DEF PlaceMine
<1> QED BY <1>4, <1>5

LEMMA StillOthers ==
    ASSUME OthersInv, pc \in Running,
           UNCHANGED <<device, memory>>, UNCHANGED <<session, ghosts>>
    PROVE  /\ ContentsKept' /\ (Careful' <=> Careful) /\ Own' = Own
           /\ UNCHANGED <<table, request>>
           /\ Careful' =>
                 /\ file' \in {file, at} => PlaceMine(file)'
                 /\ at' \in {file, at} => PlaceMine(at)'
<1>1. UNCHANGED <<device, table, block, request, before, grown, misplaced>>
  BY DEF memory, session, ghosts
<1>2. (Careful' <=> Careful) /\ Own' = Own
  BY <1>1, FrameSame
<1>3. ContentsKept' /\ \A q \in EntryRefs : Writable(q) => Writable(q)'
  BY <1>1, MemoryOthers DEF OthersInv
<1>4. Careful' => Careful /\ \A q \in EntryRefs : Writable(q) => Writable(q)'
  BY <1>2, <1>3
<1>5. Careful' =>
         /\ file' \in {file, at} => PlaceMine(file)'
         /\ at' \in {file, at} => PlaceMine(at)'
  BY <1>1, <1>4, PlacesStay
<1> QED BY <1>1, <1>2, <1>3, <1>5

(* An update of a command that goes on.                                    *)
LEMMA UpdatedOthers ==
    ASSUME ExitInv, OthersInv, pc \in Running, NEW n, NextsRight(n), NEW e, PlacesRight(e),
           Careful => OwnNexts(n) /\ OwnPlaces(e), Update(n, e),
           UNCHANGED device, UNCHANGED <<session, ghosts>>, pc' # "idle"
    PROVE  /\ ContentsKept' /\ (Careful' <=> Careful) /\ Own' = Own
           /\ UNCHANGED request
           /\ Careful' =>
                 /\ file' \in {file, at} => PlaceMine(file)'
                 /\ at' \in {file, at} => PlaceMine(at)'
<1>1. UNCHANGED <<request, before, grown, misplaced>>
  BY DEF session, ghosts
<1>2. (Careful' <=> Careful) /\ Own' = Own
  BY <1>1, FrameSame
<1>3. MemoryRight /\ ContentsKept
  BY DEF ExitInv, OthersInv
<1>4. ContentsKept' /\ (Careful' => \A q \in EntryRefs : Writable(q) => Writable(q)')
  BY <1>1, <1>2, <1>3, UpdateOthers
<1>5. Careful' =>
         /\ file' \in {file, at} => PlaceMine(file)'
         /\ at' \in {file, at} => PlaceMine(at)'
  BY <1>1, <1>2, <1>4, PlacesStay
<1> QED BY <1>1, <1>2, <1>4, <1>5

LEMMA ZeroAllOthers == ASSUME ExitInv, OthersInv, ZeroAll PROVE OthersInv'
<1> DEFINE n == Root :> FAT_EOF @@ All(FAT_UNUSED, Clusters)
           e == All(EndEntry, {EntryRef(Root, i) : i \in Indices})
<1>1. request.command = "zero" /\ DoneUpdate(n, e)
  BY DEF ZeroAll, Starts
<1>2. ~ Careful
  BY <1>1 DEF Careful
<1>3. Done
  BY <1>1 DEF DoneUpdate
<1>4. ~ Careful'
  BY <1>2, <1>3, DoneIs, FrameSame
<1>5. ContentsKept'
  BY <1>4 DEF ContentsKept
<1> QED BY <1>3, <1>5, DoneIs, OthersDone

LEMMA SparseOthers == ASSUME ExitInv, OthersInv, Sparse PROVE OthersInv'
<1> DEFINE w == All(Zero, Unused)
<1>1. WriteBlocks(w, TRUE) /\ Done /\ UNCHANGED <<search, table>>
  BY DEF Sparse
<1>2. \A c \in DOMAIN w : BlockRight(w[c])
  BY ZeroRight, AllIs
<1>3. Careful => \A c \in DOMAIN w : c \in Own
  <2>1. \A c \in DOMAIN w : c \in Clusters /\ Free(c)
    BY AllIs DEF Unused
  <2> QED BY <2>1, FreeIsOwn DEF OthersInv
<1> HIDE DEF w
<1> QED BY <1>1, <1>2, <1>3, DoneWriteOthers

(* The chains of the files that are named are those they had.              *)
LEMMA NamedChain ==
    ASSUME StartRight, pc = "start", NEW n \in NamedFiles, NEW p \in LookedUp(before, "live", n)
    PROVE  /\ p \in EntryRefs /\ p \in Live(before) /\ EntryAt(p) = EntryIn(before, p)
           /\ ChainOf(p) = Chain(before.table, EntryIn(before, p).first)
           /\ ClustersOf(ChainOf(p)) = ClustersIn(before, p)
           /\ ClustersOf(ChainOf(p)) \subseteq Own
<1>1. p \in EntryRefs /\ p \in Live(before) /\ EntryIn(before, p).name = n
  BY LookedUpAre
<1>2. \A c \in Clusters : table[c] = before.table[c] /\ block[c] = before.block[c]
  BY DEF StartRight
<1>3. EntryAt(p) = EntryIn(before, p)
  BY <1>1, <1>2, EntryAtIs DEF EntryIn
<1> DEFINE s == EntryIn(before, p).first
<1>4. ClustersOf(Chain(before.table, s)) \subseteq Clusters
  BY ChainIs DEF ClustersOf
<1>5. Chain(table, s) = Chain(before.table, s)
  <2>1. \A c \in ClustersOf(Chain(before.table, s)) : table[c] = before.table[c]
    BY <1>2, <1>4
  <2> HIDE DEF s
  <2> QED BY <2>1, ChainSame
<1>6. ChainOf(p) = Chain(before.table, s)
  BY <1>3, <1>5 DEF ChainOf
<1>7. ClustersIn(before, p) \subseteq NamedChains
  BY <1>1 DEF NamedChains
<1> QED BY <1>1, <1>3, <1>6, <1>7 DEF ClustersIn, Own

LEMMA FileChain ==
    ASSUME StartRight, pc = "start", file # NoRef, request.command \notin Undeleting
    PROVE  /\ file \in EntryRefs /\ file \in Live(before) /\ EntryAt(file) = EntryIn(before, file)
           /\ ChainOf(file) = Chain(before.table, EntryIn(before, file).first)
           /\ ClustersOf(ChainOf(file)) = ClustersIn(before, file)
           /\ ClustersOf(ChainOf(file)) \subseteq Own
<1>1. file = Ref(before, "live", request.file)
  BY DEF StartRight
<1>2. file \in LookedUp(before, "live", request.file) /\ request.file \in NamedFiles
  BY <1>1, LookedUpAre DEF NamedFiles
<1> QED BY <1>2, NamedChain

LEMMA OverwriteOthers == ASSUME ExitInv, OthersInv, Overwrite PROVE OthersInv'
<1> DEFINE chain == ChainOf(file)
           n     == Min({Len(chain), Ceil(request.size)})
           part(c) == CHOOSE k \in 1 .. n : chain[k] = c
           w == [c \in ClustersOf(SubSeq(chain, 1, n)) |-> DataBlock("new", part(c))]
           m == request.option = "immediate"
<1>1. /\ pc = "start" /\ file # NoRef /\ request.command = "overwrite"
      /\ \/ Exit
         \/ /\ UNCHANGED <<device, block, dirty>>
            /\ Done /\ UNCHANGED <<search, table>>
         \/ WriteBlocks(w, m) /\ Done /\ UNCHANGED <<search, table>>
  BY DEF Overwrite, OnFile, Starts
<1>2. \A c \in DOMAIN w : BlockRight(w[c])
  BY DataBlockRight
<1>3. chain \in Seq(Clusters) /\ ClustersOf(chain) \subseteq Own
  BY <1>1, FileChain, ChainIs DEF OthersInv, Undeleting, ChainOf
<1>4. \A c \in DOMAIN w : c \in ClustersOf(chain)
  <2>1. request.size \in Int
    BY <1>1, StartIs
  <2>2. n \in Int /\ n <= Len(chain)
    <3> HIDE DEF chain
    <3>3. Ceil(request.size) \in Int
      BY <2>1, CeilInt
    <3>4. Len(chain) \in Int
      BY <1>3
    <3>1. Ceil(request.size) \in Int /\ Len(chain) \in Int
      BY <3>3, <3>4
    <3>2. \A a, b \in Int : Min({a, b}) \in Int /\ Min({a, b}) <= a
      <4>1. ASSUME NEW a \in Int, NEW b \in Int PROVE Min({a, b}) \in Int /\ Min({a, b}) <= a
        <5>1. \E x \in {a, b} : \A y \in {a, b} : x <= y
          <6>1. a <= b \/ b <= a
            OBVIOUS
          <6> QED BY <6>1
        <5>2. Min({a, b}) \in {a, b} /\ \A y \in {a, b} : Min({a, b}) <= y
          BY <5>1 DEF Min
        <5> QED BY <5>2
      <4> QED BY <4>1
    <3> QED BY <3>1, <3>2
  <2> HIDE DEF chain, n
  <2>3. SubSeq(chain, 1, n) = [k \in 1 .. n |-> chain[k]]
    BY <1>3, <2>2
  <2>4. \A k \in DOMAIN SubSeq(chain, 1, n) :
           k \in DOMAIN chain /\ SubSeq(chain, 1, n)[k] = chain[k]
    BY <1>3, <2>2, <2>3
  <2> QED BY <2>4 DEF ClustersOf
<1> HIDE DEF w
<1>5. CASE Exit
  BY <1>5, ExitOthers
<1>6. CASE UNCHANGED <<device, block, dirty>> /\ Done /\ UNCHANGED <<search, table>>
  BY <1>6, DoneOthers DEF memory
<1>7. CASE WriteBlocks(w, m) /\ Done /\ UNCHANGED <<search, table>>
  BY <1>2, <1>3, <1>4, <1>7, DoneWriteOthers
<1> QED BY <1>1, <1>5, <1>6, <1>7

-----------------------------------------------------------------------------
(* Files are created.                                                      *)
LEMMA StartCreatingOthers == ASSUME ExitInv, OthersInv, StartCreating PROVE OthersInv'
<1>1. /\ pc = "start" /\ pc' = "create" /\ pc \in Running
      /\ request.command # "consecutive" /\ request.command # "concat"
      /\ UNCHANGED <<search, device, memory, session, ended, ghosts, local>>
  BY StartRuns DEF StartCreating, Starts, UpTo
<1>2. UNCHANGED <<device, memory>> /\ UNCHANGED <<session, ghosts>> /\ UNCHANGED local
  BY <1>1
<1>3. /\ ContentsKept' /\ UNCHANGED request
      /\ Careful' => PlaceMine(file)' /\ PlaceMine(at)'
  BY <1>1, <1>2, StillOthers DEF local
<1>4. PlacesMine'
  BY <1>1, <1>3 DEF PlacesMine, ChainsOn
<1>5. ~ grown' /\ ~ misplaced'
  BY <1>1 DEF OthersInv, StartRight, ghosts
<1> QED BY <1>1, <1>3, <1>4, <1>5, StepOthers

LEMMA CannotCreateOthers ==
    ASSUME OthersInv, pc \in {"create", "grow"}, CannotCreate
    PROVE  OthersInv'
<1>1. CASE Exit
  BY <1>1, ExitOthers
<1>2. CASE /\ pc' = "close" /\ TakeAnswer /\ Forget
           /\ UNCHANGED <<device, memory, session, ended, ghosts, output>>
  <2>1. UNCHANGED <<device, memory>> /\ UNCHANGED <<session, ghosts>>
    BY <1>2
  <2>2. ContentsKept'
    BY <2>1, StartRuns, StillOthers
  <2>3. pc' \notin Running
    BY <1>2 DEF Running, Waiting, Finding
  <2> QED BY <2>2, <2>3, OthersDone
<1> QED BY <1>1, <1>2 DEF CannotCreate, UpTo

(* The directory in the cache, until it is extended.                       *)
LEMMA RootStays ==
    ASSUME ContentsKept, Careful, ~ grown
    PROVE  Chain(table, Root) = Chain(before.table, Root) /\ RootIn(Cached) = RootIn(before)
<1>1. \A c \in RootIn(before) : table[c] = before.table[c]
  BY DEF ContentsKept, KeptIn
<1>2. Chain(table, Root) = Chain(before.table, Root)
  BY <1>1, ChainSame DEF RootIn
<1> QED BY <1>2 DEF RootIn, Cached

LEMMA CarefulBefore ==
    ASSUME UNCHANGED <<request, before>>, ~ misplaced
    PROVE  Careful' => Careful
<1>1. Touched' = Touched /\ (Astray' <=> Astray)
  BY DEF Touched, Astray
<1> QED BY <1>1 DEF Careful

LEMMA CreateOthers == ASSUME ExitInv, OthersInv, Create PROVE OthersInv'
<1>1. pc = "create" /\ pc \in Running
  BY StartRuns DEF Create
<1>2. ~ grown /\ ~ misplaced
  BY <1>1 DEF OthersInv, StartRight
<1>3. CASE CannotCreate
  BY <1>1, <1>3, CannotCreateOthers
<1>4. CASE SearchAll("grow", -1) /\ UNCHANGED <<device, memory, session, ended, ghosts, local>>
  <2>1. /\ pc' = "grow"
        /\ UNCHANGED <<device, memory>> /\ UNCHANGED <<session, ghosts>> /\ UNCHANGED local
    BY <1>4 DEF SearchAll, Search, UpTo
  <2>2. /\ ContentsKept' /\ (Careful' <=> Careful) /\ Own' = Own /\ UNCHANGED request
        /\ Careful' => PlaceMine(file)' /\ PlaceMine(at)'
    BY <1>1, <2>1, StillOthers DEF local
  <2>3. Careful /\ request.command = "consecutive" => left .. left + Ceil(request.size) - 1 \subseteq Own
    BY <1>1 DEF OthersInv, PlacesMine, Creation
  <2>4. PlacesMine'
    BY <1>1, <2>1, <2>2, <2>3 DEF PlacesMine, ChainsOn, local
  <2>5. ~ grown' /\ ~ misplaced'
    BY <1>2, <2>1 DEF ghosts
  <2> QED BY <2>1, <2>2, <2>4, <2>5, StepOthers
<1>5. ASSUME NEW p \in FreeEntry,
             Update(<<>>, p[2] :> File(NewName)), pc' = "created", at' = p[2],
             misplaced' = (p[1] # p[2]),
             UNCHANGED <<search, device, session, ended, grown, file, left, size>>
      PROVE  OthersInv'
  <2> DEFINE v == File(NewName)
  <2>1. p[2] \in EntryRefs
    BY FreeEntryIs
  <2>2. PlacesRight(p[2] :> v)
    BY <2>1, EndIsEntry, OneRight
  <2>3. v.state = "live"
    BY DEF File, EndEntry
  <2> HIDE DEF v
  <2>4. /\ UNCHANGED <<request, before, grown, device>>
    BY <1>5 DEF session
  <2>5. Careful' => Careful /\ p[1] = p[2]
    <3>1. Careful' => ~ misplaced' /\ Careful
      BY <1>2, <2>4, CarefulBefore DEF Careful
    <3> QED BY <1>5, <3>1
  <2>6. ASSUME Careful' PROVE MayHave(p[2], v)
    <3>1. Careful /\ p[1] = p[2]
      BY <2>5, <2>6
    <3>2. EntryAt(p[2]).state # "live" /\ p[2].cluster \in RootIn(before)
      BY <1>2, <3>1, FreeEntryIs, RootStays DEF OthersInv
    <3>3. ~ OthersEntry(p[2])
      <4>1. ASSUME OthersEntry(p[2]) PROVE FALSE
        <5>1. /\ p[2] = EntryRef(p[2].cluster, p[2].slot) /\ p[2].slot \in Indices
              /\ EntryAt(p[2]) = block[p[2].cluster].entries[p[2].slot]
          BY <2>1, EntryAtIs
        <5>2. EntryAt(p[2]) = EntryIn(before, p[2])
          BY <3>1, <3>2, <4>1, <5>1 DEF OthersInv, ContentsKept, KeptIn
        <5> QED BY <3>2, <4>1, <5>2 DEF OthersEntry
      <4> QED BY <4>1
    <3> QED BY <2>3, <3>2, <3>3 DEF MayHave
  <2>7. Careful' => Careful /\ OwnNexts(<<>>) /\ OwnPlaces(p[2] :> v)
    BY <2>5, <2>6, OneOwn, NoneOwn
  <2>8. MemoryRight /\ ContentsKept /\ pc' # "idle" /\ UNCHANGED <<device, request, before>>
    BY <1>5, <2>4 DEF ExitInv, OthersInv
  <2>9. Update(<<>>, p[2] :> v)
    BY <1>5 DEF v
  <2>10. /\ ContentsKept'
         /\ Careful' => \A q \in EntryRefs : Writable(q) => Writable(q)'
    BY <2>2, <2>4, <2>7, <2>8, <2>9, NoneRight, UpdateOthers
  <2>11. Careful' => PlaceMine(file)'
    BY <1>1, <1>5, <2>4, <2>5, <2>10, PlacesStay
  <2>12. ASSUME Careful' PROVE PlaceMine(at)'
    <3>1. EntryAt(p[2])' = v
      <4>1. /\ p[2] = EntryRef(p[2].cluster, p[2].slot) /\ p[2].slot \in Indices
            /\ p[2].cluster \in Clusters
            /\ EntryAt(p[2])' = block'[p[2].cluster].entries[p[2].slot]
        BY <2>1, EntryAtIs
      <4>2. \A c \in Clusters : \A i \in Indices : block'[c].entries[i] =
               IF EntryRef(c, i) \in DOMAIN (p[2] :> v) THEN (p[2] :> v)[EntryRef(c, i)]
               ELSE block[c].entries[i]
        BY <2>2, <2>8, <2>9, NoneRight, UpdateKeeps
      <4>3. DOMAIN (p[2] :> v) = {p[2]} /\ (p[2] :> v)[p[2]] = v
        BY OneIs
      <4>4. block'[p[2].cluster].entries[p[2].slot] =
               IF EntryRef(p[2].cluster, p[2].slot) \in DOMAIN (p[2] :> v)
               THEN (p[2] :> v)[EntryRef(p[2].cluster, p[2].slot)]
               ELSE block[p[2].cluster].entries[p[2].slot]
        BY <4>1, <4>2
      <4>5. EntryRef(p[2].cluster, p[2].slot) = p[2]
        BY <4>1
      <4>6. EntryAt(p[2])' = block'[p[2].cluster].entries[p[2].slot]
        BY <4>1
      <4> HIDE DEF v
      <4> QED BY <4>3, <4>4, <4>5, <4>6, Zenon
    <3>2. Writable(p[2])'
      BY <2>4, <2>6, <2>12, <3>1, WritableFrame
    <3>3. at' = p[2] /\ at' \notin ClusterRefs
      BY <1>5, <2>1, ReferencesAre
    <3> QED BY <3>2, <3>3 DEF PlaceMine
  <2>13. Careful /\ request.command = "consecutive" => left .. left + Ceil(request.size) - 1 \subseteq Own
    BY <1>1 DEF OthersInv, PlacesMine, Creation
  <2>14. Own' = Own
    BY <2>4, FrameSame
  <2>15. PlacesMine'
    BY <1>5, <2>4, <2>5, <2>11, <2>12, <2>13, <2>14 DEF PlacesMine, ChainsOn
  <2> QED BY <1>5, <2>10, <2>15, StepOthers
<1> QED BY <1>3, <1>4, <1>5 DEF Create, UpTo

LEMMA GrownOthers ==
    ASSUME ContentsKept, Careful, NEW r \in Clusters, r \in Own,
           NEW c, c = Chain(table, Root)[Len(Chain(table, Root))], ~ grown, grown',
           UNCHANGED <<device, request, before, misplaced>>,
           \A d \in Clusters :
              /\ table'[d] = IF d = c THEN r ELSE IF d = r THEN FAT_EOF ELSE table[d]
              /\ d # r => block'[d] = block[d]
    PROVE  /\ KeptIn(table, block)' /\ KeptIn(device.table, device.block)'
           /\ \A q \in EntryRefs : Writable(q) => Writable(q)'
<1>1. /\ Own' = Own /\ Protected' = Protected /\ RootIn(before') = RootIn(before)
      /\ before' = before
      /\ \A p : OthersEntry(p)' <=> OthersEntry(p)
  BY FrameSame
<1>2. KeptIn(table, block) /\ KeptIn(device.table, device.block)
  BY DEF ContentsKept
<1>3. /\ c \in RootIn(before) /\ before.table[c] = FAT_EOF
  <2>1. Chain(table, Root) = Chain(before.table, Root)
    BY RootStays
  <2>2. /\ Len(Chain(before.table, Root)) \in 1 .. Last
        /\ c = Chain(before.table, Root)[Len(Chain(before.table, Root))]
    BY <2>1, RootLast
  <2>3. Chain(before.table, Root) \in Seq(Clusters)
    BY ChainIs
  <2>4. Len(Chain(before.table, Root)) \in DOMAIN Chain(before.table, Root)
    BY <2>2, <2>3
  <2>5. Chain(before.table, Root) # <<>>
    BY <2>2
  <2>6. EndsWell(before, Root)
    BY DEF Careful, Sound
  <2> QED BY <2>2, <2>4, <2>5, <2>6 DEF EndsWell, RootIn, ClustersOf
<1>4. /\ \A d \in RootIn(before) : d \in Clusters /\ d # r
      /\ \A d \in Protected : d \in Clusters /\ d # r /\ d # c
  BY <1>3, OwnApart DEF Protected
<1>5. \A d \in Clusters : d # 0 /\ d # FAT_EOF
  BY DEF Clusters, FAT_FIRST, FAT_EOF
<1>6. \A d \in Protected : table'[d] = before.table[d] /\ block'[d] = before.block[d]
  BY <1>2, <1>4 DEF KeptIn
<1>7. ASSUME NEW d \in RootIn(before)
      PROVE  /\ table'[d] # FAT_UNUSED
             /\ before.table[d] \in Clusters => table'[d] = before.table[d]
             /\ block'[d] = block[d]
  <2>1. /\ table[d] # FAT_UNUSED /\ table[d] = before.table[d]
    BY <1>2 DEF KeptIn
  <2>2. d \in Clusters /\ d # r /\ r # FAT_UNUSED /\ FAT_EOF \notin Clusters
    BY <1>4, <1>5 DEF FAT_UNUSED
  <2> QED BY <1>3, <2>1, <2>2
<1>8. KeptIn(table, block)'
  BY <1>1, <1>2, <1>6, <1>7 DEF KeptIn
<1>9. KeptIn(device.table, device.block)'
  BY <1>1, <1>2 DEF KeptIn
<1>10. ASSUME NEW q \in EntryRefs, Writable(q) PROVE Writable(q)'
  <2>1. q.cluster = r \/ EntryAt(q)' = EntryAt(q)
    BY EntryAtIs
  <2>2. MayHave(q, EntryAt(q)')
    BY <1>10, <2>1 DEF Writable, MayHave
  <2> QED BY <2>2, WritableFrame
<1> QED BY <1>8, <1>9, <1>10

LEMMA GrowOthers == ASSUME ExitInv, OthersInv, Grow PROVE OthersInv'
<1> DEFINE chain == Chain(table, Root)
           c == chain[Len(chain)]
           b == DirBlock(0 :> File(NewName))
<1>1. pc = "grow" /\ Answered /\ fn = "none" /\ pc \in Running
  BY StartRuns DEF Grow, Answered
<1>2. ~ grown /\ ~ misplaced
  BY <1>1 DEF OthersInv, StartRight
<1>3. CASE result = FAT_ERR
  <2>1. CannotCreate
    BY <1>3 DEF Grow
  <2> QED BY <1>1, <2>1, CannotCreateOthers
<1>4. CASE result # FAT_ERR
  <2>1. /\ table' = [table EXCEPT ![result] = FAT_EOF, ![c] = result]
        /\ block' = [block EXCEPT ![result] = b]
        /\ pc' = "created" /\ at' = EntryRef(result, 0) /\ grown'
        /\ UNCHANGED <<device, session, ended, misplaced, file, left, size, output>>
    BY <1>4 DEF Grow, UpTo
  <2>2. result \in Clusters /\ Free(result) /\ c \in Clusters
    BY <1>1, <1>4, AnswerIs, RootLast DEF Finding
  <2>3. Clusters \subseteq DOMAIN table /\ Clusters \subseteq DOMAIN block
    BY DEF ExitInv, MemoryRight, Whole
  <2>4. c = Chain(table, Root)[Len(Chain(table, Root))]
    OBVIOUS
  <2> HIDE DEF c, b
  <2>5. UNCHANGED <<device, request, before, misplaced>>
    BY <2>1 DEF session
  <2>6. \A d \in Clusters :
           /\ table'[d] = IF d = c THEN result ELSE IF d = result THEN FAT_EOF ELSE table[d]
           /\ d # result => block'[d] = block[d]
    BY <2>1, <2>2, <2>3
  <2>7. (Careful' <=> Careful) /\ Own' = Own
    BY <2>5, FrameSame
  <2>8. Careful => result \in Own
    BY <2>2, FreeIsOwn DEF OthersInv
  <2>9. Careful =>
           /\ KeptIn(table, block)' /\ KeptIn(device.table, device.block)'
           /\ \A q \in EntryRefs : Writable(q) => Writable(q)'
    <3>1. ContentsKept
      BY DEF OthersInv
    <3> SUFFICES ASSUME Careful
                 PROVE  /\ KeptIn(table, block)' /\ KeptIn(device.table, device.block)'
                        /\ \A q \in EntryRefs : Writable(q) => Writable(q)'
      OBVIOUS
    <3>2. result \in Own /\ ~ grown /\ grown'
      BY <1>2, <2>1, <2>8
    <3> QED BY <2>2, <2>4, <2>5, <2>6, <3>1, <3>2, GrownOthers
  <2>10. ContentsKept'
    BY <2>7, <2>9 DEF ContentsKept
  <2>11. Careful' => PlaceMine(file)'
    BY <1>1, <2>1, <2>5, <2>7, <2>9, PlacesStay
  <2>12. Careful' => PlaceMine(at)'
    <3>1. at'.cluster = result
      BY <2>1 DEF EntryRef
    <3> QED BY <2>7, <2>8, <3>1 DEF PlaceMine, Writable, MayHave
  <2>13. Careful /\ request.command = "consecutive" => left .. left + Ceil(request.size) - 1 \subseteq Own
    BY <1>1 DEF OthersInv, PlacesMine, Creation
  <2>14. PlacesMine'
    BY <2>1, <2>5, <2>7, <2>11, <2>12, <2>13 DEF PlacesMine, ChainsOn
  <2> QED BY <2>1, <2>10, <2>14, StepOthers
<1> QED BY <1>3, <1>4

LEMMA WriteFileOthers == ASSUME ExitInv, OthersInv, WriteFile PROVE OthersInv'
<1>1. /\ pc = "created" /\ pc' = "more" /\ file' = at /\ at' = at /\ pc \in Running
      /\ UNCHANGED <<search, device, memory, session, ended, ghosts, at, output>>
  BY StartRuns DEF WriteFile, UpTo
<1>2. UNCHANGED <<device, memory>> /\ UNCHANGED <<session, ghosts>>
  BY <1>1
<1>3. ContentsKept' /\ (Careful' => PlaceMine(file)' /\ PlaceMine(at)')
  BY <1>1, <1>2, StillOthers
<1>4. PlacesMine'
  BY <1>1, <1>3 DEF PlacesMine, ChainsOn, Creation
<1> QED BY <1>1, <1>3, <1>4, StepOthers

LEMMA MoreOthers == ASSUME ExitInv, OthersInv, More PROVE OthersInv'
<1>1. /\ pc = "more" /\ pc' = "got" /\ pc \in Running
      /\ UNCHANGED <<device, memory, session, ended, ghosts, local>>
  BY StartRuns DEF More, SearchArea, Search, UpTo
<1>2. UNCHANGED <<device, memory>> /\ UNCHANGED <<session, ghosts>> /\ UNCHANGED local
  BY <1>1
<1>3. ContentsKept' /\ (Careful' => PlaceMine(file)' /\ PlaceMine(at)')
  BY <1>1, <1>2, StillOthers DEF local
<1>4. PlacesMine'
  BY <1>1, <1>3 DEF PlacesMine, ChainsOn, Creation
<1> QED BY <1>1, <1>3, <1>4, StepOthers

LEMMA WritePartOthers == ASSUME ExitInv, OthersInv, WritePart PROVE OthersInv'
<1> DEFINE w == result :> DataBlock("new", (size \div Bytes) + 1)
<1>1. pc = "got" /\ Answered /\ pc \in Running
  BY StartRuns DEF WritePart
<1>2. CASE result = FAT_ERR
  BY <1>2, ExitOthers DEF WritePart
<1>3. CASE result # FAT_ERR /\ left = 0
  <2>1. /\ pc' = "written" /\ UNCHANGED <<device, memory, session, ended, ghosts, local>>
    BY <1>3 DEF WritePart, UpTo
  <2>2. UNCHANGED <<device, memory>> /\ UNCHANGED <<session, ghosts>> /\ UNCHANGED local
    BY <2>1
  <2>3. ContentsKept' /\ (Careful' => PlaceMine(file)' /\ PlaceMine(at)')
    BY <1>1, <2>2, StillOthers DEF local
  <2>4. PlacesMine'
    BY <2>1, <2>3 DEF PlacesMine, ChainsOn, Creation
  <2> QED BY <2>1, <2>3, <2>4, StepOthers
<1>4. CASE result # FAT_ERR /\ left # 0
  <2>1. /\ WriteBlocks(w, TRUE) /\ pc' = "attach"
        /\ UNCHANGED <<search, table, session, ended, ghosts, local>>
    BY <1>4 DEF WritePart, UpTo
  <2>2. \A c \in DOMAIN w : BlockRight(w[c])
    BY DataBlockRight DEF :>
  <2>3. DOMAIN w = {result}
    BY OneIs
  <2>4. result \in Clusters /\ Free(result)
    BY <1>1, <1>4, AnswerIs DEF Finding
  <2> HIDE DEF w
  <2>5. MemoryRight /\ ContentsKept /\ pc' # "idle"
    BY <2>1 DEF ExitInv, OthersInv
  <2>6. Careful => \A c \in DOMAIN w : c \in Clusters => c \in Own
    BY <2>3, <2>4, <2>5, FreeIsOwn
  <2>7. UNCHANGED <<request, before, grown, misplaced>> /\ UNCHANGED table
        /\ file' = file /\ at' = at
    BY <2>1 DEF session, ghosts, local
  <2>8. ContentsKept' /\ (Careful => \A q \in EntryRefs : Writable(q) => Writable(q)')
    BY <2>1, <2>2, <2>5, <2>6, <2>7, WriteOthers
  <2>9. Careful' <=> Careful
    BY <2>7, FrameSame
  <2>10. Careful' => PlaceMine(file)' /\ PlaceMine(at)'
    BY <1>1, <2>7, <2>8, <2>9, PlacesStay
  <2>11. PlacesMine'
    BY <2>1, <2>10 DEF PlacesMine, ChainsOn, Creation
  <2> QED BY <2>1, <2>8, <2>11, StepOthers
<1> QED BY <1>2, <1>3, <1>4

(* A cluster of the command's own.                                         *)
LEMMA ClusterMine ==
    \A c \in Int : (c \in Clusters => c \in Own) => PlaceMine(ClusterRef(c))
<1> TAKE c \in Int
<1>1. /\ ClusterRef(c) \in ClusterRefs /\ ClusterRef(c).cluster = c
      /\ ClusterRef(c) \notin EntryRefs
  BY ClusterRefIs, ReferencesAre
<1> QED BY <1>1 DEF PlaceMine

LEMMA ClusterMineNext ==
    ASSUME UNCHANGED <<request, before>>, NEW c \in Int, c \in Clusters => c \in Own,
           at' = ClusterRef(c)
    PROVE  PlaceMine(at)' /\ at' \in ClusterRefs
<1>1. /\ at' \in ClusterRefs /\ at'.cluster = c /\ at' \notin EntryRefs
  BY ClusterRefIs, ReferencesAre
<1>2. Own' = Own
  BY FrameSame
<1> QED BY <1>1, <1>2 DEF PlaceMine

LEMMA AttachOthers == ASSUME ExitInv, OthersInv, Attach PROVE OthersInv'
<1> DEFINE n == result :> FAT_EOF @@ TargetSetNext(at, result)
           e == TargetSetEntry(at, result)
<1>1. /\ pc = "attach" /\ Update(n, e) /\ at' = ClusterRef(result)
      /\ pc' \in {"more", "written"} /\ pc \in Running
      /\ UNCHANGED <<device, session, ended, ghosts, file, output>>
  BY StartRuns DEF Attach, UpTo
<1>2. result \in Clusters /\ result \in Int /\ Free(result)
  BY <1>1, ReferencesAre DEF ExitInv, SearchRight
<1>3. at \in EntryRefs \cup ClusterRefs /\ Whole(table, block)
  BY <1>1 DEF ExitInv, LocalsRight, MemoryRight
<1>4. NextsRight(n) /\ PlacesRight(e)
  <2>1. NextsRight(TargetSetNext(at, result)) /\ PlacesRight(e)
    BY <1>2, <1>3, TargetRight
  <2>2. NextsRight(result :> FAT_EOF)
    BY OneRight DEF FAT_EOF
  <2> QED BY <2>1, <2>2, OverRight
<1>5. Careful => result \in Own
  BY <1>2, FreeIsOwn DEF OthersInv
<1>6. Careful => OwnNexts(n) /\ OwnPlaces(e)
  <2>1. Careful => OwnNexts(TargetSetNext(at, result)) /\ OwnPlaces(e)
    BY <1>1, <1>2, <1>3, RunMine, TargetOwn
  <2>2. Careful => OwnNexts(result :> FAT_EOF)
    BY <1>5, OneOwn
  <2> QED BY <2>1, <2>2, OverOwn
<1> HIDE DEF n, e
<1>7. UNCHANGED <<request, before>> /\ UNCHANGED device /\ UNCHANGED <<session, ghosts>> /\ pc' # "idle"
  BY <1>1 DEF session
<1>8. ContentsKept' /\ (Careful' <=> Careful) /\ (Careful' => PlaceMine(file)')
  BY <1>1, <1>4, <1>6, <1>7, UpdatedOthers
<1>9. Careful' => PlaceMine(at)'
  BY <1>1, <1>2, <1>5, <1>7, <1>8, ClusterMineNext
<1>10. PlacesMine'
  BY <1>1, <1>8, <1>9 DEF PlacesMine, ChainsOn, Creation
<1> QED BY <1>1, <1>8, <1>10, StepOthers

LEMMA WrittenOthers == ASSUME ExitInv, OthersInv, Written PROVE OthersInv'
<1> DEFINE v == [EntryAt(file) EXCEPT !.size = size]
<1>1. pc = "written" /\ DoneUpdate(<<>>, file :> v) /\ pc \in Running
  BY StartRuns DEF Written
<1>2. file \in EntryRefs /\ Whole(table, block) /\ size \in Int
  BY <1>1 DEF ExitInv, LocalsRight, MemoryRight, WithFile
<1>3. EntryRight(v) /\ v.state = EntryAt(file).state
  BY <1>2, EntryAtTyped, FieldsRight, StateStays
<1> HIDE DEF v, DoneUpdate
<1>4. PlacesRight(file :> v)
  BY <1>2, <1>3, OneRight
<1>5. ASSUME Careful PROVE OwnNexts(<<>>) /\ OwnPlaces(file :> v)
  <2>1. MayHave(file, v)
    BY <1>1, <1>2, <1>3, <1>5, RunMine, EntryMine
  <2> QED BY <2>1, OneOwn, NoneOwn
<1> QED BY <1>1, <1>4, <1>5, NoneRight, DoneUpdateOthers

(* A sequence is looked for.                                               *)
LEMMA ConsecutiveOthers == ASSUME ExitInv, OthersInv, Consecutive PROVE OthersInv'
<1> DEFINE k == Ceil(request.size)
<1>1. /\ pc = "start" /\ pc' = "sequence" /\ request.command = "consecutive"
      /\ CallFind(request.begin, request.end, -1, k) /\ pc \in Running
      /\ UNCHANGED <<device, memory, session, ended, ghosts, local>>
  BY StartRuns DEF Consecutive, Starts, Search, UpTo
<1>2. UNCHANGED <<device, memory>> /\ UNCHANGED <<session, ghosts>> /\ UNCHANGED local
  BY <1>1
<1>3. /\ ContentsKept' /\ UNCHANGED <<table, request>>
      /\ Careful' => PlaceMine(file)' /\ PlaceMine(at)'
  BY <1>1, <1>2, StillOthers DEF local
<1>4. PlacesMine'
  BY <1>1, <1>3 DEF PlacesMine, ChainsOn, Creation
<1>5. StartRight'
  BY <1>1 DEF OthersInv, StartRight, ghosts
<1>6. k \in Int /\ last \in Int /\ fn = "none"
  BY <1>1, StartIs, CeilInt DEF ExitInv, SearchRight
<1>7. Ceil(request'.size) = k /\ request' = request
  BY <1>3
<1> HIDE DEF k
<1>8. SequenceRight'
  <2>1. CASE Return(FAT_ERR) /\ UNCHANGED <<last, locals>>
    BY <2>1 DEF Return, SequenceRight
  <2>2. CASE fn' = "exit" /\ UNCHANGED <<last, result, locals>>
    BY <2>2 DEF SequenceRight
  <2>3. ASSUME k > 0, Call("find", request.begin, request.end, last, k), fn' # "exit"
        PROVE  SequenceRight'
    <3> DEFINE b == request.begin
               e == request.end
    <3>1. /\ fn' = "find" /\ begin' = b /\ end' = e /\ length' = k
          /\ start' = (IF IsBetween(last, b, e) THEN last ELSE b)
          /\ cl' = start' /\ count' = 0
          /\ IsRegular(last)
      BY <2>3 DEF Call
    <3>2. b \in Clusters /\ e \in Clusters
      BY <1>1, StartIs
    <3>3. last \in Clusters
      BY <1>6, <3>1, LastAssumption DEF IsRegular, IsBetween, Clusters, FAT_FIRST
    <3>4. cl' \in Clusters /\ cl' = start'
      BY <3>1, <3>2, <3>3
    <3>5. b < e => start' \in b .. e
      BY <3>1, <3>2, <3>3 DEF IsBetween, Clusters, FAT_FIRST
    <3>6. ~ Astray' => k = 1 \/ b < e
      <4>1. ~ Astray' => b < e \/ k <= 1
        BY <1>1, <1>7, <3>2, <1>6 DEF Astray, Clusters, FAT_FIRST
      <4> QED BY <1>6, <2>3, <4>1
    <3> HIDE DEF b, e
    <3>7. ~ Astray' => SequenceSoFar'
      BY <1>6, <2>3, <3>1, <3>2, <3>4, <3>5, <3>6 DEF SequenceSoFar
    <3> QED BY <1>7, <3>1, <3>7 DEF SequenceRight
  <2>4. \/ Return(FAT_ERR) /\ UNCHANGED <<last, locals>>
        \/ k > 0 /\ Call("find", request.begin, request.end, last, k)
    BY <1>1, <1>6 DEF CallFind
  <2>5. Call("find", request.begin, request.end, last, k) /\ fn' = "exit" => SequenceRight'
    BY DEF SequenceRight
  <2> QED BY <2>1, <2>3, <2>4, <2>5
<1> QED BY <1>3, <1>4, <1>5, <1>8 DEF OthersInv

(* Where the sequence goes on.                                             *)
LEMMA SequenceStep ==
    ASSUME SequenceSoFar, Find, UNCHANGED table, length \in Int
    PROVE  /\ fn' = "find" => SequenceSoFar'
           /\ fn' = "none" => \/ result' = FAT_ERR
                              \/ \A c \in result' .. result' + length - 1 : c \in Clusters /\ Free(c)
<1>1. /\ fn = "find" /\ UNCHANGED arguments
      /\ IF Free(cl) THEN first' = SequenceFirst /\ count' = SequenceCount
         ELSE count' = 0 /\ first' = first
      /\ IF Free(cl) /\ count' = length
         THEN fn' = "none" /\ result' = first' /\ UNCHANGED cl
         ELSE /\ cl' = IntervalNext(cl, begin, end)
              /\ IF cl' = start THEN fn' = "none" /\ result' = FAT_ERR
                 ELSE fn' = "find"
  BY DEF Find, Return, LoopOrReturn, Loop
<1>2. begin' = begin /\ end' = end /\ start' = start /\ length' = length
  BY <1>1 DEF arguments
<1>3. length > 0 /\ begin \in Clusters /\ end \in Clusters /\ cl \in Clusters /\ count \in Nat
  BY DEF SequenceSoFar
<1>4. \A c \in Clusters : Free(c)' <=> Free(c)
  BY DEF Free
<1>5. IntervalNext(cl, begin, end) \in Clusters
  BY <1>3, IntervalIn
<1>6. CASE length = 1 /\ count = 0
  <2>1. CASE Free(cl)
    <3>1. first' = cl /\ count' = 1
      BY <1>1, <1>3, <1>6, <2>1 DEF SequenceFirst, SequenceCount, Clusters, FAT_FIRST
    <3>2. fn' = "none" /\ result' = cl
      BY <1>1, <1>6, <2>1, <3>1
    <3>3. \A c \in cl .. cl + 1 - 1 : c = cl
      BY <1>3 DEF Clusters, FAT_FIRST
    <3> QED BY <1>3, <1>6, <2>1, <3>2, <3>3
  <2>2. CASE ~ Free(cl)
    <3>1. count' = 0 /\ (fn' = "none" => result' = FAT_ERR) /\ cl' \in Clusters
      BY <1>1, <1>5, <2>2
    <3> QED BY <1>2, <1>3, <1>6, <3>1 DEF SequenceSoFar
  <2> QED BY <2>1, <2>2
<1>7. CASE /\ begin < end /\ count < length
           /\ cl \in begin .. end /\ start \in begin .. end
           /\ count > 0 =>
                 /\ first \in begin .. end
                 /\ \A c \in first .. first + count - 1 : c \in Clusters /\ Free(c)
                 /\ \/ cl = first + count /\ (first < start => cl < start)
                    \/ cl < first
  <2>0. /\ begin \in Nat /\ end \in Nat /\ begin >= 2 /\ end <= Last /\ Last \in Nat
        /\ cl \in Nat /\ start \in Nat
    BY <1>3, <1>7, LastAssumption DEF Clusters, FAT_FIRST
  <2>1. IntervalNext(cl, begin, end) = IF cl = end THEN begin ELSE cl + 1
    BY <1>7, <2>0 DEF IntervalNext, FAT_FIRST
  <2> DEFINE f == SequenceFirst
  <2>2. f \in begin .. end /\ f \in Nat
    BY <1>3, <1>7, <2>0 DEF SequenceFirst
  <2>3. CASE Free(cl) /\ cl >= f
    <3>1. count' = count + 1 /\ first' = f
      BY <1>1, <2>0, <2>2, <2>3 DEF SequenceCount
    <3>2. cl = f + count
      BY <1>3, <1>7, <2>0, <2>3 DEF SequenceFirst
    <3>3. \A c \in f .. f + count : c \in Clusters /\ Free(c)
      <4> TAKE c \in f .. f + count
      <4>1. CASE c = cl
        BY <1>3, <2>3, <4>1
      <4>2. CASE c # cl
        <5>1. c \in f .. f + count - 1 /\ count > 0
          BY <1>3, <2>2, <3>2, <4>2
        <5> QED BY <1>7, <5>1 DEF SequenceFirst
      <4> QED BY <4>1, <4>2
    <3>4. f < start => cl < start
      BY <1>3, <1>7, <2>0, <2>3 DEF SequenceFirst
    <3>5. CASE count' = length
      <4>1. fn' = "none" /\ result' = f /\ length = count + 1
        BY <1>1, <2>3, <3>1, <3>5
      <4>2. f + length - 1 = f + count
        BY <1>3, <2>2, <4>1
      <4> QED BY <3>3, <4>1, <4>2
    <3>6. CASE count' # length
      <4>1. cl' = (IF cl = end THEN begin ELSE cl + 1)
            /\ (cl' = start => fn' = "none" /\ result' = FAT_ERR)
            /\ (cl' # start => fn' = "find")
        BY <1>1, <2>1, <3>6
      <4>2. ASSUME cl' # start PROVE SequenceSoFar'
        <5>1. cl' \in begin .. end /\ cl' \in Clusters
          BY <1>5, <1>7, <2>0, <2>1, <4>1
        <5>2. count' \in Nat /\ count' < length /\ length > 0
          <6>1. count + 1 < length \/ count + 1 = length
            BY <1>3, <1>7
          <6> QED BY <1>3, <3>1, <3>6, <6>1
        <5>3. \A c \in first' .. first' + count' - 1 : c \in Clusters /\ Free(c)'
          <6>1. first' + count' - 1 = f + count
            BY <1>3, <2>2, <3>1
          <6> QED BY <1>4, <3>1, <3>3, <6>1
        <5>4. \/ cl' = first' + count' /\ (first' < start => cl' < start)
              \/ cl' < first'
          <6>1. CASE cl # end
            BY <1>3, <2>0, <2>2, <3>1, <3>2, <3>4, <4>1, <4>2, <6>1
          <6>2. CASE cl = end
            BY <1>3, <1>7, <2>0, <2>2, <3>1, <3>2, <3>4, <4>1, <4>2, <6>2
          <6> QED BY <6>1, <6>2
        <5> QED BY <1>2, <1>3, <1>7, <2>2, <3>1, <5>1, <5>2, <5>3, <5>4 DEF SequenceSoFar
      <4> QED BY <4>1, <4>2
    <3> QED BY <3>5, <3>6
  <2>4. CASE ~ (Free(cl) /\ cl >= f)
    <3>1. count' = 0
      BY <1>1, <2>0, <2>2, <2>4 DEF SequenceCount
    <3>2. cl' = (IF cl = end THEN begin ELSE cl + 1)
          /\ (cl' = start => fn' = "none" /\ result' = FAT_ERR)
          /\ (cl' # start => fn' = "find")
      BY <1>1, <1>3, <2>1, <3>1
    <3>3. cl' \in begin .. end /\ cl' \in Clusters
      BY <1>5, <1>7, <2>0, <2>1, <3>2
    <3>4. SequenceSoFar'
      BY <1>2, <1>3, <1>7, <3>1, <3>3 DEF SequenceSoFar
    <3> QED BY <3>2, <3>4
  <2> QED BY <2>3, <2>4
<1> QED BY <1>6, <1>7 DEF SequenceSoFar

LEMMA SearchedOthers == ASSUME ExitInv, OthersInv, Searched PROVE OthersInv'
<1>1. Searching /\ UNCHANGED <<device, block, dirty, session, ended, ghosts, pc, local>>
  BY DEF Searched
<1>2. UNCHANGED table /\ (Find \/ Allocated)
  <2>1. fn # "numfree" /\ fn # "areabad" /\ fn # "mostfree" /\ fn # "longest"
    BY DEF ExitInv, SearchRight
  <2>2. ~ NumFree /\ ~ AreaBad /\ ~ MostFree /\ ~ Longest
    BY <2>1 DEF NumFree, AreaBad, MostFree, Longest
  <2> QED BY <1>1, <2>2 DEF Searching, Find, Allocated
<1>3. UNCHANGED <<device, memory>> /\ UNCHANGED <<session, ghosts>> /\ UNCHANGED local /\ UNCHANGED pc
  BY <1>1, <1>2 DEF memory
<1>4. pc \in Running
  BY <1>2 DEF Find, Allocated, ExitInv, SearchRight, Running
<1>5. /\ ContentsKept' /\ (Careful' <=> Careful) /\ Own' = Own /\ UNCHANGED <<table, request>>
      /\ Careful' => PlaceMine(file)' /\ PlaceMine(at)'
  BY <1>3, <1>4, StillOthers DEF local
<1>6. PlacesMine'
  BY <1>3, <1>4, <1>5 DEF OthersInv, PlacesMine, OwnGoesOn, local
<1>7. StartRight'
  BY <1>3 DEF OthersInv, StartRight, memory, session, ghosts, local
<1>8. SequenceRight'
  <2> SUFFICES ASSUME pc = "sequence", ~ Astray
               PROVE  /\ fn' = "find" => length' = Ceil(request.size) /\ SequenceSoFar'
                      /\ fn' = "none" =>
                            \/ result' = FAT_ERR
                            \/ \A c \in result' .. result' + Ceil(request.size) - 1 :
                                  c \in Clusters /\ Free(c)'
    <3>1. Astray' <=> Astray
      BY <1>5 DEF Astray
    <3>2. request' = request /\ pc' = pc
      BY <1>3, <1>5
    <3> QED BY <3>1, <3>2 DEF SequenceRight
  <2>1. fn = "find" /\ Find
    BY <1>2 DEF ExitInv, SearchRight, Allocated, Find
  <2>2. length = Ceil(request.size) /\ SequenceSoFar
    BY <2>1 DEF OthersInv, SequenceRight
  <2>3. /\ fn' = "find" => SequenceSoFar'
        /\ fn' = "none" => \/ result' = FAT_ERR
                           \/ \A c \in result' .. result' + length - 1 : c \in Clusters /\ Free(c)
    <3>1. length \in Int
      BY <2>2, RequestsAre, CeilInt DEF ExitInv, LocalsRight
    <3> QED BY <1>2, <2>1, <2>2, <3>1, SequenceStep
  <2>4. length' = length
    BY <2>1 DEF Find, arguments
  <2>5. \A c : Free(c) => Free(c)'
    BY <1>5 DEF Free
  <2> QED BY <2>2, <2>3, <2>4, <2>5
<1> QED BY <1>5, <1>6, <1>7, <1>8 DEF OthersInv

LEMMA SequenceOthers == ASSUME ExitInv, OthersInv, Sequence PROVE OthersInv'
<1>1. pc = "sequence" /\ fn = "none" /\ pc \in Running
  BY StartRuns DEF Sequence, Answered
<1>2. CASE Exit
  BY <1>2, ExitOthers
<1>3. CASE /\ result # FAT_ERR /\ left' = result /\ pc' = "create" /\ TakeAnswer
           /\ UNCHANGED <<device, memory, session, ended, ghosts, at, file, size, output>>
  <2>1. UNCHANGED <<device, memory>> /\ UNCHANGED <<session, ghosts>> /\ file' = file /\ at' = at
    BY <1>3
  <2>2. /\ ContentsKept' /\ (Careful' <=> Careful) /\ Own' = Own /\ UNCHANGED request
        /\ Careful' => PlaceMine(file)' /\ PlaceMine(at)'
    BY <1>1, <2>1, StillOthers
  <2>3. ASSUME Careful PROVE result .. result + Ceil(request.size) - 1 \subseteq Own
    <3>1. ~ Astray
      BY <2>3 DEF Careful
    <3>2. \A c \in result .. result + Ceil(request.size) - 1 : c \in Clusters /\ Free(c)
      BY <1>1, <1>3, <3>1 DEF OthersInv, SequenceRight
    <3> QED BY <2>3, <3>2, FreeIsOwn DEF OthersInv
  <2>4. PlacesMine'
    BY <1>3, <2>2, <2>3 DEF PlacesMine, ChainsOn
  <2>5. ~ grown' /\ ~ misplaced'
    BY <1>1, <2>1 DEF OthersInv, StartRight, ghosts
  <2> QED BY <1>3, <2>2, <2>4, <2>5, StepOthers
<1> QED BY <1>2, <1>3 DEF Sequence, UpTo

LEMMA ChainSequenceOthers == ASSUME ExitInv, OthersInv, ChainSequence PROVE OthersInv'
<1> DEFINE final == left + Ceil(request.size) - 1
           n == [c \in left .. final |-> IF c = final THEN FAT_EOF ELSE c + 1]
           u == [EntryAt(at) EXCEPT !.size = request.size]
           v == [u EXCEPT !.first = left]
<1>1. pc = "created" /\ request.command = "consecutive" /\ pc \in Running
  BY StartRuns DEF ChainSequence
<1>2. [EntryAt(at) EXCEPT !.size = request.size, !.first = left] = v
  BY Zenon
<1>3. DoneUpdate(n, at :> [EntryAt(at) EXCEPT !.size = request.size, !.first = left])
  BY DEF ChainSequence
<1>4. EntryRight(u) /\ u.state = EntryAt(at).state
  BY <1>1, CreatedIs, FieldsRight, StateStays
<1> HIDE DEF u
<1>5. EntryRight(v) /\ v.state = EntryAt(at).state
  BY <1>1, <1>4, CreatedIs, FieldsRight, StateStays
<1> HIDE DEF v
<1>6. PlacesRight(at :> v)
  BY <1>1, <1>5, CreatedIs, OneRight
<1>7. NextsRight(n)
  BY DEF NextsRight, FAT_EOF
<1>8. ASSUME Careful PROVE OwnNexts(n) /\ OwnPlaces(at :> v)
  <2>1. left .. final \subseteq Own
    BY <1>1, <1>8 DEF OthersInv, PlacesMine, Creation
  <2>2. OwnNexts(n)
    BY <2>1 DEF OwnNexts
  <2>3. MayHave(at, v)
    BY <1>1, <1>5, <1>8, CreatedIs, RunMine, EntryMine
  <2> QED BY <2>2, <2>3, OneOwn
<1> HIDE DEF n, final, DoneUpdate
<1>9. DoneUpdate(n, at :> v)
  BY <1>2, <1>3, Zenon
<1> QED BY <1>6, <1>7, <1>8, <1>9, DoneUpdateOthers

LEMMA MakeDirOthers == ASSUME ExitInv, OthersInv, MakeDir PROVE OthersInv'
<1> DEFINE v == [EntryAt(at) EXCEPT !.dir = TRUE]
<1>1. /\ pc = "created" /\ Update(<<>>, at :> v) /\ pc' = "dir" /\ pc \in Running
      /\ UNCHANGED <<device, session, ended, ghosts, local>>
  BY StartRuns DEF MakeDir, SearchArea, Search, UpTo
<1>2. at \in EntryRefs /\ EntryRight(v) /\ v.state = EntryAt(at).state
  BY <1>1, CreatedIs, FieldsRight, StateStays
<1> HIDE DEF v
<1>3. PlacesRight(at :> v)
  BY <1>2, OneRight
<1>4. ASSUME Careful PROVE OwnNexts(<<>>) /\ OwnPlaces(at :> v)
  <2>1. MayHave(at, v)
    BY <1>1, <1>2, <1>4, RunMine, EntryMine
  <2> QED BY <2>1, OneOwn, NoneOwn
<1>5. UNCHANGED device /\ UNCHANGED <<session, ghosts>> /\ pc' # "idle" /\ file' = file /\ at' = at
  BY <1>1 DEF local
<1>6. ContentsKept' /\ (Careful' => PlaceMine(file)' /\ PlaceMine(at)')
  BY <1>1, <1>3, <1>4, <1>5, NoneRight, UpdatedOthers
<1>7. PlacesMine'
  BY <1>1, <1>6 DEF PlacesMine, ChainsOn, Creation
<1> QED BY <1>1, <1>6, <1>7, StepOthers

LEMMA DirClusterOthers == ASSUME ExitInv, OthersInv, DirCluster PROVE OthersInv'
<1> DEFINE n == result :> FAT_EOF
           e1 == TargetSetEntry(at, result)
           e2 == EntryRef(result, 0) :> Dir(".", result)
           e3 == EntryRef(result, 1) :> Dir("..", 0)
           e4 == All(EndEntry, {EntryRef(result, i) : i \in Indices})
           e == e1 @@ e2 @@ e3 @@ e4
<1>1. pc = "dir" /\ Answered /\ fn = "none" /\ pc \in Running
  BY StartRuns DEF DirCluster, Answered
<1>2. CASE Exit
  BY <1>2, ExitOthers
<1>3. CASE result # FAT_ERR /\ Update(n, e) /\ Done /\ TakeAnswer /\ UNCHANGED device
  <2>1. result \in Clusters /\ result \in Int /\ Free(result)
    BY <1>1, <1>3, AnswerIs DEF Finding
  <2>2. at \in EntryRefs /\ Whole(table, block)
    BY <1>1 DEF ExitInv, LocalsRight, MemoryRight
  <2>3. PlacesRight(e)
    BY <2>1, <2>2, NewDirRight
  <2>4. NextsRight(n)
    BY OneRight DEF FAT_EOF
  <2>5. ASSUME Careful PROVE OwnNexts(n) /\ OwnPlaces(e)
    <3>1. result \in Own
      BY <2>1, <2>5, FreeIsOwn DEF OthersInv
    <3>2. \A i : EntryRef(result, i).cluster \in Own
      BY <3>1 DEF EntryRef
    <3>3. OwnPlaces(e2) /\ OwnPlaces(e3)
      BY <3>2, OneOwn DEF MayHave
    <3>4. OwnPlaces(e4)
      <4>1. \A p \in {EntryRef(result, i) : i \in Indices} : p.cluster \in Own
        BY <3>2
      <4> QED BY <4>1, AllOwn
    <3>5. OwnPlaces(e1)
      BY <1>1, <2>1, <2>2, <2>5, RunMine, TargetOwn
    <3> HIDE DEF e1, e2, e3, e4
    <3>6. OwnPlaces(e1 @@ e2)
      BY <3>3, <3>5, OverOwn
    <3>7. OwnPlaces(e1 @@ e2 @@ e3)
      BY <3>3, <3>6, OverOwn
    <3>8. OwnPlaces(e)
      BY <3>4, <3>7, OverOwn
    <3> QED BY <3>1, <3>8, OneOwn
  <2> HIDE DEF n, e
  <2> QED BY <1>3, <2>3, <2>4, <2>5, UpdateDoneOthers
<1> QED BY <1>2, <1>3 DEF DirCluster

LEMMA LinkOthers == ASSUME ExitInv, OthersInv, Link PROVE OthersInv'
<1>1. pc = "start" /\ request.command = "link" /\ pc \in Running
  BY StartRuns DEF Link, OnFile, Starts
<1>2. CASE Done /\ UNCHANGED <<search, device, memory>>
  BY <1>2, DoneOthers
<1>3. CASE /\ pc' = "create"
           /\ UNCHANGED <<search, device, memory, session, ended, ghosts, at, file, size, output>>
  <2>1. UNCHANGED <<device, memory>> /\ UNCHANGED <<session, ghosts>> /\ file' = file /\ at' = at
    BY <1>3
  <2>2. ContentsKept' /\ UNCHANGED request /\ (Careful' => PlaceMine(file)' /\ PlaceMine(at)')
    BY <1>1, <2>1, StillOthers
  <2>3. PlacesMine'
    BY <1>1, <1>3, <2>2 DEF PlacesMine, ChainsOn
  <2>4. ~ grown' /\ ~ misplaced'
    BY <1>1, <2>1 DEF OthersInv, StartRight, ghosts
  <2> QED BY <1>3, <2>2, <2>3, <2>4, StepOthers
<1> QED BY <1>2, <1>3 DEF Link, UpTo

LEMMA LinkedOthers == ASSUME ExitInv, OthersInv, Linked PROVE OthersInv'
<1> DEFINE long == IF request.size > 0 THEN request.size
                   ELSE EntryAt(file).size - request.cluster * Bytes
           u == [EntryAt(at) EXCEPT !.first = left]
           w == [u EXCEPT !.dir = EntryAt(file).dir]
           v == [w EXCEPT !.size = long]
<1>1. pc = "created" /\ request.command = "link" /\ pc \in Running
  BY StartRuns DEF Linked
<1>2. DoneUpdate(<<>>, at :> v)
  BY Zenon DEF Linked
<1>3. file \in EntryRefs /\ Whole(table, block) /\ request.cluster \in Int /\ Bytes \in Int
  BY <1>1, RequestsAre, CommandsAssumption DEF ExitInv, LocalsRight, MemoryRight, Creation
<1>4. EntryAt(file).size \in Int
  BY <1>3, EntryAtTyped DEF EntryRight
<1>5. long \in Int
  <2>1. request.cluster * Bytes \in Int
    BY <1>3
  <2> QED BY <1>1, <1>4, <2>1, CreatedIs
<1> HIDE DEF long
<1>6. EntryRight(u) /\ u.state = EntryAt(at).state
  BY <1>1, CreatedIs, FieldsRight, StateStays
<1> HIDE DEF u
<1>7. EntryRight(w) /\ w.state = EntryAt(at).state
  BY <1>6, FieldsRight, StateStays
<1> HIDE DEF w
<1>8. EntryRight(v) /\ v.state = EntryAt(at).state
  BY <1>5, <1>7, FieldsRight, StateStays
<1> HIDE DEF v, DoneUpdate
<1>9. PlacesRight(at :> v)
  BY <1>1, <1>8, CreatedIs, OneRight
<1>10. ASSUME Careful PROVE OwnNexts(<<>>) /\ OwnPlaces(at :> v)
  <2>1. MayHave(at, v)
    BY <1>1, <1>8, <1>10, CreatedIs, RunMine, EntryMine
  <2> QED BY <2>1, OneOwn, NoneOwn
<1> QED BY <1>2, <1>9, <1>10, NoneRight, DoneUpdateOthers

(* A loop that does not end changes nothing.                               *)
LEMMA ForeverOthers ==
    ASSUME OthersInv, pc \in Running, pc' = "forever",
           UNCHANGED <<search, device, memory, session, ended, ghosts, local>>
    PROVE  OthersInv'
<1>1. UNCHANGED <<device, memory>> /\ UNCHANGED <<session, ghosts>>
  OBVIOUS
<1>2. ContentsKept'
  BY <1>1, StillOthers
<1>3. pc' \notin Running
  BY DEF Running, Waiting, Finding
<1> QED BY <1>2, <1>3, OthersDone

LEMMA DeleteFileOthers == ASSUME ExitInv, OthersInv, DeleteFile PROVE OthersInv'
<1> DEFINE n == All(FAT_UNUSED, ClustersOf(ChainOf(file)))
           e == file :> DeletedEntry
<1>1. pc = "start" /\ file # NoRef /\ request.command = "deletefile" /\ pc \in Running
  BY StartRuns DEF DeleteFile, OnFile, Starts
<1>2. file \in EntryRefs /\ EntryRight(EntryAt(file))
  BY <1>1, OnFileIs
<1>3. NextsRight(n) /\ PlacesRight(e)
  BY <1>2, AllRight, OneRight, DeletedRight DEF FAT_UNUSED
<1>4. \/ Exit
      \/ pc' = "forever" /\ UNCHANGED <<search, device, memory, session, ended, ghosts, local>>
      \/ DoneUpdate(n, e)
  BY DEF DeleteFile, UpTo
<1>5. ASSUME Careful PROVE OwnNexts(n) /\ OwnPlaces(e)
  <2>1. OwnNexts(n)
    BY <1>1, AllOwn, FileChain DEF OthersInv, Undeleting
  <2>2. DeletedEntry.state = "deleted"
    BY <1>2, EndIsEntry, StateStays DEF DeletedEntry
  <2>3. MayHave(file, DeletedEntry)
    BY <1>1, <1>2, <1>5, <2>2, RunMine, EntryMine
  <2> QED BY <2>1, <2>3, OneOwn
<1> HIDE DEF n, e, DoneUpdate
<1> QED BY <1>1, <1>3, <1>4, <1>5, ExitOthers, ForeverOthers, DoneUpdateOthers

(* The last reference crop and concat come to is the command's own.        *)
LEMMA RefMine ==
    ASSUME NEW chain \in Seq(Clusters), ClustersOf(chain) \subseteq Own,
           NEW k \in 0 .. Len(chain), PlaceMine(file)
    PROVE  PlaceMine(IF k = 0 THEN file ELSE ClusterRef(chain[k]))
<1>1. CASE k = 0
  BY <1>1
<1>2. CASE k # 0
  <2>1. k \in DOMAIN chain /\ chain[k] \in Clusters
    BY <1>2
  <2>2. chain[k] \in Own /\ chain[k] \in Int
    BY <2>1, ReferencesAre DEF ClustersOf
  <2> QED BY <1>2, <2>2, ClusterMine
<1> QED BY <1>1, <1>2

LEMMA CropOthers == ASSUME ExitInv, OthersInv, Crop PROVE OthersInv'
<1> DEFINE chain == ChainOf(file)
           long  == IF request.size = -1 THEN EntryAt(file).size ELSE request.size
           kept  == Kept(chain, long)
           ref   == IF kept = 0 THEN file ELSE ClusterRef(chain[kept])
           rest  == ClustersOf(SubSeq(chain, kept + 1, Len(chain)))
           n == TargetSetNext(ref, FAT_EOF) @@
                         All(FAT_UNUSED, IF request.option = "free" THEN rest ELSE {})
           e == TargetSetEntry(ref, FAT_EOF)
<1>1. /\ pc = "start" /\ file # NoRef /\ request.command = "crop" /\ pc \in Running
      /\ DoneUpdate(n, e)
  BY StartRuns DEF Crop, OnFile, Starts
<1>2. file \in EntryRefs /\ EntryRight(EntryAt(file)) /\ Whole(table, block)
  BY <1>1, OnFileIs
<1>3. chain \in Seq(Clusters)
  BY ChainIs DEF ChainOf
<1>4. long \in Int
  BY <1>1, <1>2, StartIs DEF EntryRight
<1>5. ClustersOf(chain) \subseteq Own
  BY <1>1, FileChain DEF OthersInv, Undeleting
<1> HIDE DEF chain, long
<1>6. kept \in 0 .. Len(chain)
  BY <1>3, <1>4, KeptIs
<1> HIDE DEF kept
<1>7. ref \in EntryRefs \cup ClusterRefs
  BY <1>2, <1>3, <1>6, RefIs
<1>8. Careful => PlaceMine(ref)
  BY <1>1, <1>3, <1>5, <1>6, RunMine, RefMine
<1>9. rest \subseteq Own
  <2>1. ASSUME NEW j \in DOMAIN SubSeq(chain, kept + 1, Len(chain))
        PROVE  SubSeq(chain, kept + 1, Len(chain))[j] \in ClustersOf(chain)
    <3>1. /\ j \in 1 .. Len(chain) - kept
          /\ SubSeq(chain, kept + 1, Len(chain))[j] = chain[kept + j]
      BY <1>3, <1>6
    <3>2. kept + j \in DOMAIN chain
      BY <1>3, <1>6, <3>1
    <3> QED BY <3>1, <3>2 DEF ClustersOf
  <2> QED BY <1>5, <2>1 DEF ClustersOf
<1> HIDE DEF ref, rest
<1>10. NextsRight(TargetSetNext(ref, FAT_EOF)) /\ PlacesRight(e)
  BY <1>2, <1>7, TargetRight DEF FAT_EOF
<1>11. NextsRight(n)
  BY <1>10, AllRight, OverRight DEF FAT_UNUSED
<1>12. ASSUME Careful PROVE OwnNexts(n) /\ OwnPlaces(e)
  <2>1. OwnNexts(TargetSetNext(ref, FAT_EOF)) /\ OwnPlaces(e)
    BY <1>2, <1>7, <1>8, <1>12, TargetOwn DEF FAT_EOF
  <2>2. OwnNexts(All(FAT_UNUSED, IF request.option = "free" THEN rest ELSE {}))
    BY <1>9, AllOwn
  <2> QED BY <2>1, <2>2, OverOwn
<1> HIDE DEF n, e, DoneUpdate
<1> QED BY <1>1, <1>10, <1>11, <1>12, DoneUpdateOthers

LEMMA ConcatOthers == ASSUME ExitInv, OthersInv, Concat PROVE OthersInv'
<1> DEFINE chain == ChainOf(file)
           ref   == IF chain = <<>> THEN file ELSE ClusterRef(chain[Len(chain)])
           n == TargetSetNext(ref, EntryAt(at).first)
           long == (Len(chain) * Bytes) + EntryAt(at).size
           u == [EntryAt(file) EXCEPT !.size = long]
           v == [u EXCEPT !.first = IF chain = <<>> THEN EntryAt(at).first ELSE @]
<1>1. /\ pc = "start" /\ file # NoRef /\ at # NoRef /\ request.command = "concat"
      /\ \/ pc' = "forever" /\ UNCHANGED <<search, device, memory, session, ended, ghosts, local>>
         \/ DoneUpdate(n, file :> v)
  <2>1. v = [EntryAt(file) EXCEPT !.size = long,
                                  !.first = IF chain = <<>> THEN EntryAt(at).first ELSE @]
    BY Zenon
  <2> HIDE DEF DoneUpdate
  <2> QED BY <2>1, Zenon DEF Concat, OnFile, Starts, UpTo
<1>2. file \in EntryRefs /\ EntryRight(EntryAt(file)) /\ Whole(table, block) /\ pc \in Running
  BY <1>1, OnFileIs, StartRuns
<1>3. at \in EntryRefs
  BY <1>1 DEF ExitInv, LocalsRight
<1>4. chain \in Seq(Clusters)
  BY ChainIs DEF ChainOf
<1>5. EntryAt(at).first \in Int /\ EntryAt(at).size \in Int /\ Bytes \in Int
  BY <1>2, <1>3, EntryAtTyped, CommandsAssumption DEF EntryRight
<1>6. ClustersOf(chain) \subseteq Own
  BY <1>1, FileChain DEF OthersInv, Undeleting
<1> HIDE DEF chain
<1>7. Len(chain) \in 0 .. Len(chain) /\ (chain = <<>> <=> Len(chain) = 0)
  BY <1>4
<1>8. ref \in EntryRefs \cup ClusterRefs
  BY <1>2, <1>4, <1>7, RefIs
<1>9. Careful => PlaceMine(ref)
  <2>1. Careful => PlaceMine(IF Len(chain) = 0 THEN file ELSE ClusterRef(chain[Len(chain)]))
    BY <1>2, <1>4, <1>6, <1>7, RunMine, RefMine
  <2> QED BY <1>7, <2>1
<1> HIDE DEF ref
<1>10. NextsRight(n)
  BY <1>2, <1>5, <1>8, TargetRight
<1>11. long \in Int
  BY <1>4, <1>5
<1> HIDE DEF long
<1>12. EntryRight(u) /\ u.state = EntryAt(file).state
  BY <1>2, <1>11, FieldsRight, StateStays
<1>13. EntryRight(v) /\ v.state = EntryAt(file).state
  <2>1. u.first \in Int
    BY <1>12 DEF EntryRight
  <2>2. (IF chain = <<>> THEN EntryAt(at).first ELSE u.first) \in Int
    BY <1>5, <2>1
  <2> DEFINE x == IF chain = <<>> THEN EntryAt(at).first ELSE u.first
  <2> HIDE DEF u
  <2>3. v = [u EXCEPT !.first = x]
    OBVIOUS
  <2>4. x \in Int
    BY <2>2
  <2> HIDE DEF x, v
  <2>5. EntryRight([u EXCEPT !.first = x]) /\ [u EXCEPT !.first = x].state = u.state
    BY <1>12, <2>4, FieldsRight, StateStays
  <2> QED BY <1>12, <2>3, <2>5
<1> HIDE DEF v, u
<1>14. PlacesRight(file :> v)
  BY <1>2, <1>13, OneRight
<1>15. ASSUME Careful PROVE OwnNexts(n) /\ OwnPlaces(file :> v)
  <2>1. OwnNexts(n)
    BY <1>2, <1>5, <1>8, <1>9, <1>15, TargetOwn
  <2>2. MayHave(file, v)
    BY <1>2, <1>13, <1>15, RunMine, EntryMine
  <2> QED BY <2>1, <2>2, OneOwn
<1> HIDE DEF n, DoneUpdate
<1> QED BY <1>1, <1>2, <1>10, <1>14, <1>15, ForeverOthers, DoneUpdateOthers

-----------------------------------------------------------------------------
(* When the file to extend is opened, what it goes through is its own: the *)
(* chains of files, and free clusters.                                     *)
LEMMA OwnEnds ==
    ASSUME StartRight, pc = "start", Careful, request.command = "extend"
    PROVE  OwnGoesOn
<1> SUFFICES ASSUME NEW c \in Own, c \in Clusters, table[c] \in Clusters
             PROVE  table[c] \in Own
  BY DEF OwnGoesOn
<1>1. table[c] = before.table[c]
  BY DEF StartRight
<1>2. before.table[c] # FAT_UNUSED
  BY <1>1 DEF Clusters, FAT_FIRST, FAT_UNUSED
<1>3. Touched = {}
  BY DEF Touched
<1>4. c \in NamedChains
  BY <1>2, <1>3 DEF Own
<1>5. PICK q \in Live(before) : EntryIn(before, q).name \in NamedFiles /\ c \in ClustersIn(before, q)
  BY <1>4 DEF NamedChains
<1>6. EndsWell(before, EntryIn(before, q).first)
  BY <1>5 DEF Careful, Sound
<1>7. before.table[c] \in ClustersIn(before, q)
  BY <1>1, <1>5, <1>6, ChainEnding DEF ClustersIn
<1>8. before.table[c] \in NamedChains
  BY <1>5, <1>7 DEF NamedChains
<1> QED BY <1>1, <1>8 DEF Own

LEMMA ExtendOthers == ASSUME ExitInv, OthersInv, Extend PROVE OthersInv'
<1> DEFINE c == EntryAt(file).first
<1>1. /\ pc = "start" /\ file # NoRef /\ request.command = "extend" /\ pc' = "extend"
      /\ at' = ClusterRef(c) /\ pc \in Running
      /\ UNCHANGED <<search, device, memory, session, ended, ghosts, file, output>>
  BY StartRuns DEF Extend, OnFile, Starts, UpTo
<1>2. EntryRight(EntryAt(file)) /\ file \in EntryRefs
  BY <1>1, OnFileIs
<1>3. c \in Int
  BY <1>2 DEF EntryRight
<1>4. c \in Clusters => c \in Own
  <2>1. ASSUME c \in Clusters PROVE c \in ClustersOf(ChainOf(file))
    <3>1. /\ ChainOf(file) \in Seq(Clusters) /\ Len(ChainOf(file)) > 0
          /\ ChainOf(file)[1] = c
      BY <2>1, ChainIs DEF ChainOf
    <3> QED BY <3>1 DEF ClustersOf
  <2> QED BY <1>1, <2>1, FileChain DEF OthersInv, Undeleting
<1> HIDE DEF c
<1>5. UNCHANGED <<device, memory>> /\ UNCHANGED <<session, ghosts>> /\ UNCHANGED <<request, before>>
  BY <1>1 DEF session
<1>6. /\ ContentsKept' /\ (Careful' <=> Careful) /\ Own' = Own /\ UNCHANGED <<table, request>>
      /\ Careful' => PlaceMine(file)'
  BY <1>1, <1>5, StillOthers
<1>7. PlaceMine(at)' /\ at' \in ClusterRefs
  BY <1>1, <1>3, <1>4, <1>5, ClusterMineNext
<1>8. Careful' => OwnGoesOn'
  <2>1. Careful => OwnGoesOn
    BY <1>1, OwnEnds DEF OthersInv
  <2> QED BY <1>6, <2>1 DEF OwnGoesOn
<1>9. PlacesMine'
  BY <1>1, <1>6, <1>7, <1>8 DEF PlacesMine, Creation
<1> QED BY <1>1, <1>6, <1>9, StepOthers

(* The clusters a file is extended with are the command's own.             *)
LEMMA ExtendMine ==
    ASSUME OthersInv, Careful, pc \in {"extend", "extended"}
    PROVE  /\ PlaceMine(file) /\ PlaceMine(at) /\ at \in ClusterRefs /\ OwnGoesOn
           /\ at.cluster \in Clusters => at.cluster \in Own
<1>1. pc \in Running
  BY StartRuns
<1>2. PlaceMine(file) /\ PlaceMine(at) /\ at \in ClusterRefs /\ OwnGoesOn
  BY <1>1 DEF OthersInv, PlacesMine, ChainsOn
<1> QED BY <1>2 DEF PlaceMine

LEMMA ExtendNextOthers ==
    ASSUME ExitInv, OthersInv, pc = "extend", NEW c \in Clusters, c = at.cluster,
           ExtendNext(c, table[c]),
           UNCHANGED <<device, session, ended, ghosts, file, output>>
    PROVE  OthersInv'
<1>1. /\ at' = ClusterRef(table[c]) /\ pc' = "extend" /\ pc \in Running
      /\ \/ \E v \in {FAT_UNUSED, FAT_EOF} : Update(c :> v, <<>>)
         \/ UNCHANGED memory
  BY StartRuns DEF ExtendNext
<1>2. table[c] \in Int
  BY DEF ExitInv, MemoryRight, Whole
<1>3. UNCHANGED device /\ UNCHANGED <<session, ghosts>> /\ UNCHANGED <<request, before>>
      /\ file' = file
  BY DEF session
<1>4. /\ ContentsKept' /\ (Careful' <=> Careful) /\ Own' = Own
      /\ Careful' => PlaceMine(file)'
      /\ \A d \in Clusters : table'[d] \in {table[d], FAT_UNUSED, FAT_EOF}
  <2>1. CASE UNCHANGED memory
    <3>1. UNCHANGED <<device, memory>>
      BY <1>3, <2>1
    <3> QED BY <1>1, <1>3, <3>1, StillOthers
  <2>2. ASSUME NEW v \in {FAT_UNUSED, FAT_EOF}, Update(c :> v, <<>>)
        PROVE  /\ ContentsKept' /\ (Careful' <=> Careful) /\ Own' = Own
               /\ Careful' => PlaceMine(file)'
               /\ \A d \in Clusters : table'[d] \in {table[d], FAT_UNUSED, FAT_EOF}
    <3>1. NextsRight(c :> v)
      BY <2>2, OneRight DEF FAT_UNUSED, FAT_EOF
    <3>2. Careful => OwnNexts(c :> v) /\ OwnPlaces(<<>>)
      BY ExtendMine, OneOwn, NoneOwn
    <3>3. pc' # "idle" /\ MemoryRight
      BY <1>1 DEF ExitInv
    <3>4. DOMAIN (c :> v) = {c} /\ (c :> v)[c] = v
      BY OneIs
    <3> DEFINE n == c :> v
    <3> HIDE DEF n
    <3>5. n = c :> v
      BY DEF n
    <3>6. \A d \in Clusters : table'[d] = IF d \in DOMAIN n THEN n[d] ELSE table[d]
      BY <1>3, <2>2, <3>1, <3>3, <3>5, NoneRight, UpdateKeeps
    <3>7. \A d \in Clusters : table'[d] \in {table[d], FAT_UNUSED, FAT_EOF}
      BY <3>4, <3>5, <3>6
    <3>8. /\ ContentsKept' /\ (Careful' <=> Careful) /\ Own' = Own
          /\ Careful' => PlaceMine(file)'
      BY <1>1, <1>3, <2>2, <3>1, <3>2, <3>3, NoneRight, UpdatedOthers
    <3> QED BY <3>7, <3>8
  <2> QED BY <1>1, <2>1, <2>2
<1>5. ASSUME Careful' PROVE PlaceMine(at)' /\ at' \in ClusterRefs /\ OwnGoesOn'
  <2>1. OwnGoesOn /\ c \in Own
    BY <1>4, <1>5, ExtendMine
  <2>2. table[c] \in Clusters => table[c] \in Own
    BY <2>1 DEF OwnGoesOn
  <2>3. PlaceMine(at)' /\ at' \in ClusterRefs
    BY <1>1, <1>2, <1>3, <2>2, ClusterMineNext
  <2>4. FAT_UNUSED \notin Clusters /\ FAT_EOF \notin Clusters
    BY DEF FAT_UNUSED, FAT_EOF, Clusters, FAT_FIRST
  <2>5. OwnGoesOn'
    BY <1>4, <2>1, <2>4 DEF OwnGoesOn
  <2> QED BY <2>3, <2>5
<1>6. PlacesMine'
  BY <1>1, <1>4, <1>5 DEF PlacesMine, Creation
<1> QED BY <1>1, <1>4, <1>6, StepOthers

LEMMA ExtendLoopOthers == ASSUME ExitInv, OthersInv, ExtendLoop PROVE OthersInv'
<1>1. pc = "extend" /\ pc \in Running
  BY StartRuns DEF ExtendLoop
<1>2. CASE Exit
  BY <1>1, <1>2, ExitOthers
<1>3. CASE /\ SearchArea("extended") /\ UNCHANGED <<memory, at, size>>
           /\ UNCHANGED <<device, session, ended, ghosts, file, output>>
  <2>1. /\ UNCHANGED <<device, memory>> /\ UNCHANGED <<session, ghosts>>
        /\ pc' = "extended" /\ file' = file /\ at' = at
    BY <1>3 DEF SearchArea, Search, UpTo
  <2>2. /\ ContentsKept' /\ (Careful' <=> Careful) /\ Own' = Own /\ UNCHANGED <<table, request>>
        /\ Careful' => PlaceMine(file)' /\ PlaceMine(at)'
    BY <1>1, <2>1, StillOthers
  <2>3. Careful' => at' \in ClusterRefs /\ OwnGoesOn'
    BY <1>1, <2>1, <2>2, ExtendMine DEF OwnGoesOn
  <2>4. PlacesMine'
    BY <2>1, <2>2, <2>3 DEF PlacesMine, Creation
  <2> QED BY <2>1, <2>2, <2>4, StepOthers
<1>4. CASE /\ at.cluster \in Clusters /\ ExtendNext(at.cluster, table[at.cluster])
           /\ UNCHANGED <<device, session, ended, ghosts, file, output>>
  BY <1>1, <1>4, ExtendNextOthers
<1> QED BY <1>2, <1>3, <1>4 DEF ExtendLoop

(* A cluster that was found is put after one of the command's own.         *)
LEMMA LinkedOnOthers ==
    ASSUME ExitInv, OthersInv, pc \in {"extended", "chained"}, Answered, result # FAT_ERR,
           Update(result :> FAT_EOF @@ at.cluster :> result, <<>>),
           UNCHANGED device, UNCHANGED <<session, ghosts>>, pc' # "idle", at' = ClusterRef(result)
    PROVE  /\ ContentsKept' /\ (Careful' <=> Careful) /\ Own' = Own /\ UNCHANGED request
           /\ Careful' => /\ file' = file => PlaceMine(file)'
                          /\ PlaceMine(at)' /\ at' \in ClusterRefs /\ result \in Own
           /\ \A d \in Clusters : table'[d] \in {table[d], FAT_EOF, result}
<1> DEFINE n == result :> FAT_EOF @@ at.cluster :> result
<1>1. result \in Clusters /\ result \in Int /\ Free(result) /\ pc \in Running
  BY AnswerIs, StartRuns DEF Finding
<1>2. Careful => result \in Own
  BY <1>1, FreeIsOwn DEF OthersInv
<1>3. Careful => (at.cluster \in Clusters => at.cluster \in Own)
  BY <1>1 DEF OthersInv, PlacesMine, ChainsOn, PlaceMine
<1>4. Careful => OwnNexts(n) /\ OwnPlaces(<<>>)
  BY <1>2, <1>3, OneOwn, OverOwn, NoneOwn
<1>5. NextsRight(n)
  <2>1. NextsRight(result :> FAT_EOF)
    BY OneRight DEF FAT_EOF
  <2>2. NextsRight(at.cluster :> result)
    BY <1>1, OneRight
  <2> QED BY <2>1, <2>2, OverRight
<1>6. \A d \in DOMAIN n : n[d] \in {FAT_EOF, result}
  BY DEF @@, :>
<1> HIDE DEF n
<1>7. Update(n, <<>>) /\ MemoryRight /\ UNCHANGED <<request, before>>
  BY DEF ExitInv, n, session
<1>8. \A d \in Clusters : table'[d] = IF d \in DOMAIN n THEN n[d] ELSE table[d]
  BY <1>5, <1>7, NoneRight, UpdateKeeps
<1>9. /\ ContentsKept' /\ (Careful' <=> Careful) /\ Own' = Own /\ UNCHANGED request
      /\ Careful' => (file' = file => PlaceMine(file)')
  BY <1>1, <1>4, <1>5, <1>7, NoneRight, UpdatedOthers
<1>10. Careful' => PlaceMine(at)' /\ at' \in ClusterRefs
  BY <1>1, <1>2, <1>7, <1>9, ClusterMineNext
<1> QED BY <1>2, <1>6, <1>8, <1>9, <1>10

LEMMA ExtendedOthers == ASSUME ExitInv, OthersInv, Extended PROVE OthersInv'
<1>1. pc = "extended" /\ Answered
  BY DEF Extended
<1>2. CASE Exit
  BY <1>2, ExitOthers
<1>3. CASE /\ result # FAT_ERR
           /\ Update(result :> FAT_EOF @@ at.cluster :> result, <<>>)
           /\ at' = ClusterRef(result) /\ pc' = "extend"
           /\ UNCHANGED <<device, session, ended, ghosts, file, left, output>>
  <2>1. UNCHANGED device /\ UNCHANGED <<session, ghosts>> /\ file' = file
    BY <1>3
  <2>2. /\ ContentsKept' /\ (Careful' <=> Careful) /\ Own' = Own
        /\ Careful' => PlaceMine(file)' /\ PlaceMine(at)' /\ at' \in ClusterRefs /\ result \in Own
        /\ \A d \in Clusters : table'[d] \in {table[d], FAT_EOF, result}
    BY <1>1, <1>3, <2>1, LinkedOnOthers
  <2>3. Careful' => OwnGoesOn'
    <3>1. FAT_EOF \notin Clusters
      BY DEF FAT_EOF, Clusters, FAT_FIRST
    <3>2. Careful => OwnGoesOn
      BY <1>1, ExtendMine
    <3> QED BY <2>2, <3>1, <3>2 DEF OwnGoesOn
  <2>4. PlacesMine'
    BY <1>3, <2>2, <2>3 DEF PlacesMine, Creation
  <2> QED BY <1>3, <2>2, <2>4, StepOthers
<1> QED BY <1>2, <1>3 DEF Extended, UpTo

LEMMA ExtendEndOthers == ASSUME ExitInv, OthersInv, ExtendEnd PROVE OthersInv'
<1>1. /\ pc = "extend" /\ pc \in Running
      /\ \/ DoneUpdate(<<>>, TargetSetEntry(file, FAT_EOF))
         \/ Done /\ UNCHANGED <<search, device, memory>>
  BY StartRuns DEF ExtendEnd
<1>2. file \in EntryRefs /\ Whole(table, block)
  BY <1>1, ExtendIs
<1>3. PlacesRight(TargetSetEntry(file, FAT_EOF))
  BY <1>2, TargetRight DEF FAT_EOF
<1>4. Careful => OwnNexts(<<>>) /\ OwnPlaces(TargetSetEntry(file, FAT_EOF))
  BY <1>1, <1>2, RunMine, TargetOwn, NoneOwn DEF FAT_EOF
<1>5. CASE Done /\ UNCHANGED <<search, device, memory>>
  <2>1. UNCHANGED <<device, memory>>
    BY <1>5
  <2> QED BY <1>5, <2>1, DoneOthers
<1> HIDE DEF DoneUpdate
<1> QED BY <1>1, <1>3, <1>4, <1>5, NoneRight, DoneUpdateOthers

-----------------------------------------------------------------------------
(* Chains without a file.                                                  *)
LEMMA CreateChainOthers == ASSUME ExitInv, OthersInv, CreateChain PROVE OthersInv'
<1>1. /\ pc = "start" /\ request.command = "createchain" /\ pc \in Running
      /\ UNCHANGED <<device, memory, session, ended, ghosts, file, size, output>>
  BY StartRuns DEF CreateChain, Starts
<1>2. /\ UNCHANGED <<device, memory>> /\ UNCHANGED <<session, ghosts>> /\ file' = file
      /\ UNCHANGED <<request, before>>
  BY <1>1 DEF session
<1>3. /\ ContentsKept' /\ (Careful' <=> Careful) /\ Own' = Own /\ UNCHANGED request
      /\ Careful' => PlaceMine(file)' /\ (at' = at => PlaceMine(at)')
  BY <1>1, <1>2, StillOthers
<1>4. CASE at' = ClusterRef(request.cluster) /\ pc' = "chain"
  <2>1. request.cluster \in Int
    BY <1>1, StartIs
  <2>2. request.cluster \in Own
    BY <1>1 DEF Own, Touched
  <2>3. PlaceMine(at)' /\ at' \in ClusterRefs
    BY <1>2, <1>4, <2>1, <2>2, ClusterMineNext
  <2>4. PlacesMine'
    BY <1>3, <1>4, <2>3 DEF PlacesMine, Creation
  <2> QED BY <1>3, <1>4, <2>4, StepOthers
<1>5. CASE SearchArea("chainfirst") /\ UNCHANGED <<at, left>>
  <2>1. pc' = "chainfirst" /\ at' = at
    BY <1>5 DEF SearchArea, Search, UpTo
  <2>2. PlacesMine'
    BY <1>3, <2>1 DEF PlacesMine, ChainsOn, Creation
  <2> QED BY <1>3, <2>1, <2>2, StepOthers
<1> QED BY <1>4, <1>5 DEF CreateChain, UpTo

LEMMA ChainFirstOthers == ASSUME ExitInv, OthersInv, ChainFirst PROVE OthersInv'
<1>1. /\ pc = "chainfirst" /\ fn = "none" /\ pc \in Running
      /\ at' = ClusterRef(result) /\ pc' = "chain"
      /\ UNCHANGED <<device, memory, session, ended, ghosts, file, size, output>>
  BY StartRuns DEF ChainFirst, UpTo, Answered
<1>2. /\ UNCHANGED <<device, memory>> /\ UNCHANGED <<session, ghosts>> /\ file' = file
      /\ UNCHANGED <<request, before>>
  BY <1>1 DEF session
<1>3. ContentsKept' /\ (Careful' <=> Careful) /\ (Careful' => PlaceMine(file)')
  BY <1>1, <1>2, StillOthers
<1>4. result \in Int /\ (result = FAT_ERR \/ (result \in Clusters /\ Free(result)))
  BY <1>1 DEF ExitInv, SearchRight, Finding
<1>5. Careful => (result \in Clusters => result \in Own)
  <2>1. FAT_ERR \notin Clusters
    BY DEF FAT_ERR, Clusters, FAT_FIRST
  <2> QED BY <1>4, <2>1, FreeIsOwn DEF OthersInv
<1>6. Careful' => PlaceMine(at)' /\ at' \in ClusterRefs
  BY <1>1, <1>2, <1>3, <1>4, <1>5, ClusterMineNext
<1>7. PlacesMine'
  BY <1>1, <1>3, <1>6 DEF PlacesMine, Creation
<1> QED BY <1>1, <1>3, <1>7, StepOthers

LEMMA ChainLoopOthers == ASSUME ExitInv, OthersInv, ChainLoop PROVE OthersInv'
<1>1. pc = "chain" /\ pc \in Running
  BY StartRuns DEF ChainLoop
<1>2. CASE Done /\ UNCHANGED <<search, device, memory>>
  <2>1. UNCHANGED <<device, memory>>
    BY <1>2
  <2> QED BY <1>2, <2>1, DoneOthers
<1>3. CASE SearchArea("chained") /\ UNCHANGED <<device, memory, session, ended, ghosts, local>>
  <2>1. /\ UNCHANGED <<device, memory>> /\ UNCHANGED <<session, ghosts>>
        /\ pc' = "chained" /\ file' = file /\ at' = at
    BY <1>3 DEF SearchArea, Search, UpTo, local
  <2>2. /\ ContentsKept' /\ (Careful' <=> Careful)
        /\ Careful' => PlaceMine(file)' /\ PlaceMine(at)'
    BY <1>1, <2>1, StillOthers
  <2>3. Careful => at \in ClusterRefs
    BY <1>1 DEF OthersInv, PlacesMine, ChainsOn
  <2>4. PlacesMine'
    BY <2>1, <2>2, <2>3 DEF PlacesMine, Creation
  <2> QED BY <2>1, <2>2, <2>4, StepOthers
<1> QED BY <1>2, <1>3 DEF ChainLoop

LEMMA ChainedOthers == ASSUME ExitInv, OthersInv, Chained PROVE OthersInv'
<1>1. pc = "chained" /\ Answered
  BY DEF Chained
<1>2. CASE Exit
  BY <1>2, ExitOthers
<1>3. CASE /\ result # FAT_ERR
           /\ Update(result :> FAT_EOF @@ at.cluster :> result, <<>>)
           /\ at' = ClusterRef(result) /\ pc' = "chain"
           /\ UNCHANGED <<device, session, ended, ghosts, file, size, output>>
  <2>1. UNCHANGED device /\ UNCHANGED <<session, ghosts>> /\ file' = file
    BY <1>3
  <2>2. /\ ContentsKept'
        /\ Careful' => PlaceMine(file)' /\ PlaceMine(at)' /\ at' \in ClusterRefs
    BY <1>1, <1>3, <2>1, LinkedOnOthers
  <2>3. PlacesMine'
    BY <1>3, <2>2 DEF PlacesMine, Creation
  <2> QED BY <1>3, <2>2, <2>3, StepOthers
<1> QED BY <1>2, <1>3 DEF Chained, UpTo

-----------------------------------------------------------------------------
(* Files that are given back.                                              *)
LEMMA RecoverOthers == ASSUME ExitInv, OthersInv, Recover PROVE OthersInv'
<1>1. /\ pc = "start" /\ file # NoRef /\ pc' = "recover" /\ at' = file /\ file' = file
      /\ size' = EntryAt(file).first /\ pc \in Running
      /\ request.command \in Undeleting
      /\ UNCHANGED <<search, device, memory, session, ended, ghosts, file, output>>
  BY StartRuns DEF Recover, OnFile, Starts, UpTo, Undeleting
<1>2. /\ UNCHANGED <<device, memory>> /\ UNCHANGED <<session, ghosts>>
  BY <1>1
<1>3. /\ ContentsKept' /\ (Careful' <=> Careful) /\ Own' = Own /\ UNCHANGED request
      /\ Careful' => PlaceMine(file)' /\ PlaceMine(at)'
  BY <1>1, <1>2, StillOthers
<1>4. request.command # "recover" => size' \in Own
  <2> SUFFICES ASSUME request.command = "undelete" PROVE EntryAt(file).first \in Own
    BY <1>1 DEF Undeleting
  <2>1. file = Ref(before, "deleted", request.file)
    BY <1>1 DEF OthersInv, StartRight
  <2>2. file \in LookedUp(before, "deleted", request.file)
    BY <1>1, <2>1, LookedUpAre
  <2>3. file \in EntryRefs
    BY <2>2, LookedUpAre
  <2>4. EntryAt(file) = EntryIn(before, file)
    <3>1. EntryAt(file) = block[file.cluster].entries[file.slot] /\ file.cluster \in Clusters
      BY <2>3, EntryAtIs
    <3> QED BY <1>1, <3>1 DEF OthersInv, StartRight, EntryIn
  <2>5. Touched = {EntryIn(before, p).first : p \in LookedUp(before, "deleted", request.file)}
    BY DEF Touched
  <2> QED BY <2>2, <2>4, <2>5 DEF Own
<1>5. PlacesMine'
  BY <1>1, <1>3, <1>4 DEF PlacesMine, ChainsOn, Creation
<1> QED BY <1>1, <1>3, <1>5, StepOthers

LEMMA RecoverReadOthers == ASSUME ExitInv, OthersInv, RecoverRead PROVE OthersInv'
<1> DEFINE n == size :> FAT_EOF @@ TargetSetNext(at, size)
           e == TargetSetEntry(at, size)
<1>1. pc = "recover" /\ pc \in Running
  BY StartRuns DEF RecoverRead
<1>2. CASE Exit
  BY <1>2, ExitOthers
<1>3. CASE /\ size \in Clusters /\ pc' = "recovered"
           /\ \/ request.command = "recover" /\ UNCHANGED <<memory, at>>
              \/ request.command # "recover" /\ Update(n, e) /\ at' = ClusterRef(size)
           /\ UNCHANGED <<device, session, ended, ghosts, file, size>>
  <2>1. /\ at \in EntryRefs \cup ClusterRefs /\ Whole(table, block) /\ size \in Int
    BY <1>1, RecoverIs
  <2>2. UNCHANGED device /\ UNCHANGED <<session, ghosts>> /\ file' = file
        /\ UNCHANGED <<request, before>> /\ pc' # "idle"
    BY <1>3 DEF session
  <2>3. CASE request.command = "recover" /\ UNCHANGED <<memory, at>>
    <3>1. UNCHANGED <<device, memory>>
      BY <2>2, <2>3
    <3>2. ContentsKept' /\ (Careful' => PlaceMine(file)' /\ PlaceMine(at)')
      BY <1>1, <2>2, <2>3, <3>1, StillOthers
    <3>3. PlacesMine'
      BY <1>3, <2>2, <2>3, <3>2 DEF PlacesMine, ChainsOn, Creation
    <3> QED BY <1>3, <3>2, <3>3, StepOthers
  <2>4. CASE request.command # "recover" /\ Update(n, e) /\ at' = ClusterRef(size)
    <3>1. Careful => size \in Own
      BY <1>1, <1>3, <2>4 DEF OthersInv, PlacesMine
    <3>2. NextsRight(n) /\ PlacesRight(e)
      <4>1. NextsRight(TargetSetNext(at, size)) /\ PlacesRight(e)
        BY <2>1, TargetRight
      <4>2. NextsRight(size :> FAT_EOF)
        BY OneRight DEF FAT_EOF
      <4> QED BY <4>1, <4>2, OverRight
    <3>3. Careful => OwnNexts(n) /\ OwnPlaces(e)
      <4>1. Careful => OwnNexts(TargetSetNext(at, size)) /\ OwnPlaces(e)
        BY <1>1, <2>1, RunMine, TargetOwn
      <4>2. Careful => OwnNexts(size :> FAT_EOF)
        BY <3>1, OneOwn
      <4> QED BY <4>1, <4>2, OverOwn
    <3> HIDE DEF n, e
    <3>4. ContentsKept' /\ (Careful' <=> Careful) /\ Own' = Own /\ (Careful' => PlaceMine(file)')
      BY <1>1, <2>2, <2>4, <3>2, <3>3, UpdatedOthers
    <3>5. Careful' => PlaceMine(at)'
      BY <2>1, <2>2, <2>4, <3>1, <3>4, ClusterMineNext
    <3>6. size' = size
      BY <1>3
    <3>7. PlacesMine'
      BY <1>3, <3>1, <3>4, <3>5, <3>6 DEF PlacesMine, ChainsOn, Creation
    <3> QED BY <1>3, <3>4, <3>7, StepOthers
  <2> QED BY <1>3, <2>3, <2>4
<1> QED BY <1>2, <1>3 DEF RecoverRead, SearchAll, Search, UpTo

LEMMA RecoveredOthers == ASSUME ExitInv, OthersInv, Recovered PROVE OthersInv'
<1>1. /\ pc = "recovered" /\ fn = "none" /\ pc \in Running
      /\ size' = result /\ pc' = "recover" /\ file' = file /\ at' = at
      /\ UNCHANGED <<device, memory, session, ended, ghosts, at, file, left, output>>
  BY StartRuns DEF Recovered, UpTo, Answered
<1>2. UNCHANGED <<device, memory>> /\ UNCHANGED <<session, ghosts>>
  BY <1>1
<1>3. /\ ContentsKept' /\ (Careful' <=> Careful) /\ Own' = Own /\ UNCHANGED request
      /\ Careful' => PlaceMine(file)' /\ PlaceMine(at)'
  BY <1>1, <1>2, StillOthers
<1>4. Careful => (result \in Clusters => result \in Own)
  <2>1. result = FAT_ERR \/ (result \in Clusters /\ Free(result))
    BY <1>1 DEF ExitInv, SearchRight, Finding
  <2>2. FAT_ERR \notin Clusters
    BY DEF FAT_ERR, Clusters, FAT_FIRST
  <2> QED BY <2>1, <2>2, FreeIsOwn DEF OthersInv
<1>5. PlacesMine'
  BY <1>1, <1>3, <1>4 DEF PlacesMine, ChainsOn, Creation
<1> QED BY <1>1, <1>3, <1>5, StepOthers

LEMMA RecoverEndOthers == ASSUME ExitInv, OthersInv, RecoverEnd PROVE OthersInv'
<1> DEFINE v == [EntryAt(file) EXCEPT !.state = "live"]
           e == IF request.command = "recover" THEN <<>> ELSE file :> v
<1>1. pc = "recover" /\ DoneUpdate(<<>>, e) /\ pc \in Running
  BY StartRuns DEF RecoverEnd
<1>2. file \in EntryRefs /\ EntryRight(EntryAt(file))
  BY <1>1, RecoverIs
<1>3. EntryRight(v) /\ v.state = "live"
  BY <1>2, FieldsRight, StateStays
<1> HIDE DEF v
<1>4. PlacesRight(e)
  BY <1>2, <1>3, OneRight, NoneRight
<1>5. ASSUME Careful PROVE OwnNexts(<<>>) /\ OwnPlaces(e)
  <2>1. MayHave(file, v)
    BY <1>1, <1>2, <1>3, <1>5, RunMine, EntryMine
  <2> QED BY <2>1, OneOwn, NoneOwn
<1> HIDE DEF e, DoneUpdate
<1> QED BY <1>1, <1>4, <1>5, NoneRight, DoneUpdateOthers

LEMMA SearchExitsOthers == ASSUME OthersInv, SearchExits PROVE OthersInv'
  BY ExitOthers DEF SearchExits

-----------------------------------------------------------------------------
(* Around a command.                                                       *)
LEMMA OpenPlace ==
    ASSUME NEW f, NEW state, state \in {"live", "deleted"}, NEW n, NEW p,
           p = Ref(f, state, n), p \in EntryRefs
    PROVE  /\ p.cluster \in RootIn(f)
           /\ EntryIn(f, p).name = n /\ EntryIn(f, p).state # "end"
<1>1. p \in LookedUp(f, state, n)
  BY LookedUpAre, ReferencesAre
<1> QED BY <1>1, LookedUpAre

LEMMA OpenOthers == ASSUME ExitInv, OthersInv, Open PROVE OthersInv'
<1>1. /\ pc = "idle" /\ pc' = "start" /\ before' = device
      /\ file' = Ref(device, IF request'.command \in Undeleting THEN "deleted" ELSE "live",
                   request'.file)
      /\ at' = IF request'.command = "concat" THEN Ref(device, "live", request'.other) ELSE NoRef
      /\ ~ grown' /\ ~ misplaced' /\ UNCHANGED <<device, table, block>>
  BY DEF Open, UpTo, memory
<1>2. \A c \in Clusters : table[c] = device.table[c] /\ block[c] = device.block[c]
  BY <1>1 DEF ExitInv, MemoryRight
<1>3. StartRight'
  BY <1>1, <1>2 DEF StartRight
<1>4. SequenceRight'
  BY <1>1 DEF SequenceRight
<1>5. ASSUME Careful' PROVE KeptIn(table, block)' /\ KeptIn(device.table, device.block)'
  <2>1. EndsWell(device, Root)
    BY <1>1, <1>5 DEF Careful, Sound
  <2>2. \A c \in RootIn(device) : c \in Clusters /\ device.table[c] # FAT_UNUSED
    BY <2>1, RootUsed
  <2>3. \A c, i : EntryIn(device, EntryRef(c, i)) = device.block[c].entries[i]
    BY DEF EntryIn, EntryRef
  <2> QED BY <1>1, <1>2, <2>2, <2>3 DEF KeptIn, Protected
<1>6. ContentsKept'
  BY <1>5 DEF ContentsKept
<1>7. PlaceMine(file)'
  <2>1. ASSUME file' \in EntryRefs PROVE Writable(file)'
    <3>1. /\ file'.cluster \in RootIn(device) /\ EntryIn(device, file').name = request'.file
          /\ EntryIn(device, file').state # "end"
      BY <1>1, <2>1, OpenPlace
    <3>2. EntryAt(file)' = EntryIn(device, file')
      <4>1. file'.cluster \in Clusters
        BY <2>1, ReferencesAre
      <4> QED BY <1>1, <1>2, <4>1 DEF EntryAt, EntryIn, Cached
    <3> QED BY <1>1, <3>1, <3>2 DEF Writable, MayHave, OthersEntry, NamedFiles
  <2>2. file' \notin ClusterRefs
    <3>1. file' \in EntryRefs \cup {NoRef}
      BY <1>1, LookedUpAre
    <3> QED BY <3>1, ReferencesAre DEF NoRef, NoSlot
  <2> QED BY <2>1, <2>2 DEF PlaceMine
<1>8. PlaceMine(at)'
  <2>1. ASSUME at' \in EntryRefs PROVE Writable(at)'
    <3>1. at' = Ref(device, "live", request'.other)
      BY <1>1, <2>1, ReferencesAre
    <3>2. /\ at'.cluster \in RootIn(device) /\ EntryIn(device, at').name = request'.other
          /\ EntryIn(device, at').state # "end"
      BY <2>1, <3>1, OpenPlace
    <3>3. EntryAt(at)' = EntryIn(device, at')
      <4>1. at'.cluster \in Clusters
        BY <2>1, ReferencesAre
      <4> QED BY <1>1, <1>2, <4>1 DEF EntryAt, EntryIn, Cached
    <3> QED BY <1>1, <3>2, <3>3 DEF Writable, MayHave, OthersEntry, NamedFiles
  <2>2. at' \notin ClusterRefs
    <3>1. at' \in EntryRefs \cup {NoRef}
      BY <1>1, LookedUpAre
    <3> QED BY <3>1, ReferencesAre DEF NoRef, NoSlot
  <2> QED BY <2>1, <2>2 DEF PlaceMine
<1>9. PlacesMine'
  BY <1>1, <1>7, <1>8 DEF PlacesMine, ChainsOn, Creation
<1> QED BY <1>3, <1>4, <1>6, <1>9 DEF OthersInv

LEMMA CloseOthers == ASSUME OthersInv, Close \/ Closed \/ Crash PROVE OthersInv'
<1>1. /\ UNCHANGED <<device, table, block, request, before, grown, misplaced>>
      /\ pc' \in {"flush", "idle", "crashed"}
  BY DEF Close, Closed, Crash, UpTo, memory, session, ghosts
<1>2. ContentsKept'
  BY <1>1, MemoryOthers DEF OthersInv
<1> QED BY <1>1, <1>2, OthersDone DEF Running, Waiting, Finding

LEMMA FlushOthers == ASSUME ExitInv, OthersInv, NEW u, Flush(u) PROVE OthersInv'
<1>1. /\ pc' = "flush" /\ UNCHANGED <<table, block, request, before, grown, misplaced>>
  BY DEF Flush, session, ghosts
<1>2. \A c \in Clusters : /\ device'.table[c] \in {table[c], device.table[c]}
                          /\ device'.block[c] \in {block[c], device.block[c]}
  BY FlushMemory DEF ExitInv
<1>3. ASSUME Careful'
      PROVE  KeptIn(table, block)' /\ KeptIn(device.table, device.block)'
  <2>1. Careful
    BY <1>1, <1>3, FrameSame
  <2>2. KeptIn(table, block) /\ KeptIn(device.table, device.block)
    BY <2>1 DEF OthersInv, ContentsKept
  <2>3. RootIn(before) \subseteq Clusters
    BY <2>1, OwnApart
  <2>4. \A c \in Protected : c \in Clusters
    BY DEF Protected
  <2>5. /\ Protected' = Protected /\ RootIn(before') = RootIn(before)
        /\ \A p : OthersEntry(p)' <=> OthersEntry(p)
    BY <1>1, FrameSame
  <2>6. KeptIn(device'.table, device'.block)
    BY <1>2, <2>2, <2>3, <2>4 DEF KeptIn
  <2> QED BY <1>1, <2>2, <2>5, <2>6 DEF KeptIn
<1>4. ContentsKept'
  BY <1>3 DEF ContentsKept
<1> QED BY <1>1, <1>4, OthersDone DEF Running, Waiting, Finding

LEMMA StutterOthers == ASSUME OthersInv, UNCHANGED vars PROVE OthersInv'
<1>1. /\ UNCHANGED <<device, table, block, request, before, grown, misplaced, pc, at, file>>
      /\ UNCHANGED <<left, size, fn, result, begin, end, start, length, cl, first, count>>
  BY DEF vars, memory, session, ghosts, local, search, locals, arguments, loop
<1>2. /\ ContentsKept' /\ \A q \in EntryRefs : Writable(q) => Writable(q)'
  BY <1>1, MemoryOthers DEF OthersInv
<1>3. (Careful' <=> Careful) /\ Own' = Own /\ (Astray' <=> Astray)
  BY <1>1, FrameSame
<1>4. StartRight'
  BY <1>1 DEF OthersInv, StartRight
<1>5. SequenceRight'
  BY <1>1, <1>3 DEF OthersInv, SequenceRight, SequenceSoFar, Free
<1>6. PlaceMine(file) => PlaceMine(file)'
  BY <1>1, <1>2, <1>3, PlaceStays
<1>7. PlaceMine(at) => PlaceMine(at)'
  BY <1>1, <1>2, <1>3, PlaceStays
<1>8. PlacesMine'
  BY <1>1, <1>3, <1>6, <1>7 DEF OthersInv, PlacesMine, OwnGoesOn
<1> QED BY <1>2, <1>4, <1>5, <1>8 DEF OthersInv

LEMMA InitOthers == Init => OthersInv
<1> SUFFICES ASSUME Init PROVE OthersInv
  OBVIOUS
<1>1. pc = "idle" /\ table = device.table /\ block = device.block /\ before = device
  BY DEF Init
<1>2. ASSUME Careful PROVE KeptIn(table, block)
  <2>1. EndsWell(before, Root)
    BY <1>2 DEF Careful, Sound
  <2>2. \A c \in RootIn(before) : c \in Clusters /\ before.table[c] # FAT_UNUSED
    BY <2>1, RootUsed
  <2>3. \A c, i : EntryIn(before, EntryRef(c, i)) = before.block[c].entries[i]
    BY DEF EntryIn, EntryRef
  <2> QED BY <1>1, <2>2, <2>3 DEF KeptIn, Protected
<1>3. ContentsKept
  BY <1>1, <1>2 DEF ContentsKept
<1> QED BY <1>1, <1>3 DEF OthersInv, StartRight, SequenceRight, PlacesMine, Running, Waiting, Finding

LEMMA OthersNext == ExitInv /\ OthersInv /\ [Next]_vars => OthersInv'
<1> SUFFICES ASSUME ExitInv, OthersInv, [Next]_vars PROVE OthersInv'
  OBVIOUS
<1>1. CASE NotFound \/ SetName \/ SetSize \/ SetFirst \/ Delete \/ SetNext \/ SetLast
           \/ WriteCluster \/ Bads \/ MarkBad \/ ZeroAll \/ Sparse
  BY <1>1, NotFoundOthers, SetNameOthers, SetSizeOthers, SetFirstOthers, DeleteOthers,
     SetNextOthers, SetLastOthers, WriteClusterOthers, BadsOthers, MarkBadOthers,
     ZeroAllOthers, SparseOthers
<1>2. CASE StartCreating \/ Create \/ Grow \/ WriteFile \/ More \/ WritePart \/ Attach
           \/ Written \/ Overwrite
  BY <1>2, StartCreatingOthers, CreateOthers, GrowOthers, WriteFileOthers, MoreOthers,
     WritePartOthers, AttachOthers, WrittenOthers, OverwriteOthers
<1>3. CASE Consecutive \/ Sequence \/ ChainSequence \/ MakeDir \/ DirCluster
           \/ Link \/ Linked \/ DeleteFile \/ Crop \/ Concat
  BY <1>3, ConsecutiveOthers, SequenceOthers, ChainSequenceOthers, MakeDirOthers,
     DirClusterOthers, LinkOthers, LinkedOthers, DeleteFileOthers, CropOthers, ConcatOthers
<1>4. CASE Extend \/ ExtendLoop \/ Extended \/ ExtendEnd
           \/ CreateChain \/ ChainFirst \/ ChainLoop \/ Chained
  BY <1>4, ExtendOthers, ExtendLoopOthers, ExtendedOthers, ExtendEndOthers, CreateChainOthers,
     ChainFirstOthers, ChainLoopOthers, ChainedOthers
<1>5. CASE Recover \/ RecoverRead \/ Recovered \/ RecoverEnd \/ SearchExits \/ Searched
  BY <1>5, RecoverOthers, RecoverReadOthers, RecoveredOthers, RecoverEndOthers,
     SearchExitsOthers, SearchedOthers
<1>6. CASE Open \/ Close \/ Closed \/ Crash \/ \E u \in dirty : Flush(u)
  BY <1>6, OpenOthers, CloseOthers, FlushOthers
<1>7. CASE UNCHANGED vars
  BY <1>7, StutterOthers
<1> QED BY <1>1, <1>2, <1>3, <1>4, <1>5, <1>6, <1>7 DEF Next, Run, Commanded

LEMMA SpecOthers == Spec => [](ExitInv /\ OthersInv)
<1>1. Init => ExitInv /\ OthersInv
  BY InitExit, InitOthers
<1>2. ExitInv /\ OthersInv /\ [Next]_vars => ExitInv' /\ OthersInv'
  BY ExitNext, OthersNext
<1> QED BY <1>1, <1>2, PTL DEF Spec

(* The clusters of a file that is not named are no other's.                *)
LEMMA OtherClusters ==
    ASSUME Careful, NEW p \in Live(before), EntryIn(before, p).name \notin NamedFiles,
           Touched \cap ClustersIn(before, p) = {}, NEW c \in ClustersIn(before, p)
    PROVE  c \in Protected
<1>1. EndsWell(before, EntryIn(before, p).first)
  BY DEF Careful, Sound
<1>2. c \in Clusters /\ before.table[c] # FAT_UNUSED
  BY <1>1, ChainEnding DEF ClustersIn
<1>3. c \notin RootIn(before)
  BY DEF Careful, Sound
<1>4. c \notin NamedChains
  <2> SUFFICES ASSUME NEW q \in Live(before), EntryIn(before, q).name \in NamedFiles,
                      c \in ClustersIn(before, q)
               PROVE  FALSE
    BY DEF NamedChains
  <2>1. q \in Live(before) \ {p}
    OBVIOUS
  <2>2. ClustersIn(before, p) \cap ClustersIn(before, q) = {}
    BY <2>1 DEF Careful, Sound
  <2> QED BY <2>2
<1> QED BY <1>2, <1>3, <1>4 DEF Protected, Own

(* The files are found where they were, as the directory only goes on.     *)
LEMMA OthersFound ==
    ASSUME Careful, KeptIn(device.table, device.block), NEW p \in Live(before),
           EntryIn(before, p).name \notin NamedFiles
    PROVE  p \in Live(device) /\ EntryIn(device, p) = EntryIn(before, p)
<1>1. \A q \in EntryRefs : q.cluster \in RootIn(before) =>
         /\ EntryIn(before, q).state # "end" => EntryIn(device, q).state # "end"
         /\ OthersEntry(q) => EntryIn(device, q) = EntryIn(before, q)
  <2> TAKE q \in EntryRefs
  <2> HAVE q.cluster \in RootIn(before)
  <2>1. q = EntryRef(q.cluster, q.slot) /\ q.slot \in Indices
    BY ReferencesAre
  <2>2. LET r == EntryRef(q.cluster, q.slot)
        IN  /\ EntryIn(before, r).state # "end"
                 => device.block[q.cluster].entries[q.slot].state # "end"
            /\ OthersEntry(r) => device.block[q.cluster].entries[q.slot] = EntryIn(before, r)
    BY <2>1 DEF KeptIn
  <2>3. EntryIn(device, q) = device.block[q.cluster].entries[q.slot]
    BY DEF EntryIn
  <2> QED BY <2>1, <2>2, <2>3, Zenon
<1>2. /\ p \in EntryRefs /\ p.cluster \in RootIn(before) /\ EntryIn(before, p).state = "live"
  BY LiveAre
<1>3. EntryIn(device, p) = EntryIn(before, p)
  BY <1>1, <1>2 DEF OthersEntry
<1>4. /\ Len(Chain(before.table, Root)) <= Len(Chain(device.table, Root))
      /\ \A k \in 1 .. Len(Chain(before.table, Root)) :
            Chain(device.table, Root)[k] = Chain(before.table, Root)[k]
  <2> DEFINE chain == Chain(before.table, Root)
  <2>1. /\ chain \in Seq(Clusters) /\ Len(chain) \in 0 .. Last
        /\ \A k \in 1 .. Len(chain) - 1 : chain[k + 1] = before.table[chain[k]]
    BY ChainIs
  <2>2. ASSUME NEW k \in 1 .. Len(chain) - 1
        PROVE  device.table[chain[k]] = before.table[chain[k]]
    <3>1. k \in DOMAIN chain /\ k + 1 \in DOMAIN chain
      BY <2>1
    <3>2. chain[k] \in RootIn(before) /\ before.table[chain[k]] \in Clusters
      BY <2>1, <3>1 DEF RootIn, ClustersOf
    <3> QED BY <3>2 DEF KeptIn
  <2> QED BY <2>2, ChainGoesOn
<1>5. /\ Len(Entries(before)) <= Len(Entries(device))
      /\ \A k \in 1 .. Len(Entries(before)) : Entries(device)[k] = Entries(before)[k]
  BY <1>4, EntriesGoOn
<1>6. PICK k \in 1 .. Len(Entries(before)) :
         /\ p = Entries(before)[k]
         /\ \A j \in 1 .. k : EntryIn(before, Entries(before)[j]).state # "end"
  BY LiveAre
<1>7. Len(Entries(before)) \in Nat /\ Len(Entries(device)) \in Nat
  BY EntriesAre
<1>8. k \in 1 .. Len(Entries(device)) /\ Entries(device)[k] = p
  BY <1>5, <1>6, <1>7
<1>9. ASSUME NEW j \in 1 .. k
      PROVE  EntryIn(device, Entries(device)[j]).state # "end"
  <2>1. j \in 1 .. Len(Entries(before))
    BY <1>6, <1>7
  <2>2. /\ Entries(before)[j] \in EntryRefs /\ Entries(before)[j].cluster \in RootIn(before)
        /\ Entries(device)[j] = Entries(before)[j]
    <3> DEFINE all == Entries(before)
    <3>1. all \in Seq(EntryRefs) /\ \A i \in 1 .. Len(all) : all[i].cluster \in RootIn(before)
      BY EntriesAre
    <3>2. j \in 1 .. Len(all) /\ Entries(device)[j] = all[j]
      BY <1>5, <2>1
    <3> HIDE DEF all
    <3>3. all[j] \in EntryRefs /\ all[j].cluster \in RootIn(before)
      BY <3>1, <3>2
    <3> QED BY <3>2, <3>3 DEF all
  <2>3. EntryIn(before, Entries(before)[j]).state # "end"
    BY <1>6
  <2> QED BY <1>1, <2>2, <2>3
<1>10. k \in DOMAIN Scanned(device) /\ Scanned(device)[k] = p
  <2>1. k \in 1 .. Len(Scanned(device))
    BY <1>8, <1>9, ScannedAre
  <2> DEFINE s == Scanned(device)
  <2>2. s[k] = Entries(device)[k] /\ s \in Seq(EntryRefs) /\ k \in 1 .. Len(s)
    BY <2>1, ScannedAre
  <2> HIDE DEF s
  <2>3. k \in DOMAIN s
    BY <2>2
  <2>4. k \in DOMAIN s /\ s[k] = p
    BY <1>8, <2>2, <2>3
  <2> QED BY <2>4 DEF s
<1>11. EntryIn(device, p).state = "live"
  BY <1>2, <1>3
<1> QED BY <1>3, <1>10, <1>11 DEF Live

LEMMA OthersFollow == ASSUME ContentsKept PROVE OthersKept
<1> SUFFICES ASSUME Careful, NEW p \in Live(before),
                    EntryIn(before, p).name \notin {request.file, request.other},
                    Touched \cap ClustersIn(before, p) = {}
             PROVE  p \in Live(device) /\ Same(device, before, p)
  BY DEF OthersKept
<1>1. KeptIn(device.table, device.block) /\ EntryIn(before, p).name \notin NamedFiles
  BY DEF ContentsKept, NamedFiles
<1>2. p \in Live(device) /\ EntryIn(device, p) = EntryIn(before, p)
  BY <1>1, OthersFound
<1>3. \A c \in ClustersIn(before, p) :
         device.table[c] = before.table[c] /\ device.block[c] = before.block[c]
  BY <1>1, OtherClusters DEF KeptIn
<1>4. Chain(device.table, EntryIn(before, p).first) = Chain(before.table, EntryIn(before, p).first)
  BY <1>3, ChainSame DEF ClustersIn
<1> QED BY <1>2, <1>3, <1>4 DEF Same, ClustersIn

(* Files that a command does not name stay as they are.                    *)
THEOREM OthersAreKept == Spec => []OthersKept
<1>1. ExitInv /\ OthersInv => OthersKept
  BY OthersFollow DEF OthersInv
<1> QED BY <1>1, SpecOthers, PTL
=============================================================================
