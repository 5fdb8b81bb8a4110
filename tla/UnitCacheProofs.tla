-------------------------- MODULE UnitCacheProofs ---------------------------
(***************************************************************************)
(* What holds of the cache of units for any numbers, units and contents.   *)
(***************************************************************************)
EXTENDS UnitCache, FiniteSetTheorems, TLAPS

(* A dirty unit has data: its content is nowhere else.                     *)
DirtyHasData == \A u \in Units : unit[u].dirty => unit[u].data # NoData

(* Where every read succeeds, no unit has an uninitialised descriptor.     *)
AllOurs == unreadable = {} => \A u \in Units : unit[u].ours

IInv == TypeOK /\ DirtyHasData /\ CacheKeyed /\ AllOurs /\ CleanAgrees

-----------------------------------------------------------------------------
(* Updates of one unit, and of the unit that is destroyed, keep the type.  *)
LEMMA UnitUpdate ==
    ASSUME NEW f \in [Units -> UnitRec], NEW u \in Units, NEW r \in UnitRec
    PROVE  /\ [f EXCEPT ![u] = r] \in [Units -> UnitRec]
           /\ [f EXCEPT ![u] = r][u] = r
           /\ \A w \in Units : w # u => [f EXCEPT ![u] = r][w] = f[w]
  OBVIOUS

LEMMA BlankType == Blank \in UnitRec /\ ~ Blank.dirty /\ Blank.ours
                   /\ Blank.data = NoData /\ Blank.n = NoNumber
  BY DEF Blank, UnitRec

LEMMA CachedUnit ==
    ASSUME TypeOK, NEW n \in Numbers, Cached(n)
    PROVE  cache[n] \in Units /\ unit[cache[n]] \in UnitRec
  BY DEF TypeOK, Cached

LEMMA DestroyedUnits ==
    ASSUME TypeOK, NEW n \in Numbers
    PROVE  /\ Destroyed(n) \in [Units -> UnitRec]
           /\ Cached(n) => Destroyed(n)[cache[n]] = Blank
           /\ \A w \in Units : w # cache[n] => Destroyed(n)[w] = unit[w]
  <1>1. CASE Cached(n)
    BY <1>1, CachedUnit, BlankType, UnitUpdate DEF TypeOK, Destroyed
  <1>2. CASE ~ Cached(n)
    BY <1>2 DEF TypeOK, Destroyed
  <1>3. QED
    BY <1>1, <1>2

(* What a unit may leave on the device is a block.                         *)
LEMMA WrittenType ==
    ASSUME TypeOK, DirtyHasData, NEW n \in Numbers, Dirty(n)
    PROVE  Written(n) \subseteq Blocks /\ Torn(n) \subseteq Blocks
  <1>1. cache[n] \in Units /\ unit[cache[n]] \in UnitRec
    BY CachedUnit DEF Dirty
  <1>2. unit[cache[n]].data \in Blocks
    BY <1>1 DEF Dirty, DirtyHasData, UnitRec
  <1>3. disk[n] \in Blocks /\ Garbage \in Blocks
    BY DEF TypeOK, Blocks
  <1>4. QED
    BY <1>2, <1>3 DEF Written, Torn

-----------------------------------------------------------------------------
(* One lemma for each shape of a step, then one step per operation.        *)

(* A change of the record of a unit that keeps its number.                 *)
LEMMA SameNumber ==
    ASSUME IInv, NEW u \in Units, NEW r \in UnitRec, r.n = unit[u].n,
           unit' = [unit EXCEPT ![u] = r],
           UNCHANGED <<disk, cache, unreadable>>,
           pins' \in [Holders -> Units \cup {NoUnit}],
           r.dirty => r.data # NoData,
           unreadable = {} => r.ours,
           unreadable = {} /\ cache[r.n] = u /\ r.n \in Numbers /\ ~ r.dirty /\ r.data # NoData
              => r.data = disk[r.n]
    PROVE  IInv'
  <1> USE UnitAssumption DEF IInv
  <1>1. /\ unit' \in [Units -> UnitRec] /\ unit'[u] = r
        /\ \A w \in Units : w # u => unit'[w] = unit[w]
    BY UnitUpdate DEF TypeOK
  <1>2. TypeOK'
    BY <1>1 DEF TypeOK
  <1>3. DirtyHasData'
    BY <1>1 DEF DirtyHasData
  <1>4. CacheKeyed'
    BY <1>1, CachedUnit DEF CacheKeyed, Cached, Allocated
  <1>5. AllOurs'
    BY <1>1 DEF AllOurs
  <1>6. CleanAgrees'
    BY <1>1, CachedUnit
       DEF CleanAgrees, CleanMeansWritten, CacheKeyed, Loaded, Dirty, Cached
  <1>7. QED
    BY <1>2, <1>3, <1>4, <1>5, <1>6

(* A dirty unit comes to be at key n, in place of what was there: a unit   *)
(* not allocated before, or one that was at another key.                   *)
LEMMA Placed ==
    ASSUME IInv, NEW n \in Numbers, NEW u \in Units, NEW r \in UnitRec,
           r.n = n, r.data # NoData,
           unreadable = {} => r.ours,
           unreadable = {} /\ ~ r.dirty => r.data = disk[n],
           cache[n] # u,
           unit' = [Destroyed(n) EXCEPT ![u] = r],
           \/ ~ Allocated(u) /\ cache' = [cache EXCEPT ![n] = u]
           \/ Allocated(u) /\ cache' = [cache EXCEPT ![unit[u].n] = NoUnit, ![n] = u],
           UNCHANGED <<disk, pins, unreadable>>
    PROVE  IInv'
  <1> USE UnitAssumption DEF IInv
  <1>1. /\ unit' \in [Units -> UnitRec] /\ unit'[u] = r
        /\ \A w \in Units : w # u => unit'[w] = Destroyed(n)[w]
    BY DestroyedUnits, UnitUpdate
  <1>2. /\ \A w \in Units : w # u /\ w # cache[n] => unit'[w] = unit[w]
        /\ \A w \in Units : w # u /\ w = cache[n] => unit'[w] = Blank
    BY <1>1, DestroyedUnits DEF Cached
  <1>3. /\ cache' \in [Numbers -> Units \cup {NoUnit}]
        /\ cache'[n] = u
        /\ \A m \in Numbers : m # n => cache'[m] = cache[m] \/ (cache'[m] = NoUnit /\ cache[m] = u)
        /\ \A m \in Numbers : m # n => cache'[m] # u
    <2>1. Allocated(u) => unit[u].n \in Numbers /\ cache[unit[u].n] = u
      BY DEF TypeOK, UnitRec, Allocated, CacheKeyed
    <2>2. ~ Allocated(u) => \A m \in Numbers : cache[m] # u
      BY DEF Allocated, CacheKeyed, TypeOK, Cached
    <2>3. \A m \in Numbers : cache[m] = u => unit[u].n = m
      BY DEF CacheKeyed, Cached
    <2>4. QED
      BY <2>1, <2>2, <2>3 DEF TypeOK
  <1>4. TypeOK'
    BY <1>1, <1>3 DEF TypeOK
  <1>5. DirtyHasData'
    BY <1>1, <1>2, BlankType DEF DirtyHasData
  <1>6. CacheKeyed'
    <2>1. ASSUME NEW m \in Numbers, cache'[m] # NoUnit
          PROVE  unit'[cache'[m]].n = m
      <3>1. CASE m = n
        BY <3>1, <1>1, <1>3
      <3>2. CASE m # n
        BY <3>2, <2>1, <1>2, <1>3, CachedUnit DEF CacheKeyed, Cached
      <3>3. QED
        BY <3>1, <3>2
    <2>2. ASSUME NEW w \in Units, unit'[w].n # NoNumber
          PROVE  cache'[unit'[w].n] = w
      <3>1. CASE w = u
        BY <3>1, <1>1, <1>3
      <3>2. CASE w # u
        <4>1. w # cache[n] /\ unit'[w] = unit[w]
          BY <3>2, <2>2, <1>2, BlankType
        <4>2. cache[unit[w].n] = w /\ unit[w].n \in Numbers
          BY <4>1, <2>2 DEF CacheKeyed, Allocated, TypeOK, UnitRec
        <4>3. unit[w].n # n
          BY <4>1, <4>2
        <4>4. QED
          BY <3>2, <4>1, <4>2, <4>3, <1>3
      <3>3. QED
        BY <3>1, <3>2
    <2>3. QED
      BY <2>1, <2>2 DEF CacheKeyed, Cached, Allocated
  <1>7. AllOurs'
    BY <1>1, <1>2, BlankType DEF AllOurs
  <1>8. CleanAgrees'
    <2>1. ASSUME unreadable = {}, NEW m \in Numbers, cache'[m] # NoUnit,
                 unit'[cache'[m]].data # NoData, ~ unit'[cache'[m]].dirty
          PROVE  unit'[cache'[m]].data = disk[m]
      <3>1. CASE m = n
        BY <3>1, <2>1, <1>1, <1>3
      <3>2. CASE m # n
        <4>1. cache'[m] = cache[m] /\ cache[m] \in Units /\ cache[m] # u
          BY <3>2, <2>1, <1>3 DEF TypeOK
        <4>2. cache[m] # cache[n]
          BY <3>2, <4>1, <2>1 DEF CacheKeyed, Cached
        <4>3. unit'[cache[m]] = unit[cache[m]]
          BY <4>1, <4>2, <1>2
        <4>4. QED
          BY <2>1, <4>1, <4>3 DEF CleanAgrees, CleanMeansWritten, Loaded, Dirty, Cached
      <3>3. QED
        BY <3>1, <3>2
    <2>2. QED
      BY <2>1 DEF CleanAgrees, CleanMeansWritten, Loaded, Dirty, Cached
  <1>9. QED
    BY <1>4, <1>5, <1>6, <1>7, <1>8

(* The device comes to hold the data of the units that become clean.       *)
LEMMA Cleaned ==
    ASSUME IInv, NEW W \in SUBSET Numbers,
           \A n \in W : Dirty(n),
           disk' \in [Numbers -> Blocks],
           \A n \in Numbers : n \in W => disk'[n] \in Written(n),
           \A n \in Numbers : ~ Dirty(n) => disk'[n] = disk[n],
           unit' \in [Units -> UnitRec],
           \A w \in Units :
              /\ unit'[w].n = unit[w].n
              /\ unit'[w].data = unit[w].data
              /\ unit'[w].ours = unit[w].ours
              /\ unit'[w].dirty => unit[w].dirty
              /\ unit[w].n \in Numbers \ W => (unit'[w].dirty <=> unit[w].dirty),
           UNCHANGED <<cache, pins, unreadable>>
    PROVE  IInv'
  <1> USE UnitAssumption DEF IInv
  <1>1. TypeOK'
    BY DEF TypeOK
  <1>2. DirtyHasData'
    BY DEF DirtyHasData
  <1>3. CacheKeyed'
    BY CachedUnit DEF CacheKeyed, Cached, Allocated
  <1>4. AllOurs'
    BY DEF AllOurs
  <1>5. CleanAgrees'
    <2>1. ASSUME unreadable = {}, NEW m \in Numbers, Cached(m),
                 unit'[cache[m]].data # NoData, ~ unit'[cache[m]].dirty
          PROVE  unit'[cache[m]].data = disk'[m]
      <3>1. cache[m] \in Units /\ unit[cache[m]].n = m /\ unit[cache[m]].ours
        BY <2>1, CachedUnit DEF CacheKeyed, AllOurs
      <3>2. CASE m \in W
        BY <3>1, <3>2 DEF Written
      <3>3. CASE m \notin W
        BY <2>1, <3>1, <3>3
           DEF CleanAgrees, CleanMeansWritten, Loaded, Dirty
      <3>4. QED
        BY <3>2, <3>3
    <2>2. QED
      BY <2>1 DEF CleanAgrees, CleanMeansWritten, Loaded, Dirty, Cached
  <1>6. QED
    BY <1>1, <1>2, <1>3, <1>4, <1>5

LEMMA DeleteInv ==
    ASSUME IInv, NEW n \in Numbers, Delete(n)
    PROVE  IInv'
  <1> USE UnitAssumption DEF IInv
  <1>1. /\ cache[n] \in Units /\ unit[cache[n]].n = n
        /\ unit' \in [Units -> UnitRec] /\ unit'[cache[n]] = Blank
        /\ \A w \in Units : w # cache[n] => unit'[w] = unit[w]
    BY CachedUnit, DestroyedUnits DEF Delete, CacheKeyed
  <1>2. /\ cache' \in [Numbers -> Units \cup {NoUnit}] /\ cache'[n] = NoUnit
        /\ \A m \in Numbers : m # n => cache'[m] = cache[m]
        /\ UNCHANGED <<disk, pins, unreadable>>
    BY DEF Delete, TypeOK
  <1>3. \A m \in Numbers : cache'[m] # NoUnit =>
           cache'[m] = cache[m] /\ cache[m] \in Units /\ cache[m] # cache[n]
    BY <1>1, <1>2, CachedUnit DEF CacheKeyed, Cached
  <1>4. TypeOK'
    BY <1>1, <1>2 DEF TypeOK
  <1>5. DirtyHasData'
    BY <1>1, BlankType DEF DirtyHasData
  <1>6. CacheKeyed'
    <2>1. ASSUME NEW w \in Units, unit'[w].n # NoNumber
          PROVE  cache'[unit'[w].n] = w
      <3>1. w # cache[n] /\ unit'[w] = unit[w]
        BY <2>1, <1>1, BlankType
      <3>2. cache[unit[w].n] = w /\ unit[w].n \in Numbers
        BY <2>1, <3>1 DEF CacheKeyed, Allocated, TypeOK, UnitRec
      <3>3. QED
        BY <3>1, <3>2, <1>2
    <2>2. QED
      BY <2>1, <1>1, <1>3 DEF CacheKeyed, Cached, Allocated
  <1>7. AllOurs'
    BY <1>1, <1>2, BlankType DEF AllOurs
  <1>8. CleanAgrees'
    BY <1>1, <1>2, <1>3 DEF CleanAgrees, CleanMeansWritten, Loaded, Dirty, Cached
  <1>9. QED
    BY <1>4, <1>5, <1>6, <1>7, <1>8

LEMMA FreeCacheInv ==
    ASSUME IInv, FreeCache
    PROVE  IInv'
  <1> USE UnitAssumption DEF IInv
  <1>1. ASSUME NEW w \in Units
        PROVE  /\ unit'[w] \in UnitRec
               /\ unit'[w].n = unit[w].n
               /\ \/ unit'[w].data = unit[w].data
                  \/ unit'[w].data = NoData /\ ~ unit[w].dirty
               /\ unit'[w].ours = unit[w].ours
               /\ unit'[w].dirty = unit[w].dirty
    <2>1. unit[w] \in UnitRec
      BY DEF TypeOK
    <2>2. \/ unit'[w] = unit[w]
          \/ ~ unit[w].dirty /\ unit'[w] = [unit[w] EXCEPT !.data = NoData]
      BY DEF FreeCache
    <2>3. QED
      BY <2>1, <2>2 DEF UnitRec
  <1>2. unit' \in [Units -> UnitRec] /\ UNCHANGED <<disk, cache, pins, unreadable>>
    <2>1. unit' = [w \in Units |-> unit'[w]]
      BY DEF FreeCache
    <2>2. QED
      BY <1>1, <2>1 DEF FreeCache
  <1>3. TypeOK'
    BY <1>2 DEF TypeOK
  <1>4. DirtyHasData'
    BY <1>1 DEF DirtyHasData
  <1>5. CacheKeyed'
    BY <1>1, <1>2, CachedUnit DEF CacheKeyed, Cached, Allocated
  <1>6. AllOurs'
    BY <1>1, <1>2 DEF AllOurs
  <1>7. CleanAgrees'
    BY <1>1, <1>2, CachedUnit DEF CleanAgrees, CleanMeansWritten, Loaded, Dirty, Cached
  <1>8. QED
    BY <1>3, <1>4, <1>5, <1>6, <1>7

(* A program that starts has nothing in cache.                             *)
LEMMA EmptyInv ==
    ASSUME disk \in [Numbers -> Blocks], unreadable \subseteq Numbers,
           cache = [n \in Numbers |-> NoUnit],
           unit = [u \in Units |-> Blank],
           pins = [h \in Holders |-> NoUnit]
    PROVE  IInv
  BY UnitAssumption, BlankType
     DEF IInv, TypeOK, DirtyHasData, CacheKeyed, AllOurs, CleanAgrees,
         CleanMeansWritten, Loaded, Cached, Allocated

LEMMA DeallocateInv ==
    ASSUME IInv, Deallocate
    PROVE  IInv'
  BY UnitAssumption, BlankType
     DEF Deallocate, IInv, TypeOK, DirtyHasData, CacheKeyed, AllOurs, CleanAgrees,
         CleanMeansWritten, Loaded, Cached, Allocated

LEMMA SwapInv ==
    ASSUME IInv, NEW n \in Numbers, NEW m \in Numbers, Swap(n, m)
    PROVE  IInv'
  <1> DEFINE u == cache[n]
             w == cache[m]
             r == [unit[u] EXCEPT !.n = m, !.dirty = TRUE]
             q == [unit[w] EXCEPT !.n = n, !.dirty = TRUE]
  <1> USE UnitAssumption DEF IInv
  <1>1. /\ u \in Units /\ unit[u] \in UnitRec /\ unit[u].n = n
        /\ w \in Units /\ unit[w] \in UnitRec /\ unit[w].n = m
        /\ n # m /\ u # w
    BY CachedUnit DEF Swap, Loaded, CacheKeyed
  <1>2. /\ r \in UnitRec /\ r.n = m /\ r.data = unit[u].data /\ r.dirty
        /\ r.ours = unit[u].ours
    BY <1>1 DEF UnitRec
  <1>3. /\ q \in UnitRec /\ q.n = n /\ q.data = unit[w].data /\ q.dirty
        /\ q.ours = unit[w].ours
    BY <1>1 DEF UnitRec
  <1>4. unit' = [[unit EXCEPT ![u] = r] EXCEPT ![w] = q]
    <2>1. [unit EXCEPT ![u] = r][w] = unit[w]
      BY <1>1 DEF TypeOK
    <2>2. QED
      BY <2>1 DEF Swap
  <1> HIDE DEF r, q
  <1>5. /\ unit' \in [Units -> UnitRec]
        /\ unit'[u] = r /\ unit'[w] = q
        /\ \A x \in Units : x # u /\ x # w => unit'[x] = unit[x]
    BY <1>1, <1>2, <1>3, <1>4 DEF TypeOK
  <1>6. /\ cache' \in [Numbers -> Units \cup {NoUnit}]
        /\ cache'[n] = w /\ cache'[m] = u
        /\ \A k \in Numbers : k # n /\ k # m => cache'[k] = cache[k]
        /\ UNCHANGED <<disk, pins, unreadable>>
    BY <1>1 DEF Swap, TypeOK
  <1>7. TypeOK'
    BY <1>5, <1>6 DEF TypeOK
  <1>8. DirtyHasData'
    <2>1. unit[u].data # NoData /\ unit[w].data # NoData
      BY DEF Swap, Loaded
    <2>2. QED
      BY <2>1, <1>1, <1>2, <1>3, <1>5 DEF DirtyHasData
  <1>9. CacheKeyed'
    <2>1. ASSUME NEW k \in Numbers, cache'[k] # NoUnit
          PROVE  unit'[cache'[k]].n = k
      <3>1. CASE k = n \/ k = m
        BY <3>1, <1>2, <1>3, <1>5, <1>6
      <3>2. CASE k # n /\ k # m
        <4>1. cache'[k] = cache[k] /\ cache[k] \in Units /\ unit[cache[k]].n = k
          BY <2>1, <3>2, <1>6, CachedUnit DEF CacheKeyed, Cached
        <4>2. cache[k] # u /\ cache[k] # w
          BY <3>2, <4>1, <1>1
        <4>3. QED
          BY <4>1, <4>2, <1>5
      <3>3. QED
        BY <3>1, <3>2
    <2>2. ASSUME NEW x \in Units, unit'[x].n # NoNumber
          PROVE  cache'[unit'[x].n] = x
      <3>1. CASE x = u \/ x = w
        BY <3>1, <1>2, <1>3, <1>5, <1>6
      <3>2. CASE x # u /\ x # w
        <4>1. unit'[x] = unit[x]
          BY <3>2, <1>5
        <4>2. cache[unit[x].n] = x /\ unit[x].n \in Numbers
          BY <2>2, <4>1 DEF CacheKeyed, Allocated, TypeOK, UnitRec
        <4>3. unit[x].n # n /\ unit[x].n # m
          BY <3>2, <4>2
        <4>4. QED
          BY <4>1, <4>2, <4>3, <1>6
      <3>3. QED
        BY <3>1, <3>2
    <2>3. QED
      BY <2>1, <2>2 DEF CacheKeyed, Cached, Allocated
  <1>10. AllOurs'
    BY <1>1, <1>2, <1>3, <1>5, <1>6 DEF AllOurs
  <1>11. CleanAgrees'
    <2>1. ASSUME unreadable = {}, NEW k \in Numbers, cache'[k] # NoUnit,
                 unit'[cache'[k]].data # NoData, ~ unit'[cache'[k]].dirty
          PROVE  unit'[cache'[k]].data = disk[k]
      <3>1. k # n /\ k # m
        BY <2>1, <1>2, <1>3, <1>5, <1>6
      <3>2. /\ cache'[k] = cache[k] /\ cache[k] \in Units
            /\ cache[k] # u /\ cache[k] # w
        BY <2>1, <3>1, <1>1, <1>6, CachedUnit DEF CacheKeyed, Cached
      <3>3. QED
        BY <2>1, <3>2, <1>5
           DEF CleanAgrees, CleanMeansWritten, Loaded, Dirty, Cached
    <2>2. QED
      BY <2>1, <1>6 DEF CleanAgrees, CleanMeansWritten, Loaded, Dirty, Cached
  <1>12. QED
    BY <1>7, <1>8, <1>9, <1>10, <1>11

-----------------------------------------------------------------------------
LEMMA InvStep == IInv /\ [Next]_vars => IInv'
  <1> SUFFICES ASSUME IInv, [Next]_vars
               PROVE  IInv'
    OBVIOUS
  <1> USE UnitAssumption
  <1>0. TypeOK /\ CacheKeyed /\ AllOurs /\ DirtyHasData /\ CleanAgrees
    BY DEF IInv
  <1>1. ASSUME NEW n \in Numbers, Reload(n)
        PROVE  IInv'
    <2> DEFINE r == [unit[cache[n]] EXCEPT
                        !.data = disk[n], !.dirty = FALSE, !.ours = TRUE]
    <2>1. /\ cache[n] \in Units /\ unit[cache[n]] \in UnitRec
          /\ unit[cache[n]].n = n /\ disk[n] \in Blocks
      BY <1>0, <1>1, CachedUnit DEF Reload, CacheKeyed, TypeOK
    <2>2. /\ r \in UnitRec /\ r.n = n /\ r.data = disk[n]
          /\ r.data # NoData /\ ~ r.dirty /\ r.ours
      BY <2>1 DEF UnitRec, Blocks, UnitAssumption
    <2>3. /\ unit' = [unit EXCEPT ![cache[n]] = r]
          /\ UNCHANGED <<disk, cache, pins, unreadable>>
      BY <1>1 DEF Reload
    <2> HIDE DEF r
    <2>4. QED
      BY <1>0, <2>1, <2>2, <2>3, SameNumber DEF TypeOK
  <1>2. ASSUME NEW n \in Numbers, ReloadGarbage(n)
        PROVE  IInv'
    <2> DEFINE r == [unit[cache[n]] EXCEPT !.data = Garbage]
    <2>1. /\ cache[n] \in Units /\ unit[cache[n]] \in UnitRec
          /\ unit[cache[n]].n = n
      BY <1>0, <1>2, CachedUnit DEF ReloadGarbage, CacheKeyed
    <2>2. /\ r \in UnitRec /\ r.n = n /\ r.data = Garbage
          /\ r.data # NoData /\ r.ours = unit[cache[n]].ours
      BY <2>1 DEF UnitRec, Blocks, UnitAssumption
    <2>3. /\ unit' = [unit EXCEPT ![cache[n]] = r]
          /\ UNCHANGED <<disk, cache, pins, unreadable>>
      BY <1>2 DEF ReloadGarbage
    <2>4. unreadable # {}
      BY <1>0, <1>2, <2>1 DEF ReloadGarbage, AllOurs
    <2> HIDE DEF r
    <2>5. QED
      BY <1>0, <2>1, <2>2, <2>3, <2>4, SameNumber DEF TypeOK
  <1>3. ASSUME NEW n \in Numbers, NEW v \in Blocks, Modify(n, v)
        PROVE  IInv'
    <2> DEFINE r == [unit[cache[n]] EXCEPT !.data = v, !.dirty = TRUE]
    <2>1. /\ cache[n] \in Units /\ unit[cache[n]] \in UnitRec
          /\ unit[cache[n]].n = n
      BY <1>0, <1>3, CachedUnit DEF Modify, Loaded, CacheKeyed
    <2>2. /\ r \in UnitRec /\ r.n = n /\ r.dirty
          /\ r.data # NoData /\ r.ours = unit[cache[n]].ours
      BY <2>1 DEF UnitRec, Blocks, UnitAssumption
    <2>3. /\ unit' = [unit EXCEPT ![cache[n]] = r]
          /\ UNCHANGED <<disk, cache, pins, unreadable>>
      BY <1>3 DEF Modify
    <2> HIDE DEF r
    <2>4. QED
      BY <1>0, <2>1, <2>2, <2>3, SameNumber DEF TypeOK, AllOurs
  <1>4. ASSUME NEW n \in Numbers, Free(n)
        PROVE  IInv'
    <2> DEFINE r == [unit[cache[n]] EXCEPT !.data = NoData]
    <2>1. /\ cache[n] \in Units /\ unit[cache[n]] \in UnitRec
          /\ unit[cache[n]].n = n /\ ~ unit[cache[n]].dirty
      BY <1>0, <1>4, CachedUnit DEF Free, Loaded, Dirty, CacheKeyed
    <2>2. /\ r \in UnitRec /\ r.n = n /\ ~ r.dirty /\ r.data = NoData
          /\ r.ours = unit[cache[n]].ours
      BY <2>1 DEF UnitRec
    <2>3. /\ unit' = [unit EXCEPT ![cache[n]] = r]
          /\ UNCHANGED <<disk, cache, pins, unreadable>>
      BY <2>1, <1>4 DEF Free
    <2> HIDE DEF r
    <2>4. QED
      BY <1>0, <2>1, <2>2, <2>3, SameNumber DEF TypeOK, AllOurs
  <1>5. ASSUME NEW h \in Holders, NEW n \in Numbers, Pin(h, n)
        PROVE  IInv'
    <2> DEFINE u == cache[n]
               r == [unit[u] EXCEPT !.refer = @ + 1]
    <2>1. u \in Units /\ unit[u] \in UnitRec
      BY <1>0, <1>5, CachedUnit DEF Pin
    <2>2. /\ r \in UnitRec /\ r.n = unit[u].n /\ r.dirty = unit[u].dirty
          /\ r.data = unit[u].data /\ r.ours = unit[u].ours
      BY <2>1 DEF UnitRec
    <2>3. /\ unit' = [unit EXCEPT ![u] = r]
          /\ pins' \in [Holders -> Units \cup {NoUnit}]
          /\ UNCHANGED <<disk, cache, unreadable>>
      BY <1>0, <2>1, <1>5 DEF Pin, TypeOK
    <2> HIDE DEF r
    <2>4. unreadable = {} /\ cache[r.n] = u /\ r.n \in Numbers /\ ~ r.dirty
             /\ r.data # NoData => r.data = disk[r.n]
      BY <1>0, <2>1, <2>2
         DEF CleanAgrees, CleanMeansWritten, Loaded, Cached, Dirty
    <2>5. QED
      BY <1>0, <2>1, <2>2, <2>3, <2>4, SameNumber DEF AllOurs, DirtyHasData
  <1>6. ASSUME NEW h \in Holders, Unpin(h)
        PROVE  IInv'
    <2> DEFINE u == pins[h]
               r == [unit[u] EXCEPT !.refer = @ - 1]
    <2>1. u \in Units /\ unit[u] \in UnitRec
      BY <1>0, <1>6 DEF Unpin, TypeOK
    <2>2. /\ r \in UnitRec /\ r.n = unit[u].n /\ r.dirty = unit[u].dirty
          /\ r.data = unit[u].data /\ r.ours = unit[u].ours
      BY <2>1 DEF UnitRec
    <2>3. /\ unit' = [unit EXCEPT ![u] = r]
          /\ pins' \in [Holders -> Units \cup {NoUnit}]
          /\ UNCHANGED <<disk, cache, unreadable>>
      BY <1>0, <2>1, <1>6 DEF Unpin, TypeOK
    <2> HIDE DEF r
    <2>4. unreadable = {} /\ cache[r.n] = u /\ r.n \in Numbers /\ ~ r.dirty
             /\ r.data # NoData => r.data = disk[r.n]
      BY <1>0, <2>1, <2>2
         DEF CleanAgrees, CleanMeansWritten, Loaded, Cached, Dirty
    <2>5. QED
      BY <1>0, <2>1, <2>2, <2>3, <2>4, SameNumber DEF AllOurs, DirtyHasData
  <1>7. ASSUME NEW n \in Numbers, NEW u \in Units, GetNew(n, u)
        PROVE  IInv'
    <2> DEFINE r == [Blank EXCEPT !.n = n, !.data = disk[n]]
    <2>1. disk[n] \in Blocks /\ disk[n] # NoData
      BY <1>0 DEF TypeOK, Blocks, UnitAssumption
    <2>2. /\ r \in UnitRec /\ r.n = n /\ r.data = disk[n] /\ ~ r.dirty /\ r.ours
      BY <2>1, BlankType DEF UnitRec
    <2>3. /\ unit' = [Destroyed(n) EXCEPT ![u] = r]
          /\ cache' = [cache EXCEPT ![n] = u]
          /\ ~ Allocated(u) /\ cache[n] # u
          /\ UNCHANGED <<disk, pins, unreadable>>
      BY <1>7 DEF GetNew, Destroyed, Cached, UnitAssumption
    <2> HIDE DEF r
    <2>4. QED
      BY <2>1, <2>2, <2>3, Placed
  <1>8. ASSUME NEW n \in Numbers, NEW u \in Units, NEW v \in Blocks,
               NEW fd \in BOOLEAN, NEW rep \in BOOLEAN, Insert(n, u, v, fd, rep),
               fd \/ unreadable # {}
        PROVE  IInv'
    <2> DEFINE r == [Blank EXCEPT !.n = n, !.data = v, !.dirty = TRUE, !.ours = fd]
    <2>1. /\ r \in UnitRec /\ r.n = n /\ r.data = v /\ v # NoData /\ r.dirty
          /\ r.ours = fd
      BY BlankType DEF UnitRec, Blocks, UnitAssumption
    <2>2. /\ unit' = [Destroyed(n) EXCEPT ![u] = r]
          /\ cache' = [cache EXCEPT ![n] = u]
          /\ ~ Allocated(u)
          /\ UNCHANGED <<disk, pins, unreadable>>
      BY <1>8 DEF Insert
    <2>3. cache[n] # u
      BY <1>0, <2>2 DEF CacheKeyed, Cached, Allocated, UnitAssumption
    <2> HIDE DEF r
    <2>4. QED
      BY <1>8, <2>1, <2>2, <2>3, Placed
  <1>9. ASSUME NEW n \in Numbers, NEW u \in Units, CreateUnread(n, u)
        PROVE  IInv'
    BY <1>8, <1>9 DEF CreateUnread, Blocks
  <1>10. ASSUME NEW n \in Numbers, NEW m \in Numbers, NEW u \in Units,
                CopyTo(n, m, u)
         PROVE  IInv'
    <2> DEFINE r == [unit[cache[n]] EXCEPT !.n = m, !.dirty = TRUE]
    <2>1. cache[n] \in Units /\ unit[cache[n]] \in UnitRec
          /\ unit[cache[n]].data # NoData
      BY <1>0, <1>10, CachedUnit DEF CopyTo, Loaded
    <2>2. /\ r \in UnitRec /\ r.n = m /\ r.data = unit[cache[n]].data
          /\ r.dirty /\ r.ours = unit[cache[n]].ours
      BY <2>1 DEF UnitRec
    <2>3. /\ unit' = [Destroyed(m) EXCEPT ![u] = r]
          /\ cache' = [cache EXCEPT ![m] = u]
          /\ ~ Allocated(u)
          /\ UNCHANGED <<disk, pins, unreadable>>
      BY <1>10 DEF CopyTo
    <2>4. cache[m] # u
      BY <1>0, <2>3 DEF CacheKeyed, Cached, Allocated, UnitAssumption
    <2> HIDE DEF r
    <2>5. QED
      BY <1>0, <2>1, <2>2, <2>3, <2>4, Placed DEF AllOurs
  <1>11. ASSUME NEW n \in Numbers, NEW m \in Numbers, Move(n, m)
         PROVE  IInv'
    <2> DEFINE u == cache[n]
               r == [unit[u] EXCEPT !.n = m, !.dirty = TRUE]
    <2>1. /\ u \in Units /\ unit[u] \in UnitRec /\ unit[u].n = n
          /\ unit[u].data # NoData /\ n # m
      BY <1>0, <1>11, CachedUnit DEF Move, Loaded, CacheKeyed
    <2>2. /\ r \in UnitRec /\ r.n = m /\ r.data = unit[u].data
          /\ r.dirty /\ r.ours = unit[u].ours
      BY <2>1 DEF UnitRec
    <2>3. /\ unit' = [Destroyed(m) EXCEPT ![u] = r]
          /\ cache' = [cache EXCEPT ![unit[u].n] = NoUnit, ![m] = u]
          /\ Allocated(u)
          /\ UNCHANGED <<disk, pins, unreadable>>
      BY <1>11, <2>1 DEF Move, Allocated, UnitAssumption
    <2>4. cache[m] # u
      BY <1>0, <2>1 DEF CacheKeyed, Cached, UnitAssumption
    <2> HIDE DEF r
    <2>5. QED
      BY <1>0, <2>1, <2>2, <2>3, <2>4, Placed DEF AllOurs
  <1>12. ASSUME NEW n \in Numbers, WriteBack(n)
         PROVE  IInv'
    <2>1. /\ cache[n] \in Units /\ unit[cache[n]] \in UnitRec
          /\ unit[cache[n]].n = n /\ Dirty(n)
      BY <1>0, <1>12, CachedUnit DEF WriteBack, Dirty, CacheKeyed
    <2>2. PICK v \in Written(n) : disk' = [disk EXCEPT ![n] = v]
      BY <1>12 DEF WriteBack
    <2>3. v \in Blocks
      BY <1>0, <2>1, <2>2, WrittenType
    <2>4. unit' = [unit EXCEPT ![cache[n]].dirty = FALSE]
          /\ UNCHANGED <<cache, pins, unreadable>>
      BY <1>12 DEF WriteBack
    <2>5. [unit[cache[n]] EXCEPT !.dirty = FALSE] \in UnitRec
      BY <2>1 DEF UnitRec
    <2>6. /\ unit' \in [Units -> UnitRec]
          /\ \A w \in Units : w # cache[n] => unit'[w] = unit[w]
          /\ unit'[cache[n]] = [unit[cache[n]] EXCEPT !.dirty = FALSE]
      BY <1>0, <2>1, <2>4, <2>5, UnitUpdate DEF TypeOK
    <2>7. ASSUME NEW w \in Units
          PROVE  /\ unit'[w].n = unit[w].n
                 /\ unit'[w].data = unit[w].data
                 /\ unit'[w].ours = unit[w].ours
                 /\ unit'[w].dirty => unit[w].dirty
                 /\ unit[w].n \in Numbers \ {n} => (unit'[w].dirty <=> unit[w].dirty)
      BY <2>1, <2>6 DEF UnitRec
    <2>8. /\ disk' \in [Numbers -> Blocks] /\ disk'[n] = v
          /\ \A k \in Numbers : k # n => disk'[k] = disk[k]
      BY <1>0, <2>2, <2>3 DEF TypeOK
    <2>9. \A k \in Numbers : (k \in {n} => disk'[k] \in Written(k))
                             /\ (~ Dirty(k) => disk'[k] = disk[k])
      BY <2>1, <2>2, <2>8
    <2>10. {n} \in SUBSET Numbers /\ \A k \in {n} : Dirty(k)
      BY <2>1
    <2> HIDE DEF Next
    <2>11. QED
      BY <2>4, <2>6, <2>7, <2>8, <2>9, <2>10, Cleaned
  <1>13. ASSUME NEW n \in Numbers, WriteBackFails(n)
         PROVE  IInv'
    <2>1. PICK v \in Torn(n) : disk' = [disk EXCEPT ![n] = v]
      BY <1>13 DEF WriteBackFails
    <2>2. Dirty(n) /\ UNCHANGED <<cache, unit, pins, unreadable>>
      BY <1>13 DEF WriteBackFails, MayFail
    <2>3. v \in Blocks
      BY <1>0, <2>1, <2>2, WrittenType
    <2>4. /\ disk' \in [Numbers -> Blocks]
          /\ \A k \in Numbers : k # n => disk'[k] = disk[k]
      BY <1>0, <2>1, <2>3 DEF TypeOK
    <2>5. QED
      BY <1>0, <2>2, <2>4
         DEF IInv, TypeOK, DirtyHasData, CacheKeyed, AllOurs, CleanAgrees,
             CleanMeansWritten, Loaded, Dirty, Cached, Allocated
  <1>14. ASSUME NEW failed \in SUBSET {n \in Numbers : MayFail(n)}, Flush(failed)
         PROVE  IInv'
    <2> DEFINE W == {n \in Numbers : Dirty(n)} \ failed
    <2>1. /\ disk' \in [Numbers -> Blocks]
          /\ \A n \in Numbers : n \in W => disk'[n] \in Written(n)
          /\ \A n \in Numbers : ~ Dirty(n) => disk'[n] = disk[n]
          /\ UNCHANGED <<cache, pins, unreadable>>
      BY <1>14 DEF Flush, MayFail
    <2>2. \A w \in Units : unit[w] \in UnitRec
      BY <1>0 DEF TypeOK
    <2>3. unit' = [w \in Units |-> [unit[w] EXCEPT !.dirty = @ /\ unit[w].n \in failed]]
      BY <1>14 DEF Flush
    <2>4. ASSUME NEW w \in Units
          PROVE  /\ unit'[w] \in UnitRec
                 /\ unit'[w].n = unit[w].n
                 /\ unit'[w].data = unit[w].data
                 /\ unit'[w].ours = unit[w].ours
                 /\ unit'[w].dirty = (unit[w].dirty /\ unit[w].n \in failed)
      BY <2>2, <2>3 DEF UnitRec
    <2>5. ASSUME NEW w \in Units, unit[w].n \in Numbers \ W
          PROVE  unit[w].dirty => unit[w].n \in failed
      BY <1>0, <2>5 DEF CacheKeyed, Allocated, Dirty, Cached, UnitAssumption
    <2>6. unit' \in [Units -> UnitRec]
      BY <2>3, <2>4
    <2>7. W \in SUBSET Numbers /\ \A n \in W : Dirty(n)
      OBVIOUS
    <2>8. ASSUME NEW w \in Units
          PROVE  /\ unit'[w].dirty => unit[w].dirty
                 /\ unit[w].n \in Numbers \ W => (unit'[w].dirty <=> unit[w].dirty)
      BY <2>4, <2>5
    <2> HIDE DEF W, Next
    <2>9. QED
      BY <2>1, <2>4, <2>6, <2>7, <2>8, Cleaned, SMTT(60)
  <1>15. ASSUME UNCHANGED vars
         PROVE  IInv'
    BY <1>15
       DEF vars, IInv, TypeOK, DirtyHasData, CacheKeyed, AllOurs, CleanAgrees,
           CleanMeansWritten, Loaded, Dirty, Cached, Allocated
  <1>16. \A n, m \in Numbers, u \in Units, v \in Data, rep \in BOOLEAN :
            v \in Blocks /\ TRUE \in BOOLEAN
    BY DEF Blocks
  <1>17. QED
    BY <1>1, <1>2, <1>3, <1>4, <1>5, <1>6, <1>7, <1>8, <1>9, <1>10, <1>11,
       <1>12, <1>13, <1>14, <1>15, <1>16, DeleteInv, FreeCacheInv, DeallocateInv, SwapInv
       DEF Next

LEMMA InitInv == Init => IInv
  BY EmptyInv DEF Init, Blocks

(* The inductive invariant of the cache: its operations, in any order and   *)
(* with any errors of the device, keep every conjunct of it.                *)
THEOREM Invariance == Spec => []IInv
  <1>1. QED
    BY InitInv, InvStep, PTL DEF Spec

(* Whatever the operations, their order and the errors of the device, the  *)
(* values of the variables keep their types.                               *)
THEOREM TypeCorrect == Spec => []TypeOK
  <1>1. IInv => TypeOK
    BY DEF IInv
  <1>2. QED
    BY <1>1, Invariance, PTL

(* A search of the tree by number finds the unit with that number, and no  *)
(* unit is in the tree twice or allocated out of it: fatunitmove() and     *)
(* fatunitswap() change the key of units that callers point to.            *)
THEOREM Keyed == Spec => []CacheKeyed
  <1>1. IInv => CacheKeyed
    BY DEF IInv
  <1>2. QED
    BY <1>1, Invariance, PTL

(* If reads do not fail, a unit that is not dirty has the content of the   *)
(* device, failed writes or not: dropping it from the cache loses nothing. *)
THEOREM CleanCorrect == Spec => []CleanAgrees
  <1>1. IInv => CleanAgrees
    BY DEF IInv
  <1>2. QED
    BY <1>1, Invariance, PTL

-----------------------------------------------------------------------------
(* The block seen at one number.                                           *)
At(k) == IF Loaded(k) THEN unit[cache[k]].data ELSE disk[k]

LEMMA ContentAt == /\ Content = [k \in Numbers |-> At(k)]
                   /\ Content' = [k \in Numbers |-> At(k)']
  BY DEF Content, At

LEMMA ContentType == IInv => Content \in [Numbers -> Blocks]
  <1> SUFFICES ASSUME IInv, NEW k \in Numbers
               PROVE  At(k) \in Blocks
    BY ContentAt
  <1>1. Loaded(k) => unit[cache[k]] \in UnitRec
    BY CachedUnit DEF IInv, Loaded
  <1>2. QED
    BY <1>1 DEF IInv, TypeOK, At, Loaded, UnitRec

(* Only the program that starts next may see another device.               *)
LEMMA UnreadableStep == [Next]_vars => unreadable' = unreadable
  BY DEF Next, vars, Reload, ReloadGarbage, Modify, Free, Pin, Unpin, GetNew,
         Insert, CreateUnread, CopyTo, Move, Swap, WriteBack, WriteBackFails,
         Flush, Delete, FreeCache, Deallocate

(* Where a unit is renumbered to n, at n is its data and elsewhere, unless *)
(* it was there before, what was there before.                             *)
LEMMA PlacedContent ==
    ASSUME IInv, NEW n \in Numbers, NEW u \in Units, NEW r \in UnitRec,
           r.data # NoData, cache[n] # u,
           unit' = [Destroyed(n) EXCEPT ![u] = r],
           \/ ~ Allocated(u) /\ cache' = [cache EXCEPT ![n] = u]
           \/ Allocated(u) /\ cache' = [cache EXCEPT ![unit[u].n] = NoUnit, ![n] = u],
           UNCHANGED disk
    PROVE  /\ At(n)' = r.data /\ (Dirty(n)' <=> r.dirty)
           /\ \A k \in Numbers : k # n /\ (Allocated(u) => k # unit[u].n)
                 => At(k)' = At(k) /\ (Dirty(k)' <=> Dirty(k))
           /\ \A k \in Numbers : Allocated(u) /\ k = unit[u].n
                 => At(k)' = disk[k] /\ ~ Dirty(k)'
  <1> USE UnitAssumption DEF IInv
  <1>1. /\ unit' \in [Units -> UnitRec] /\ unit'[u] = r
        /\ \A w \in Units : w # u /\ w # cache[n] => unit'[w] = unit[w]
    BY DestroyedUnits, UnitUpdate
  <1>2. Allocated(u) => unit[u].n \in Numbers /\ unit[u].n # n
    BY DEF CacheKeyed, Allocated, TypeOK, UnitRec
  <1>3. /\ cache'[n] = u
        /\ \A k \in Numbers : k # n /\ (Allocated(u) => k # unit[u].n)
              => cache'[k] = cache[k]
        /\ Allocated(u) => cache'[unit[u].n] = NoUnit
    BY <1>2 DEF TypeOK
  <1>4. At(n)' = r.data /\ (Dirty(n)' <=> r.dirty)
    BY <1>1, <1>3 DEF At, Loaded, Cached, Dirty
  <1>5. ASSUME NEW k \in Numbers, k # n, Allocated(u) => k # unit[u].n
        PROVE  At(k)' = At(k) /\ (Dirty(k)' <=> Dirty(k))
    <2>1. cache'[k] = cache[k]
      BY <1>3, <1>5
    <2>2. cache[k] # NoUnit =>
             cache[k] \in Units /\ cache[k] # u /\ cache[k] # cache[n]
      <3>1. cache[k] # NoUnit => cache[k] \in Units /\ unit[cache[k]].n = k
        BY CachedUnit DEF CacheKeyed, Cached
      <3>2. cache[n] # NoUnit => unit[cache[n]].n = n
        BY DEF CacheKeyed, Cached
      <3>3. QED
        BY <1>5, <3>1, <3>2 DEF Allocated
    <2>3. cache[k] # NoUnit => unit'[cache'[k]] = unit[cache[k]]
      BY <2>1, <2>2, <1>1
    <2>4. disk'[k] = disk[k]
      OBVIOUS
    <2>5. CASE cache[k] = NoUnit
      BY <2>1, <2>4, <2>5 DEF At, Loaded, Cached, Dirty
    <2>6. CASE cache[k] # NoUnit
      <3>1. unit'[cache'[k]].data = unit[cache[k]].data
        BY <2>3, <2>6
      <3>2. (Loaded(k)' <=> Loaded(k)) /\ (Dirty(k)' <=> Dirty(k))
        BY <2>1, <2>3, <2>6, <3>1 DEF Loaded, Cached, Dirty
      <3>3. QED
        BY <2>4, <3>1, <3>2 DEF At
    <2>7. QED
      BY <2>5, <2>6
  <1>6. \A k \in Numbers : Allocated(u) /\ k = unit[u].n
           => At(k)' = disk[k] /\ ~ Dirty(k)'
    BY <1>3 DEF At, Loaded, Cached, Dirty
  <1>7. QED
    BY <1>4, <1>5, <1>6

(* A unit that is not dirty hides nothing.                                 *)
LEMMA CleanContent ==
    ASSUME IInv, unreadable = {}, NEW k \in Numbers, ~ Dirty(k)
    PROVE  At(k) = disk[k]
  BY DEF IInv, CleanAgrees, CleanMeansWritten, At

(* Every step is one of the block store's, or none.                        *)
LEMMA StepRefines ==
    ASSUME IInv, IInv', [Next]_vars
    PROVE  [Store!Next]_Store!svars
  <1> USE UnitAssumption
  <1>0. TypeOK /\ DirtyHasData /\ CacheKeyed /\ AllOurs /\ CleanAgrees
    BY DEF IInv
  <1>1. unreadable' = unreadable
    BY UnreadableStep
  <1>2. /\ Content \in [Numbers -> Blocks] /\ Content' \in [Numbers -> Blocks]
        /\ disk \in [Numbers -> Blocks] /\ disk' \in [Numbers -> Blocks]
    <2>1. (IInv => Content \in [Numbers -> Blocks])'
      BY ContentType, PTL
    <2>2. QED
      BY <2>1, ContentType DEF IInv, TypeOK
  <1>3. CASE unreadable # {}
    <2>1. Store!Unspecified
      BY <1>2, <1>3 DEF Store!Unspecified, Unsaved
    <2>2. UNCHANGED (unreadable = {})
      BY <1>1
    <2>3. QED
      BY <2>1, <2>2 DEF Store!Next
  <1>4. CASE unreadable = {}
    <2>0. \A w \in Units : unit[w].ours
      BY <1>0, <1>4 DEF AllOurs
    <2>s. ASSUME \A k \in Numbers : At(k)' = At(k) /\ (Dirty(k)' <=> Dirty(k)),
                 disk' = disk
          PROVE  [Store!Next]_Store!svars
      <3>1. Content' = Content
        BY <2>s, ContentAt
      <3>2. Unsaved' = Unsaved
        BY <2>s DEF Unsaved
      <3>3. QED
        BY <3>1, <3>2, <2>s, <1>1 DEF Store!svars
    <2>p. ASSUME \A k \in Numbers : At(k)' = At(k) /\ (Dirty(k)' => Dirty(k)),
                 \A k \in Numbers : ~ Dirty(k) => disk'[k] = disk[k],
                 \A k \in Numbers : Dirty(k) /\ ~ Dirty(k)' => disk'[k] = At(k)
          PROVE  [Store!Next]_Store!svars
      <3>1. Content' = Content
        BY <2>p, ContentAt
      <3>2. Unsaved' \subseteq Unsaved
        BY <2>p DEF Unsaved
      <3>3. \A k \in Numbers \ Unsaved : disk'[k] = disk[k]
        BY <2>p DEF Unsaved
      <3>4. \A k \in Unsaved \ Unsaved' : disk'[k] = Content[k]
        BY <2>p, ContentAt DEF Unsaved
      <3>5. Store!Persist
        BY <3>1, <3>2, <3>3, <3>4, <1>2 DEF Store!Persist
      <3>6. QED
        BY <3>5, <1>1 DEF Store!Next
    <2>w. ASSUME NEW n \in Numbers, NEW v \in Blocks, At(n)' = v, Dirty(n)',
                 \A k \in Numbers : k # n => At(k)' = At(k) /\ (Dirty(k)' <=> Dirty(k)),
                 disk' = disk
          PROVE  [Store!Next]_Store!svars
      <3>1. Content' = [Content EXCEPT ![n] = v]
        BY <2>w, ContentAt
      <3>2. Unsaved' = Unsaved \cup {n}
        BY <2>w DEF Unsaved
      <3>3. Store!Write(n, v)
        BY <3>1, <3>2, <2>w DEF Store!Write
      <3>4. QED
        BY <3>3, <1>1 DEF Store!Next
    (* Steps that change the record of one unit, not its data.           *)
    <2>r. ASSUME NEW u \in Units, NEW r \in UnitRec, r.data = unit[u].data,
                 r.dirty = unit[u].dirty,
                 unit' = [unit EXCEPT ![u] = r], UNCHANGED <<cache, disk>>
          PROVE  [Store!Next]_Store!svars
      <3>1. ASSUME NEW k \in Numbers
            PROVE  At(k)' = At(k) /\ (Dirty(k)' <=> Dirty(k))
        <4>1. Cached(k) => /\ unit'[cache[k]].data = unit[cache[k]].data
                           /\ unit'[cache[k]].dirty = unit[cache[k]].dirty
          BY <1>0, <2>r, CachedUnit, UnitUpdate DEF TypeOK
        <4>2. (Loaded(k)' <=> Loaded(k)) /\ (Dirty(k)' <=> Dirty(k))
          BY <4>1, <2>r DEF Loaded, Cached, Dirty
        <4>3. QED
          BY <4>1, <4>2, <2>r DEF At, Loaded
      <3>2. QED
        BY <3>1, <2>s, <2>r
    (* Steps that change the data of one unit.                           *)
    <2>d. ASSUME NEW n \in Numbers, Cached(n), NEW r \in UnitRec,
                 unit' = [unit EXCEPT ![cache[n]] = r], UNCHANGED <<cache, disk>>
          PROVE  /\ At(n)' = IF r.data # NoData THEN r.data ELSE disk[n]
                 /\ Dirty(n)' <=> r.dirty
                 /\ \A k \in Numbers :
                       k # n => At(k)' = At(k) /\ (Dirty(k)' <=> Dirty(k))
      <3>1. /\ cache[n] \in Units /\ unit[cache[n]].n = n
            /\ unit'[cache[n]] = r
            /\ \A w \in Units : w # cache[n] => unit'[w] = unit[w]
        BY <1>0, <2>d, CachedUnit, UnitUpdate DEF TypeOK, CacheKeyed
      <3>2. /\ At(n)' = IF r.data # NoData THEN r.data ELSE disk[n]
            /\ Dirty(n)' <=> r.dirty
        BY <3>1, <2>d DEF At, Loaded, Cached, Dirty
      <3>3. ASSUME NEW k \in Numbers, k # n
            PROVE  At(k)' = At(k) /\ (Dirty(k)' <=> Dirty(k))
        <4>1. Cached(k) => unit'[cache[k]] = unit[cache[k]]
          BY <1>0, <3>1, <3>3, CachedUnit DEF CacheKeyed
        <4>2. (Loaded(k)' <=> Loaded(k)) /\ (Dirty(k)' <=> Dirty(k))
          BY <4>1, <2>d DEF Loaded, Cached, Dirty
        <4>3. QED
          BY <4>1, <4>2, <2>d DEF At, Loaded
      <3>4. QED
        BY <3>2, <3>3
    <2>1. ASSUME NEW n \in Numbers, Reload(n)
          PROVE  [Store!Next]_Store!svars
      <3> DEFINE r == [unit[cache[n]] EXCEPT
                          !.data = disk[n], !.dirty = FALSE, !.ours = TRUE]
      <3>1. cache[n] \in Units /\ unit[cache[n]] \in UnitRec /\ disk[n] \in Blocks
        BY <1>0, <2>1, CachedUnit DEF Reload, TypeOK
      <3>2. r \in UnitRec /\ r.data = disk[n] /\ r.data # NoData /\ ~ r.dirty
        BY <3>1 DEF UnitRec, Blocks, UnitAssumption
      <3>3. /\ unit' = [unit EXCEPT ![cache[n]] = r] /\ Cached(n)
            /\ UNCHANGED <<cache, disk>>
        BY <2>1 DEF Reload
      <3> HIDE DEF r
      <3>4. At(n) = disk[n] /\ ~ Dirty(n)
        BY <1>0, <2>1, <3>1 DEF Reload, At, Dirty, Loaded, DirtyHasData
      <3>5. QED
        BY <2>d, <2>s, <3>2, <3>3, <3>4
    <2>2. ASSUME NEW n \in Numbers, ReloadGarbage(n)
          PROVE  FALSE
      BY <1>0, <1>4, <2>0, <2>2, CachedUnit DEF ReloadGarbage
    <2>3. ASSUME NEW n \in Numbers, NEW v \in Blocks, Modify(n, v)
          PROVE  [Store!Next]_Store!svars
      <3> DEFINE r == [unit[cache[n]] EXCEPT !.data = v, !.dirty = TRUE]
      <3>1. cache[n] \in Units /\ unit[cache[n]] \in UnitRec
        BY <1>0, <2>3, CachedUnit DEF Modify, Loaded
      <3>2. r \in UnitRec /\ r.data = v /\ v # NoData /\ r.dirty
        BY <3>1 DEF UnitRec, Blocks, UnitAssumption
      <3>3. /\ unit' = [unit EXCEPT ![cache[n]] = r] /\ Cached(n)
            /\ UNCHANGED <<cache, disk>>
        BY <2>3 DEF Modify, Loaded
      <3> HIDE DEF r
      <3>4. QED
        BY <2>d, <2>w, <3>2, <3>3
    <2>4. ASSUME NEW n \in Numbers, Free(n)
          PROVE  [Store!Next]_Store!svars
      <3> DEFINE r == [unit[cache[n]] EXCEPT !.data = NoData]
      <3>1. cache[n] \in Units /\ unit[cache[n]] \in UnitRec
        BY <1>0, <2>4, CachedUnit DEF Free, Loaded
      <3>2. r \in UnitRec /\ r.data = NoData /\ ~ r.dirty
        BY <3>1, <2>4 DEF UnitRec, Free, Loaded, Dirty
      <3>3. /\ unit' = [unit EXCEPT ![cache[n]] = r] /\ Cached(n)
            /\ UNCHANGED <<cache, disk>>
        BY <3>1, <2>4 DEF Free, Loaded
      <3>4. At(n) = disk[n] /\ ~ Dirty(n)
        BY <1>4, <2>4, CleanContent DEF Free
      <3> HIDE DEF r
      <3>5. QED
        BY <2>d, <2>s, <3>2, <3>3, <3>4
    <2>5. ASSUME NEW h \in Holders, NEW n \in Numbers, Pin(h, n)
          PROVE  [Store!Next]_Store!svars
      <3> DEFINE r == [unit[cache[n]] EXCEPT !.refer = @ + 1]
      <3>1. cache[n] \in Units /\ unit[cache[n]] \in UnitRec
        BY <1>0, <2>5, CachedUnit DEF Pin
      <3>2. /\ r \in UnitRec
            /\ r.data = unit[cache[n]].data /\ r.dirty = unit[cache[n]].dirty
        BY <3>1 DEF UnitRec
      <3>3. unit' = [unit EXCEPT ![cache[n]] = r] /\ UNCHANGED <<cache, disk>>
        BY <3>1, <2>5 DEF Pin
      <3> HIDE DEF r
      <3>4. QED
        BY <2>r, <3>1, <3>2, <3>3
    <2>6. ASSUME NEW h \in Holders, Unpin(h)
          PROVE  [Store!Next]_Store!svars
      <3> DEFINE r == [unit[pins[h]] EXCEPT !.refer = @ - 1]
      <3>1. pins[h] \in Units /\ unit[pins[h]] \in UnitRec
        BY <1>0, <2>6 DEF Unpin, TypeOK
      <3>2. /\ r \in UnitRec
            /\ r.data = unit[pins[h]].data /\ r.dirty = unit[pins[h]].dirty
        BY <3>1 DEF UnitRec
      <3>3. unit' = [unit EXCEPT ![pins[h]] = r] /\ UNCHANGED <<cache, disk>>
        BY <3>1, <2>6 DEF Unpin
      <3> HIDE DEF r
      <3>4. QED
        BY <2>r, <3>1, <3>2, <3>3
    <2>7. ASSUME NEW n \in Numbers, NEW u \in Units, GetNew(n, u)
          PROVE  [Store!Next]_Store!svars
      <3> DEFINE r == [Blank EXCEPT !.n = n, !.data = disk[n]]
      <3>1. disk[n] \in Blocks /\ disk[n] # NoData
        BY <1>0 DEF TypeOK, Blocks, UnitAssumption
      <3>2. r \in UnitRec /\ r.data = disk[n] /\ ~ r.dirty
        BY <3>1, BlankType DEF UnitRec
      <3>3. /\ unit' = [Destroyed(n) EXCEPT ![u] = r]
            /\ cache' = [cache EXCEPT ![n] = u]
            /\ ~ Allocated(u) /\ cache[n] # u /\ disk' = disk
        BY <2>7 DEF GetNew, Destroyed, Cached, UnitAssumption
      <3>4. At(n) = disk[n] /\ ~ Dirty(n)
        BY <2>7 DEF GetNew, At, Loaded, Dirty
      <3> HIDE DEF r
      <3>5. QED
        BY <2>s, <3>1, <3>2, <3>3, <3>4, PlacedContent
    <2>8. ASSUME NEW n \in Numbers, NEW u \in Units, NEW v \in Blocks,
                 NEW fd \in BOOLEAN, NEW rep \in BOOLEAN, Insert(n, u, v, fd, rep)
          PROVE  [Store!Next]_Store!svars
      <3> DEFINE r == [Blank EXCEPT !.n = n, !.data = v, !.dirty = TRUE, !.ours = fd]
      <3>1. r \in UnitRec /\ r.data = v /\ v # NoData /\ r.dirty
        BY BlankType DEF UnitRec, Blocks, UnitAssumption
      <3>2. /\ unit' = [Destroyed(n) EXCEPT ![u] = r]
            /\ cache' = [cache EXCEPT ![n] = u]
            /\ ~ Allocated(u) /\ disk' = disk
        BY <2>8 DEF Insert
      <3>3. cache[n] # u
        BY <1>0, <3>2 DEF CacheKeyed, Cached, Allocated, UnitAssumption
      <3> HIDE DEF r
      <3>4. QED
        BY <2>w, <3>1, <3>2, <3>3, PlacedContent
    <2>9. ASSUME NEW n \in Numbers, NEW u \in Units, CreateUnread(n, u)
          PROVE  FALSE
      BY <1>4, <2>9 DEF CreateUnread
    <2>10. ASSUME NEW n \in Numbers, NEW m \in Numbers, NEW u \in Units,
                  CopyTo(n, m, u)
           PROVE  [Store!Next]_Store!svars
      <3> DEFINE r == [unit[cache[n]] EXCEPT !.n = m, !.dirty = TRUE]
      <3>1. cache[n] \in Units /\ unit[cache[n]] \in UnitRec
            /\ unit[cache[n]].data \in Blocks
        BY <1>0, <2>10, CachedUnit DEF CopyTo, Loaded, UnitRec
      <3>2. /\ r \in UnitRec /\ r.dirty
            /\ r.data = unit[cache[n]].data /\ r.data # NoData
        BY <3>1 DEF UnitRec, Blocks, UnitAssumption
      <3>3. /\ unit' = [Destroyed(m) EXCEPT ![u] = r]
            /\ cache' = [cache EXCEPT ![m] = u]
            /\ ~ Allocated(u) /\ disk' = disk
        BY <2>10 DEF CopyTo
      <3>4. cache[m] # u
        BY <1>0, <3>3 DEF CacheKeyed, Cached, Allocated, UnitAssumption
      <3> HIDE DEF r
      <3>5. /\ At(m)' = unit[cache[n]].data /\ Dirty(m)'
            /\ \A k \in Numbers : k # m => At(k)' = At(k) /\ (Dirty(k)' <=> Dirty(k))
        BY <3>2, <3>3, <3>4, PlacedContent
      <3>6. QED
        BY <2>w, <3>1, <3>3, <3>5
    <2>11. ASSUME NEW n \in Numbers, NEW m \in Numbers, Move(n, m)
           PROVE  [Store!Next]_Store!svars
      <3> DEFINE u == cache[n]
                 r == [unit[u] EXCEPT !.n = m, !.dirty = TRUE]
      <3>1. /\ u \in Units /\ unit[u] \in UnitRec /\ unit[u].n = n
            /\ unit[u].data \in Blocks /\ At(n) = unit[u].data /\ n # m
        BY <1>0, <2>11, CachedUnit DEF Move, Loaded, CacheKeyed, UnitRec, At
      <3>2. r \in UnitRec /\ r.data = unit[u].data /\ r.data # NoData /\ r.dirty
        BY <3>1 DEF UnitRec, Blocks, UnitAssumption
      <3>3. /\ unit' = [Destroyed(m) EXCEPT ![u] = r]
            /\ cache' = [cache EXCEPT ![unit[u].n] = NoUnit, ![m] = u]
            /\ Allocated(u) /\ disk' = disk
        BY <2>11, <3>1 DEF Move, Allocated, UnitAssumption
      <3>4. cache[m] # u
        BY <1>0, <3>1 DEF CacheKeyed, Cached, UnitAssumption
      <3> HIDE DEF r
      <3>5. /\ At(m)' = At(n) /\ Dirty(m)' /\ At(n)' = disk[n] /\ ~ Dirty(n)'
            /\ \A k \in Numbers :
                  k # n /\ k # m => At(k)' = At(k) /\ (Dirty(k)' <=> Dirty(k))
        BY <3>1, <3>2, <3>3, <3>4, PlacedContent
      <3>6. /\ Content' = [Content EXCEPT ![m] = Content[n], ![n] = disk[n]]
            /\ Unsaved' = (Unsaved \ {n}) \cup {m}
        <4>1. Content' = [Content EXCEPT ![m] = Content[n], ![n] = disk[n]]
          BY <3>1, <3>5, ContentAt
        <4>2. QED
          BY <3>1, <3>5, <4>1 DEF Unsaved
      <3>7. Store!Move(n, m)
        BY <3>3, <3>6 DEF Store!Move
      <3>8. QED
        BY <3>1, <3>7, <1>1 DEF Store!Next
    <2>12. ASSUME NEW n \in Numbers, NEW m \in Numbers, Swap(n, m)
           PROVE  [Store!Next]_Store!svars
      <3> DEFINE u == cache[n]
                 w == cache[m]
      <3>1. /\ u \in Units /\ unit[u] \in UnitRec /\ unit[u].n = n
            /\ w \in Units /\ unit[w] \in UnitRec /\ unit[w].n = m
            /\ n # m /\ u # w /\ unit[u].data # NoData /\ unit[w].data # NoData
        BY <1>0, <2>12, CachedUnit DEF Swap, Loaded, CacheKeyed
      <3>2. /\ unit'[u].data = unit[u].data /\ unit'[w].data = unit[w].data
            /\ unit'[u].dirty /\ unit'[w].dirty
            /\ \A x \in Units : x # u /\ x # w => unit'[x] = unit[x]
        BY <1>0, <3>1, <2>12 DEF Swap, TypeOK, UnitRec
      <3>3. /\ cache'[n] = w /\ cache'[m] = u /\ disk' = disk
            /\ \A k \in Numbers : k # n /\ k # m => cache'[k] = cache[k]
        BY <1>0, <3>1, <2>12 DEF Swap, TypeOK
      <3>4. /\ At(n) = unit[u].data /\ At(m) = unit[w].data
            /\ At(n)' = unit[w].data /\ At(m)' = unit[u].data
            /\ Dirty(n)' /\ Dirty(m)'
        BY <3>1, <3>2, <3>3, UnitAssumption DEF At, Loaded, Cached, Dirty
      <3>5. ASSUME NEW k \in Numbers, k # n, k # m
            PROVE  At(k)' = At(k) /\ (Dirty(k)' <=> Dirty(k))
        <4>1. cache'[k] = cache[k]
          BY <3>3, <3>5
        <4>2. Cached(k) => unit'[cache[k]] = unit[cache[k]]
          BY <1>0, <3>1, <3>2, <3>5, CachedUnit DEF CacheKeyed
        <4>3. (Loaded(k)' <=> Loaded(k)) /\ (Dirty(k)' <=> Dirty(k))
          BY <4>1, <4>2 DEF Loaded, Cached, Dirty
        <4>4. QED
          BY <4>1, <4>2, <4>3, <3>3 DEF At, Loaded
      <3>6. /\ Content' = [Content EXCEPT ![n] = Content[m], ![m] = Content[n]]
            /\ Unsaved' = Unsaved \cup {n, m}
        <4>1. Content' = [Content EXCEPT ![n] = Content[m], ![m] = Content[n]]
          BY <3>1, <3>4, <3>5, ContentAt
        <4>2. QED
          BY <3>1, <3>4, <3>5, <4>1 DEF Unsaved
      <3>7. Store!Swap(n, m)
        BY <3>3, <3>6 DEF Store!Swap
      <3>8. QED
        BY <3>1, <3>7, <1>1 DEF Store!Next
    (* Steps that write the blocks of dirty units, and keep their data.  *)
    <2>k. ASSUME UNCHANGED cache,
                 \A w \in Units : unit'[w].data = unit[w].data,
                 \A w \in Units : unit'[w].dirty => unit[w].dirty,
                 \A k \in Numbers : ~ Dirty(k) => disk'[k] = disk[k],
                 \A k \in Numbers : Dirty(k) /\ ~ unit'[cache[k]].dirty
                    => disk'[k] = unit[cache[k]].data
          PROVE  [Store!Next]_Store!svars
      <3>1. ASSUME NEW k \in Numbers
            PROVE  /\ At(k)' = At(k) /\ (Dirty(k)' => Dirty(k))
                   /\ Dirty(k) /\ ~ Dirty(k)' => disk'[k] = At(k)
        <4>1. Cached(k) => unit'[cache[k]].data = unit[cache[k]].data
          BY <1>0, <2>k, CachedUnit
        <4>2. Loaded(k)' <=> Loaded(k)
          BY <4>1, <2>k DEF Loaded, Cached
        <4>3. Dirty(k) => Loaded(k)
          BY <1>0, CachedUnit DEF Dirty, Loaded, DirtyHasData
        <4>4. At(k)' = At(k)
          BY <4>1, <4>2, <4>3, <2>k DEF At, Loaded
        <4>5. Dirty(k)' => Dirty(k)
          BY <1>0, <2>k, CachedUnit DEF Dirty, Cached
        <4>6. Dirty(k) /\ ~ Dirty(k)' => disk'[k] = At(k)
          BY <4>3, <2>k DEF Dirty, Cached, At
        <4>7. QED
          BY <4>4, <4>5, <4>6
      <3>2. QED
        BY <3>1, <2>k, <2>p
    <2>13. ASSUME NEW n \in Numbers, WriteBack(n)
           PROVE  [Store!Next]_Store!svars
      <3>1. cache[n] \in Units /\ unit[cache[n]] \in UnitRec /\ Dirty(n)
        BY <1>0, <2>13, CachedUnit DEF WriteBack, Dirty
      <3>2. \A w \in Units : unit'[w].data = unit[w].data
        BY <1>0, <3>1, <2>13 DEF WriteBack, TypeOK, UnitRec
      <3>3. \A k \in Numbers : ~ Dirty(k) => disk'[k] = disk[k]
        BY <1>2, <3>1, <2>13 DEF WriteBack
      <3>4. /\ \A w \in Units : unit'[w].dirty => unit[w].dirty
            /\ \A w \in Units : w # cache[n] => unit'[w].dirty = unit[w].dirty
        BY <1>0, <3>1, <2>13 DEF WriteBack, TypeOK, UnitRec
      <3>5. disk'[n] = unit[cache[n]].data
        BY <1>2, <2>0, <3>1, <2>13 DEF WriteBack, Written
      <3>6. ASSUME NEW k \in Numbers, Dirty(k), ~ unit'[cache[k]].dirty
            PROVE  disk'[k] = unit[cache[k]].data
        <4>1. cache[k] \in Units /\ unit[cache[k]].n = k /\ unit[cache[n]].n = n
          BY <1>0, <3>1, <3>6, CachedUnit DEF Dirty, CacheKeyed
        <4>2. cache[k] = cache[n]
          BY <3>4, <3>6, <4>1 DEF Dirty
        <4>3. QED
          BY <3>5, <4>1, <4>2
      <3>7. QED
        BY <3>2, <3>3, <3>4, <3>6, <2>k, <2>13 DEF WriteBack
    <2>14. ASSUME NEW n \in Numbers, WriteBackFails(n)
           PROVE  [Store!Next]_Store!svars
      <3>1. Dirty(n) /\ UNCHANGED <<cache, unit>>
        BY <2>14 DEF WriteBackFails, MayFail
      <3>2. \A k \in Numbers : ~ Dirty(k) => disk'[k] = disk[k]
        BY <1>2, <3>1, <2>14 DEF WriteBackFails
      <3>3. QED
        BY <3>1, <3>2, <2>k DEF Dirty
    <2>15. ASSUME NEW failed \in SUBSET {n \in Numbers : MayFail(n)}, Flush(failed)
           PROVE  [Store!Next]_Store!svars
      <3>1. \A w \in Units : unit'[w].data = unit[w].data
        BY <1>0, <2>15 DEF Flush, TypeOK, UnitRec
      <3>2. \A k \in Numbers : ~ Dirty(k) => disk'[k] = disk[k]
        BY <2>15 DEF Flush, MayFail
      <3>3. \A w \in Units : unit'[w].dirty = (unit[w].dirty /\ unit[w].n \in failed)
        BY <1>0, <2>15 DEF Flush, TypeOK, UnitRec
      <3>4. ASSUME NEW k \in Numbers, Dirty(k), ~ unit'[cache[k]].dirty
            PROVE  disk'[k] = unit[cache[k]].data
        <4>1. cache[k] \in Units /\ unit[cache[k]].n = k /\ k \notin failed
          BY <1>0, <3>3, <3>4, CachedUnit DEF Dirty, CacheKeyed
        <4>2. disk'[k] \in Written(k)
          BY <4>1, <3>4, <2>15 DEF Flush
        <4>3. QED
          BY <4>1, <4>2, <2>0 DEF Written
      <3>5. QED
        BY <3>1, <3>2, <3>3, <3>4, <2>k, <2>15 DEF Flush
    <2>16. ASSUME NEW n \in Numbers, Delete(n)
           PROVE  [Store!Next]_Store!svars
      <3>1. /\ cache[n] \in Units /\ unit[cache[n]].n = n
            /\ \A w \in Units : w # cache[n] => unit'[w] = unit[w]
        BY <1>0, <2>16, CachedUnit, DestroyedUnits DEF Delete, CacheKeyed
      <3>2. /\ cache'[n] = NoUnit /\ disk' = disk
            /\ \A k \in Numbers : k # n => cache'[k] = cache[k]
        BY <1>0, <2>16 DEF Delete, TypeOK
      <3>3. ASSUME NEW k \in Numbers
            PROVE  At(k)' = At(k) /\ (Dirty(k)' <=> Dirty(k))
        <4>1. CASE k = n
          <5>1. At(n) = disk[n] /\ ~ Dirty(n)
            BY <1>4, <2>16, CleanContent DEF Delete
          <5>2. QED
            BY <4>1, <5>1, <3>2 DEF At, Loaded, Cached, Dirty
        <4>2. CASE k # n
          <5>1. Cached(k) => unit'[cache[k]] = unit[cache[k]]
            BY <1>0, <3>1, <4>2, CachedUnit DEF CacheKeyed
          <5>2. (Loaded(k)' <=> Loaded(k)) /\ (Dirty(k)' <=> Dirty(k))
            BY <4>2, <5>1, <3>2 DEF Loaded, Cached, Dirty
          <5>3. QED
            BY <4>2, <5>1, <5>2, <3>2 DEF At, Loaded
        <4>3. QED
          BY <4>1, <4>2
      <3>4. QED
        BY <3>2, <3>3, <2>s
    <2>17. ASSUME FreeCache
           PROVE  [Store!Next]_Store!svars
      <3>1. UNCHANGED <<cache, disk>>
        BY <2>17 DEF FreeCache
      <3>2. ASSUME NEW k \in Numbers
            PROVE  At(k)' = At(k) /\ (Dirty(k)' <=> Dirty(k))
        <4>1. CASE ~ Cached(k)
          BY <4>1, <3>1 DEF At, Loaded, Cached, Dirty
        <4>2. CASE Cached(k) /\ unit'[cache[k]] = unit[cache[k]]
          <5>1. (Loaded(k)' <=> Loaded(k)) /\ (Dirty(k)' <=> Dirty(k))
            BY <4>2, <3>1 DEF Loaded, Cached, Dirty
          <5>2. QED
            BY <5>1, <4>2, <3>1 DEF At
        <4>3. CASE Cached(k) /\ unit'[cache[k]] # unit[cache[k]]
          <5>1. cache[k] \in Units /\ unit[cache[k]] \in UnitRec
            BY <1>0, <4>3, CachedUnit
          <5>2. /\ ~ unit[cache[k]].dirty
                /\ unit'[cache[k]] = [unit[cache[k]] EXCEPT !.data = NoData]
            BY <5>1, <4>3, <2>17 DEF FreeCache
          <5>3. unit'[cache[k]].data = NoData /\ ~ unit'[cache[k]].dirty
            BY <5>1, <5>2 DEF UnitRec
          <5>4. At(k) = disk[k] /\ ~ Dirty(k)
            BY <1>4, <5>2, CleanContent DEF Dirty
          <5>5. QED
            BY <5>3, <5>4, <3>1 DEF At, Loaded, Dirty
        <4>4. QED
          BY <4>1, <4>2, <4>3
      <3>3. QED
        BY <3>1, <3>2, <2>s
    <2>18. ASSUME Deallocate
           PROVE  [Store!Next]_Store!svars
      <3>1. disk' = disk /\ \A k \in Numbers : At(k)' = disk[k]
        BY <2>18 DEF Deallocate, At, Loaded, Cached
      <3>2. Content' = disk /\ Unsaved' = {}
        <4>1. Content' = disk
          BY <3>1, <1>2, ContentAt
        <4>2. QED
          BY <4>1, <2>18 DEF Unsaved, Dirty, Cached, Deallocate
      <3>3. QED
        BY <3>1, <3>2, <1>1 DEF Store!Next, Store!Crash
    <2>19. ASSUME UNCHANGED vars
           PROVE  [Store!Next]_Store!svars
      BY <2>19 DEF vars, Store!svars, Content, Loaded, Cached, Unsaved, Dirty
    <2>20. \A v \in Data : v \in Blocks
      BY DEF Blocks
    <2>21. QED
      BY <2>1, <2>2, <2>3, <2>4, <2>5, <2>6, <2>7, <2>8, <2>9, <2>10, <2>11,
         <2>12, <2>13, <2>14, <2>15, <2>16, <2>17, <2>18, <2>19, <2>20
         DEF Next
  <1>5. QED
    BY <1>3, <1>4

(* The cache implements the store of one block per number: freeing, reloading *)
(* and evicting units is never seen, moves and swaps act on contents, failed  *)
(* writes are not seen before a crash.                                        *)
THEOREM Refinement == Spec => ImplementsStore
  <1>1. Init => Store!Init
    <2> SUFFICES ASSUME Init
                 PROVE  Store!Init
      OBVIOUS
    <2>1. disk \in [Numbers -> Blocks]
      BY DEF Init, Blocks
    <2>2. Content = disk /\ Unsaved = {}
      BY <2>1 DEF Init, Content, Loaded, Cached, Unsaved, Dirty
    <2>3. (unreadable = {}) \in BOOLEAN
      OBVIOUS
    <2>4. QED
      BY <2>1, <2>2, <2>3 DEF Store!Init
  <1>2. IInv /\ IInv' /\ [Next]_vars => [Store!Next]_Store!svars
    BY StepRefines
  <1>3. QED
    BY <1>1, <1>2, Invariance, PTL DEF Spec, ImplementsStore, Store!StoreSpec

-----------------------------------------------------------------------------
(* The parts of the program that count themselves in u->refer, for any     *)
(* numbers, units, contents and holders.                                   *)

HoldersOf(u) == {h \in Holders : pins[h] = u}

(* A unit is counted at least once by each of its holders, and is there;   *)
(* it may be counted more: fatunitcopy() copies the counter.               *)
PinsCounted ==
    \A u \in Units :
        /\ IsFiniteSet(HoldersOf(u))
        /\ Cardinality(HoldersOf(u)) <= unit[u].refer
        /\ HoldersOf(u) # {} => Allocated(u)

LEMMA CountedOnce ==
    ASSUME TypeOK, PinsCounted, NEW u \in Units
    PROVE  /\ unit[u].refer \in Int /\ unit[u].refer >= 0
           /\ unit[u].refer <= 0 => HoldersOf(u) = {}
  <1>1. unit[u].refer \in Int
    BY DEF TypeOK, UnitRec
  <1>2. Cardinality(HoldersOf(u)) \in Nat
    BY FS_CardinalityType DEF PinsCounted
  <1>3. Cardinality(HoldersOf(u)) = 0 <=> HoldersOf(u) = {}
    BY FS_EmptySet DEF PinsCounted
  <1>4. QED
    BY <1>1, <1>2, <1>3 DEF PinsCounted

-----------------------------------------------------------------------------
(* The holders of units are as before, and so are their counters; a unit   *)
(* that has none may come or go.                                           *)
LEMMA PinsUntouched ==
    ASSUME TypeOK, PinsCounted, pins' = pins,
           \A u \in Units : \/ unit'[u].refer = unit[u].refer
                               /\ (Allocated(u) => Allocated(u)')
                            \/ /\ HoldersOf(u) = {}
                               /\ unit'[u].refer \in Int /\ unit'[u].refer >= 0
    PROVE  PinsCounted'
  <1> SUFFICES ASSUME NEW u \in Units
               PROVE  /\ IsFiniteSet(HoldersOf(u)')
                      /\ Cardinality(HoldersOf(u)') <= unit'[u].refer
                      /\ HoldersOf(u)' # {} => Allocated(u)'
    BY DEF PinsCounted
  <1>1. HoldersOf(u)' = HoldersOf(u)
    BY DEF HoldersOf
  <1>2. CASE unit'[u].refer = unit[u].refer /\ (Allocated(u) => Allocated(u)')
    BY <1>1, <1>2 DEF PinsCounted
  <1>3. CASE /\ HoldersOf(u) = {}
             /\ unit'[u].refer \in Int /\ unit'[u].refer >= 0
    BY <1>1, <1>3, FS_EmptySet
  <1>4. QED
    BY <1>2, <1>3

(* The fields of a unit other than its number and its counter change.      *)
LEMMA FieldsChanged ==
    ASSUME TypeOK, PinsCounted, pins' = pins,
           \A u \in Units : unit'[u].n = unit[u].n /\ unit'[u].refer = unit[u].refer
    PROVE  PinsCounted'
  BY PinsUntouched DEF Allocated

(* A unit that is replaced or deleted has no holders.                      *)
LEMMA Replaced ==
    ASSUME IInv, PinsCounted, ~ OverReferred, NEW n \in Numbers, MayReplace(n),
           NEW u \in Units, u = cache[n]
    PROVE  HoldersOf(u) = {}
  BY CountedOnce, UnitAssumption DEF IInv, MayReplace, Referred, Cached

(* A unit comes to be at key n, in place of what was there: a new one, or  *)
(* one that was at another key and keeps its counter.                      *)
LEMMA PinsPlaced ==
    ASSUME IInv, PinsCounted, ~ OverReferred,
           NEW n \in Numbers, MayReplace(n),
           NEW u \in Units, cache[n] # u,
           NEW r \in UnitRec, r.n = n, r.refer >= 0,
           Allocated(u) => r.refer = unit[u].refer,
           unit' = [Destroyed(n) EXCEPT ![u] = r], pins' = pins
    PROVE  PinsCounted'
  <1>1. TypeOK /\ Blank.refer = 0 /\ r.refer \in Int
    BY DEF IInv, Blank, UnitRec
  <1>2. /\ unit'[u] = r
        /\ \A w \in Units : w # u /\ w # cache[n] => unit'[w] = unit[w]
        /\ \A w \in Units : w # u /\ w = cache[n] => unit'[w] = Blank
    <2>1. /\ unit' \in [Units -> UnitRec] /\ unit'[u] = r
          /\ \A w \in Units : w # u => unit'[w] = Destroyed(n)[w]
      BY <1>1, DestroyedUnits, UnitUpdate
    <2>2. \A w \in Units : w = cache[n] => Destroyed(n)[w] = Blank
      BY <1>1, DestroyedUnits, UnitAssumption DEF Cached
    <2>3. \A w \in Units : w # cache[n] => Destroyed(n)[w] = unit[w]
      BY <1>1, DestroyedUnits
    <2>4. QED
      BY <2>1, <2>2, <2>3
  <1>3. ASSUME NEW w \in Units
        PROVE  \/ unit'[w].refer = unit[w].refer /\ (Allocated(w) => Allocated(w)')
               \/ /\ HoldersOf(w) = {}
                  /\ unit'[w].refer \in Int /\ unit'[w].refer >= 0
    <2>1. CASE w = u /\ Allocated(u)
      BY <2>1, <1>2, UnitAssumption DEF Allocated
    <2>2. CASE w = u /\ ~ Allocated(u)
      BY <2>2, <1>1, <1>2 DEF PinsCounted
    <2>3. CASE w # u /\ w = cache[n]
      BY <2>3, <1>1, <1>2, Replaced
    <2>4. CASE w # u /\ w # cache[n]
      BY <2>4, <1>2 DEF Allocated
    <2>5. QED
      BY <2>1, <2>2, <2>3, <2>4
  <1>4. QED
    BY <1>1, <1>3, PinsUntouched

(* A unit that is not allocated is not in the tree.                        *)
LEMMA NotInTree ==
    ASSUME IInv, NEW n \in Numbers, NEW u \in Units, ~ Allocated(u)
    PROVE  cache[n] # u
  BY UnitAssumption DEF IInv, CacheKeyed, Cached, Allocated, TypeOK

(* A holder counts itself in a unit that is there, or out of it.           *)
LEMMA HolderAdded ==
    ASSUME TypeOK, PinsCounted, NEW h \in Holders, pins[h] = NoUnit,
           NEW c \in Units, unit[c].n # NoNumber,
           \A u \in Units :
              /\ HoldersOf(u)' = IF u = c THEN HoldersOf(u) \cup {h} ELSE HoldersOf(u)
              /\ unit'[u].n = unit[u].n
              /\ unit'[u].refer = IF u = c THEN unit[u].refer + 1 ELSE unit[u].refer
    PROVE  PinsCounted'
  <1>1. /\ IsFiniteSet(HoldersOf(c) \cup {h})
        /\ Cardinality(HoldersOf(c) \cup {h}) <= unit[c].refer + 1
    <2>1. h \notin HoldersOf(c)
      BY UnitAssumption DEF HoldersOf
    <2>2. unit[c].refer \in Int
      BY CountedOnce
    <2>3. IsFiniteSet(HoldersOf(c)) /\ Cardinality(HoldersOf(c)) \in Nat
      BY FS_CardinalityType DEF PinsCounted
    <2>4. /\ IsFiniteSet(HoldersOf(c) \cup {h})
          /\ Cardinality(HoldersOf(c) \cup {h}) = Cardinality(HoldersOf(c)) + 1
      BY <2>1, <2>3, FS_AddElement
    <2>5. Cardinality(HoldersOf(c)) <= unit[c].refer
      BY DEF PinsCounted
    <2>6. QED
      BY <2>2, <2>3, <2>4, <2>5
  <1>2. QED
    BY <1>1 DEF PinsCounted, Allocated

LEMMA HolderRemoved ==
    ASSUME TypeOK, PinsCounted, NEW h \in Holders, pins[h] \in Units,
           \A u \in Units :
              /\ HoldersOf(u)' = IF u = pins[h] THEN HoldersOf(u) \ {h} ELSE HoldersOf(u)
              /\ unit'[u].n = unit[u].n
              /\ unit'[u].refer = IF u = pins[h] THEN unit[u].refer - 1
                                  ELSE unit[u].refer
    PROVE  PinsCounted'
  <1> DEFINE c == pins[h]
  <1>1. /\ IsFiniteSet(HoldersOf(c) \ {h})
        /\ Cardinality(HoldersOf(c) \ {h}) <= unit[c].refer - 1
    <2>1. h \in HoldersOf(c)
      BY DEF HoldersOf
    <2>2. unit[c].refer \in Int
      BY CountedOnce
    <2>3. IsFiniteSet(HoldersOf(c)) /\ Cardinality(HoldersOf(c)) \in Nat
      BY FS_CardinalityType DEF PinsCounted
    <2>4. /\ IsFiniteSet(HoldersOf(c) \ {h})
          /\ Cardinality(HoldersOf(c) \ {h}) = Cardinality(HoldersOf(c)) - 1
      BY <2>1, <2>3, FS_RemoveElement
    <2>5. Cardinality(HoldersOf(c)) <= unit[c].refer
      BY DEF PinsCounted
    <2>6. QED
      BY <2>2, <2>3, <2>4, <2>5
  <1>2. QED
    BY <1>1 DEF PinsCounted, Allocated

-----------------------------------------------------------------------------
LEMMA PinsStep ==
    ASSUME ~ OverReferred, IInv, PinsCounted, [Next]_vars
    PROVE  PinsCounted'
  <1>0. /\ TypeOK /\ CacheKeyed
        /\ \A u \in Units : unit[u] \in UnitRec
    BY DEF IInv, TypeOK
  <1>1. ASSUME NEW n \in Numbers,
               \/ Reload(n) \/ ReloadGarbage(n) \/ WriteBack(n)
               \/ WriteBackFails(n) \/ Free(n)
               \/ \E v \in Blocks : Modify(n, v)
        PROVE  PinsCounted'
    <2>1. pins' = pins
      BY <1>1 DEF Reload, ReloadGarbage, WriteBack, WriteBackFails, Free, Modify
    <2>2. ASSUME NEW u \in Units
          PROVE  unit'[u].n = unit[u].n /\ unit'[u].refer = unit[u].refer
      <3>1. \/ unit'[u] = unit[u]
            \/ unit'[u] = [unit[u] EXCEPT !.data = disk[n], !.dirty = FALSE, !.ours = TRUE]
            \/ unit'[u] = [unit[u] EXCEPT !.data = Garbage]
            \/ unit'[u] = [unit[u] EXCEPT !.data = NoData]
            \/ unit'[u] = [unit[u] EXCEPT !.dirty = FALSE]
            \/ \E v \in Blocks : unit'[u] = [unit[u] EXCEPT !.data = v, !.dirty = TRUE]
        BY <1>0, <1>1
           DEF Reload, ReloadGarbage, WriteBack, WriteBackFails, Free, Modify, TypeOK
      <3>2. QED
        BY <1>0, <3>1 DEF UnitRec
    <2>3. QED
      BY <1>0, <2>1, <2>2, FieldsChanged
  <1>2. ASSUME NEW failed, Flush(failed) \/ FreeCache \/ UNCHANGED vars
        PROVE  PinsCounted'
    <2>1. pins' = pins
      BY <1>2 DEF Flush, FreeCache, vars
    <2>2. ASSUME NEW u \in Units
          PROVE  unit'[u].n = unit[u].n /\ unit'[u].refer = unit[u].refer
      <3>1. \/ unit'[u] = unit[u]
            \/ unit'[u] = [unit[u] EXCEPT !.data = NoData]
            \/ unit'[u] = [unit[u] EXCEPT !.dirty = @ /\ unit[u].n \in failed]
        BY <1>0, <1>2 DEF Flush, FreeCache, vars, TypeOK
      <3>2. QED
        BY <1>0, <3>1 DEF UnitRec
    <2>3. QED
      BY <1>0, <2>1, <2>2, FieldsChanged
  <1>3. ASSUME NEW n \in Numbers, Delete(n)
        PROVE  PinsCounted'
    <2>1. /\ cache[n] \in Units /\ unit[cache[n]].refer <= 0
          /\ Blank.refer = 0 /\ pins' = pins
      BY <1>0, <1>3, CachedUnit DEF Delete, Referred, Blank, UnitRec
    <2>2. /\ unit'[cache[n]] = Blank
          /\ \A u \in Units : u # cache[n] => unit'[u] = unit[u]
      BY <1>0, <1>3, DestroyedUnits DEF Delete
    <2>3. HoldersOf(cache[n]) = {}
      BY <1>0, <2>1, CountedOnce
    <2>4. QED
      BY <1>0, <2>1, <2>2, <2>3, PinsUntouched DEF Allocated
  <1>4. ASSUME NEW n \in Numbers, NEW u \in Units, GetNew(n, u)
        PROVE  PinsCounted'
    <2> DEFINE r == [Blank EXCEPT !.n = n, !.data = disk[n]]
    <2>1. r.refer = 0 /\ pins' = pins
      BY <1>4 DEF GetNew, Blank
    <2>2. unit'[u] = r /\ \A w \in Units : w # u => unit'[w] = unit[w]
      BY <1>0, <1>4 DEF GetNew, TypeOK
    <2>3. HoldersOf(u) = {}
      BY <1>4 DEF GetNew, PinsCounted
    <2> HIDE DEF r
    <2>4. QED
      BY <1>0, <2>1, <2>2, <2>3, PinsUntouched DEF Allocated
  <1>5. ASSUME NEW n \in Numbers, NEW u \in Units, NEW v \in Blocks,
               NEW fd \in BOOLEAN, NEW replace, Insert(n, u, v, fd, replace)
        PROVE  PinsCounted'
    <2> DEFINE r == [Blank EXCEPT !.n = n, !.data = v, !.dirty = TRUE, !.ours = fd]
    <2>0. Blank.refer = 0
      BY DEF Blank
    <2>1. r \in UnitRec /\ r.n = n /\ r.refer >= 0
      <3>1. r \in UnitRec /\ r.n = n
        BY BlankType DEF UnitRec, Blocks
      <3>2. r.refer = 0
        BY <2>0, BlankType DEF UnitRec
      <3>3. QED
        BY <3>1, <3>2
    <2>2. /\ unit' = [Destroyed(n) EXCEPT ![u] = r] /\ pins' = pins
          /\ ~ Allocated(u) /\ MayReplace(n)
      BY <1>5 DEF Insert
    <2>3. cache[n] # u
      BY <2>2, NotInTree
    <2> HIDE DEF r
    <2>4. QED
      BY <2>1, <2>2, <2>3, PinsPlaced
  <1>6. ASSUME NEW n \in Numbers, NEW m \in Numbers, NEW u \in Units,
               CopyTo(n, m, u)
        PROVE  PinsCounted'
    <2> DEFINE r == [unit[cache[n]] EXCEPT !.n = m, !.dirty = TRUE]
    <2>1. cache[n] \in Units /\ unit[cache[n]] \in UnitRec
      BY <1>0, <1>6, CachedUnit DEF CopyTo, Loaded
    <2>2. r \in UnitRec /\ r.n = m /\ r.refer >= 0
      BY <1>0, <2>1, CountedOnce DEF UnitRec
    <2>3. /\ unit' = [Destroyed(m) EXCEPT ![u] = r] /\ pins' = pins
          /\ ~ Allocated(u) /\ MayReplace(m)
      BY <1>6 DEF CopyTo
    <2>4. cache[m] # u
      BY <2>3, NotInTree
    <2> HIDE DEF r
    <2>5. QED
      BY <2>2, <2>3, <2>4, PinsPlaced
  <1>7. ASSUME NEW n \in Numbers, NEW m \in Numbers, Move(n, m)
        PROVE  PinsCounted'
    <2> DEFINE u == cache[n]
               r == [unit[u] EXCEPT !.n = m, !.dirty = TRUE]
    <2>1. /\ u \in Units /\ unit[u] \in UnitRec
          /\ unit[u].n = n /\ n # m
      BY <1>0, <1>7, CachedUnit DEF Move, Loaded, CacheKeyed
    <2>2. r \in UnitRec /\ r.n = m /\ r.refer = unit[u].refer /\ r.refer >= 0
      BY <1>0, <2>1, CountedOnce DEF UnitRec
    <2>3. /\ unit' = [Destroyed(m) EXCEPT ![u] = r] /\ pins' = pins
          /\ MayReplace(m)
      BY <1>7 DEF Move
    <2>4. cache[m] # u
      BY <1>0, <2>1, UnitAssumption DEF CacheKeyed, Cached
    <2> HIDE DEF r, u
    <2>5. QED
      BY <2>1, <2>2, <2>3, <2>4, PinsPlaced
  <1>8. ASSUME NEW n \in Numbers, NEW m \in Numbers, Swap(n, m)
        PROVE  PinsCounted'
    <2>1. pins' = pins /\ NoNumber \notin Numbers
      BY <1>8, UnitAssumption DEF Swap
    <2>2. ASSUME NEW u \in Units
          PROVE  /\ unit'[u].refer = unit[u].refer
                 /\ Allocated(u) => Allocated(u)'
      <3>1. \/ unit'[u] = unit[u]
            \/ unit'[u] = [unit[u] EXCEPT !.n = m, !.dirty = TRUE]
            \/ unit'[u] = [unit[u] EXCEPT !.n = n, !.dirty = TRUE]
            \/ unit'[u] = [[unit[u] EXCEPT !.n = m, !.dirty = TRUE]
                              EXCEPT !.n = n, !.dirty = TRUE]
        BY <1>0, <1>8 DEF Swap, TypeOK
      <3>2. QED
        BY <1>0, <2>1, <3>1 DEF UnitRec, Allocated
    <2>3. QED
      BY <1>0, <2>1, <2>2, PinsUntouched
  <1>9. CASE Deallocate
    <2>1. \A h \in Holders : pins'[h] = NoUnit
      BY <1>9 DEF Deallocate
    <2>2. \A u \in Units : HoldersOf(u)' = {} /\ unit'[u].refer = 0
      BY <1>9, <2>1, UnitAssumption DEF HoldersOf, Deallocate, Blank
    <2>3. QED
      BY <2>2, FS_EmptySet DEF PinsCounted
  <1>10. ASSUME NEW n \in Numbers, NEW h \in Holders, Pin(h, n)
         PROVE  PinsCounted'
    <2>1. /\ cache[n] \in Units /\ unit[cache[n]].n # NoNumber
          /\ pins[h] = NoUnit
      BY <1>0, <1>10, CachedUnit, UnitAssumption DEF Pin, CacheKeyed
    <2>2. ASSUME NEW u \in Units
          PROVE  /\ HoldersOf(u)' = IF u = cache[n] THEN HoldersOf(u) \cup {h}
                                    ELSE HoldersOf(u)
                 /\ unit'[u].n = unit[u].n
                 /\ unit'[u].refer = IF u = cache[n] THEN unit[u].refer + 1
                                     ELSE unit[u].refer
      <3>1. HoldersOf(u)' = IF u = cache[n] THEN HoldersOf(u) \cup {h}
                            ELSE HoldersOf(u)
        BY <1>0, <1>10, <2>1, UnitAssumption DEF Pin, HoldersOf, TypeOK
      <3>2. unit'[u] = IF u = cache[n] THEN [unit[u] EXCEPT !.refer = @ + 1]
                       ELSE unit[u]
        BY <1>0, <1>10 DEF Pin, TypeOK
      <3>3. QED
        BY <1>0, <3>1, <3>2 DEF UnitRec
    <2>3. QED
      BY <1>0, <2>1, <2>2, HolderAdded
  <1>11. ASSUME NEW h \in Holders, Unpin(h)
         PROVE  PinsCounted'
    <2>1. pins[h] \in Units
      BY <1>0, <1>11 DEF Unpin, TypeOK
    <2>2. ASSUME NEW u \in Units
          PROVE  /\ HoldersOf(u)' = IF u = pins[h] THEN HoldersOf(u) \ {h}
                                    ELSE HoldersOf(u)
                 /\ unit'[u].n = unit[u].n
                 /\ unit'[u].refer = IF u = pins[h] THEN unit[u].refer - 1
                                     ELSE unit[u].refer
      <3>1. HoldersOf(u)' = IF u = pins[h] THEN HoldersOf(u) \ {h}
                            ELSE HoldersOf(u)
        BY <1>0, <1>11, UnitAssumption DEF Unpin, HoldersOf, TypeOK
      <3>2. unit'[u] = IF u = pins[h] THEN [unit[u] EXCEPT !.refer = @ - 1]
                       ELSE unit[u]
        BY <1>0, <1>11 DEF Unpin, TypeOK
      <3>3. QED
        BY <1>0, <3>1, <3>2 DEF UnitRec
    <2>3. QED
      BY <1>0, <2>1, <2>2, HolderRemoved
  <1>12. Garbage \in Blocks /\ \A v \in Data : v \in Blocks
    BY DEF Blocks
  <1>13. QED
    BY <1>1, <1>2, <1>3, <1>4, <1>5, <1>6, <1>7, <1>8, <1>9, <1>10, <1>11,
       <1>12 DEF Next, CreateUnread

-----------------------------------------------------------------------------
(* While callers do not insert over a unit that is in use, no holder is    *)
(* left with a pointer to memory that was freed or reused, however units   *)
(* are moved, swapped, deleted and freed: fatunitdelete() and              *)
(* fatunitfreecache() look at the counter.                                 *)
THEOREM PinnedKept ==
    ASSUME ~ OverReferred
    PROVE  Spec => []PinnedStays
  <1>1. Init => PinsCounted
    <2> SUFFICES ASSUME Init
                 PROVE  PinsCounted
      OBVIOUS
    <2>1. \A u \in Units : HoldersOf(u) = {} /\ unit[u].refer = 0
      BY UnitAssumption DEF Init, HoldersOf, Blank
    <2>2. QED
      BY <2>1, FS_EmptySet DEF PinsCounted
  <1>2. IInv /\ PinsCounted /\ [Next]_vars => PinsCounted'
    BY PinsStep
  <1>3. IInv /\ PinsCounted => PinnedStays
    <2> SUFFICES ASSUME IInv, PinsCounted, NEW h \in Holders, pins[h] # NoUnit
                 PROVE  /\ unit[pins[h]].n \in Numbers
                        /\ cache[unit[pins[h]].n] = pins[h]
                        /\ unit[pins[h]].refer > 0
      BY DEF PinnedStays
    <2>1. pins[h] \in Units /\ h \in HoldersOf(pins[h]) /\ TypeOK
      BY DEF IInv, TypeOK, HoldersOf
    <2>2. unit[pins[h]].refer > 0
      BY <2>1, CountedOnce
    <2>3. Allocated(pins[h])
      BY <2>1 DEF PinsCounted
    <2>4. QED
      BY <2>1, <2>2, <2>3 DEF IInv, TypeOK, CacheKeyed, Allocated, UnitRec
  <1>4. QED
    BY <1>1, <1>2, <1>3, Invariance, PTL DEF Spec
=============================================================================
