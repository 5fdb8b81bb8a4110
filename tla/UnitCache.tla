----------------------------- MODULE UnitCache ------------------------------
(***************************************************************************)
(* lib/unit.c: the cache of units (sectors or clusters) of a filesystem.   *)
(*                                                                         *)
(* A unit is a heap object that callers point to; the cache is a search    *)
(* tree ordered by u->n.  Moving or swapping clusters changes u->n, the    *)
(* key, so the unit is taken out of the tree and inserted again.  The      *)
(* bytes of a unit are one of a few values; Garbage stands for bytes that  *)
(* are not the content of any unit: fresh memory from malloc, a torn write.*)
(*                                                                         *)
(* `unreadable` and WriteErrors play the role of the table of simulated    *)
(* I/O errors: the units on which a read or a write may fail, and may also *)
(* succeed, as with an intermittent device.                                *)
(***************************************************************************)
EXTENDS Integers

CONSTANTS
    Numbers,          \* the sector or cluster numbers
    Units,            \* addresses at which a unit may be allocated
    Data,             \* contents of a unit that make sense
    Garbage,          \* bytes that are nobody's content
    NoData,           \* u->data == NULL
    NoUnit,           \* null pointer to a unit
    NoNumber,         \* "n" of an address that holds no unit
    Holders,          \* parts of the program that count in u->refer
    ReadErrors,       \* numbers of the units whose read may fail
    WriteErrors,      \* numbers of the units whose write may fail
    OverReferred      \* do callers insert over a unit with refer > 0?

ASSUME UnitAssumption ==
    /\ NoUnit \notin Units
    /\ NoNumber \notin Numbers
    /\ Garbage \notin Data
    /\ NoData \notin Data \cup {Garbage}
    /\ OverReferred \in BOOLEAN

Blocks == Data \cup {Garbage}

VARIABLES
    disk,        \* the device: the block of every number
    cache,       \* the tree: the unit found at every key, or NoUnit
    unit,        \* the unit allocated at every address
    pins,        \* the unit every holder has counted itself in
    unreadable   \* numbers of the units whose read may fail this time

vars == <<disk, cache, unit, pins, unreadable>>

(* ours: u->fd is the descriptor of this filesystem.                       *)
UnitRec == [n : Numbers \cup {NoNumber}, data : Blocks \cup {NoData},
            dirty : BOOLEAN, refer : Int, ours : BOOLEAN]

Blank == [n |-> NoNumber, data |-> NoData, dirty |-> FALSE, refer |-> 0,
          ours |-> TRUE]

(* The type of the state.                                                  *)
TypeOK ==
    /\ disk \in [Numbers -> Blocks]
    /\ cache \in [Numbers -> Units \cup {NoUnit}]
    /\ unit \in [Units -> UnitRec]
    /\ pins \in [Holders -> Units \cup {NoUnit}]
    /\ unreadable \subseteq Numbers

Allocated(u) == unit[u].n # NoNumber
Cached(n)   == cache[n] # NoUnit
Loaded(n)   == Cached(n) /\ unit[cache[n]].data # NoData
Dirty(n)    == Cached(n) /\ unit[cache[n]].dirty
Referred(n) == Cached(n) /\ unit[cache[n]].refer > 0

Init ==
    /\ disk \in [Numbers -> Data]
    /\ cache = [n \in Numbers |-> NoUnit]
    /\ unit = [u \in Units |-> Blank]
    /\ pins = [h \in Holders |-> NoUnit]
    /\ unreadable \in SUBSET (ReadErrors \cap Numbers)

-----------------------------------------------------------------------------
(* fatunitget() of a unit that is not in the tree.  When the read fails    *)
(* the new unit is leaked, not inserted: nothing of it can be seen again.  *)
GetNew(n, u) ==
    /\ ~ Cached(n)
    /\ ~ Allocated(u)
    /\ cache' = [cache EXCEPT ![n] = u]
    /\ unit' = [unit EXCEPT ![u] = [Blank EXCEPT !.n = n, !.data = disk[n]]]
    /\ UNCHANGED <<disk, pins, unreadable>>

(* fatunitget() of a unit whose data was freed; fatunitgetdata() too.      *)
Reload(n) ==
    /\ Cached(n) /\ ~ Loaded(n)
    /\ unit' = [unit EXCEPT ![cache[n]] =
                   [@ EXCEPT !.data = disk[n], !.dirty = FALSE, !.ours = TRUE]]
    /\ UNCHANGED <<disk, cache, pins, unreadable>>

(* The same in fatunitget() when the read fails: NULL is returned, but the *)
(* buffer just allocated stays in the unit, and the unit in the tree.  In  *)
(* fatunitgetdata() a failed read ends the program (see Deallocate), but a *)
(* foreign descriptor may give it the bytes of another file.               *)
ReloadGarbage(n) ==
    /\ Cached(n) /\ ~ Loaded(n)
    /\ n \in unreadable \/ ~ unit[cache[n]].ours
    /\ unit' = [unit EXCEPT ![cache[n]].data = Garbage]
    /\ UNCHANGED <<disk, cache, pins, unreadable>>

(* A caller changes u->data and sets u->dirty; changing some bytes of a    *)
(* block of garbage leaves garbage.                                        *)
Modify(n, v) ==
    /\ Loaded(n)
    /\ v = Garbage => unit[cache[n]].data = Garbage
    /\ unit' = [unit EXCEPT ![cache[n]] = [@ EXCEPT !.data = v, !.dirty = TRUE]]
    /\ UNCHANGED <<disk, cache, pins, unreadable>>

-----------------------------------------------------------------------------
(* fatunitdestroy() of the unit found at key n, if any.                    *)
Destroyed(n) == IF Cached(n) THEN [unit EXCEPT ![cache[n]] = Blank] ELSE unit

(* Nothing in fatunitinsert() spares a unit in use: it is up to callers.   *)
MayReplace(n) == Referred(n) => OverReferred

(* fatunitinsert() of a unit just made by fatunitcreate() and filled, with *)
(* or without replacing what is there; the caller destroys it if refused.  *)
Insert(n, u, v, fd, replace) ==
    /\ ~ Allocated(u)
    /\ replace \/ ~ Loaded(n)
    /\ MayReplace(n)
    /\ unit' = [Destroyed(n) EXCEPT ![u] =
                  [Blank EXCEPT !.n = n, !.data = v, !.dirty = TRUE, !.ours = fd]]
    /\ cache' = [cache EXCEPT ![n] = u]
    /\ UNCHANGED <<disk, pins, unreadable>>

(* fatclustercreate(): the unit that fatunitget() returns, if it can read  *)
(* it; otherwise a new unit, its data and its descriptor uninitialised.    *)
CreateUnread(n, u) ==
    /\ n \in unreadable
    /\ ~ Cached(n)
    /\ \E fd \in BOOLEAN : Insert(n, u, Garbage, fd, FALSE)

(* fatunitcopy() followed by fatunitinsert() at another key, as in         *)
(* fatcopyboottobackup(): the usage counter is copied with the rest.       *)
CopyTo(n, m, u) ==
    /\ Loaded(n) /\ n # m
    /\ ~ Allocated(u)
    /\ MayReplace(m)
    /\ unit' = [Destroyed(m) EXCEPT ![u] =
                   [unit[cache[n]] EXCEPT !.n = m, !.dirty = TRUE]]
    /\ cache' = [cache EXCEPT ![m] = u]
    /\ UNCHANGED <<disk, pins, unreadable>>

(* The key changed while the unit is in the tree.                          *)
MoveInPlace(n, m) ==
    /\ Loaded(n) /\ n # m
    /\ unit' = [unit EXCEPT ![cache[n]] = [@ EXCEPT !.n = m, !.dirty = TRUE]]
    /\ UNCHANGED <<disk, cache, pins, unreadable>>

(* fatunitmove(): detach, renumber, insert with replacement.               *)
Move(n, m) ==
    /\ Loaded(n) /\ n # m
    /\ MayReplace(m)
    /\ unit' = [Destroyed(m) EXCEPT ![cache[n]] =
                   [unit[cache[n]] EXCEPT !.n = m, !.dirty = TRUE]]
    /\ cache' = [cache EXCEPT ![n] = NoUnit, ![m] = cache[n]]
    /\ UNCHANGED <<disk, pins, unreadable>>

(* The swap of two units that are both clean, left clean.                  *)
SwapClean(n, m) ==
    /\ Loaded(n) /\ Loaded(m) /\ n # m
    /\ unit' = [unit EXCEPT ![cache[n]].n = m, ![cache[m]].n = n]
    /\ cache' = [cache EXCEPT ![n] = cache[m], ![m] = cache[n]]
    /\ UNCHANGED <<disk, pins, unreadable>>

(* fatunitswap(): detach both, exchange the numbers, insert both.          *)
Swap(n, m) ==
    /\ Loaded(n) /\ Loaded(m) /\ n # m
    /\ unit' = [unit EXCEPT
                   ![cache[n]] = [@ EXCEPT !.n = m, !.dirty = TRUE],
                   ![cache[m]] = [@ EXCEPT !.n = n, !.dirty = TRUE]]
    /\ cache' = [cache EXCEPT ![n] = cache[m], ![m] = cache[n]]
    /\ UNCHANGED <<disk, pins, unreadable>>

-----------------------------------------------------------------------------
(* What the device may hold at n after a write of its unit that succeeds,  *)
(* and after one that fails: nothing, all or a part of it was written.     *)
Written(n) == IF unit[cache[n]].ours THEN {unit[cache[n]].data} ELSE {disk[n]}

Torn(n) == Written(n) \cup {disk[n]}
              \cup (IF unit[cache[n]].ours THEN {Garbage} ELSE {})

MayFail(n) == Dirty(n) /\ (n \in WriteErrors \/ ~ unit[cache[n]].ours)

(* fatunitwriteback(): nothing to do on a clean unit.                      *)
WriteBack(n) ==
    /\ Dirty(n)
    /\ \E v \in Written(n) : disk' = [disk EXCEPT ![n] = v]
    /\ unit' = [unit EXCEPT ![cache[n]].dirty = FALSE]
    /\ UNCHANGED <<cache, pins, unreadable>>

(* The result of the write ignored.                                        *)
WriteBackIgnored(n) ==
    /\ MayFail(n)
    /\ \E v \in Torn(n) : disk' = [disk EXCEPT ![n] = v]
    /\ unit' = [unit EXCEPT ![cache[n]].dirty = FALSE]
    /\ UNCHANGED <<cache, pins, unreadable>>

(* A failed write: the unit stays dirty.                                   *)
WriteBackFails(n) ==
    /\ MayFail(n)
    /\ \E v \in Torn(n) : disk' = [disk EXCEPT ![n] = v]
    /\ UNCHANGED <<cache, unit, pins, unreadable>>

(* fatunitflush(): fatunitwriteback() on every unit; errors are ignored.   *)
Flush(failed) ==
    /\ disk' \in [Numbers -> Blocks]
    /\ \A n \in Numbers :
          disk'[n] \in IF n \in failed THEN Torn(n)
                       ELSE IF Dirty(n) THEN Written(n) ELSE {disk[n]}
    /\ unit' = [u \in Units |->
                   [unit[u] EXCEPT !.dirty = @ /\ unit[u].n \in failed]]
    /\ UNCHANGED <<cache, pins, unreadable>>

(* Deletion that looks at one of the two fields only.                      *)
DeleteReferred(n) ==
    /\ Cached(n) /\ ~ Dirty(n)
    /\ unit' = Destroyed(n)
    /\ cache' = [cache EXCEPT ![n] = NoUnit]
    /\ UNCHANGED <<disk, pins, unreadable>>

(* fatunitdelete(): refused on a unit that is in use or dirty.             *)
Delete(n) ==
    /\ Cached(n) /\ ~ Referred(n) /\ ~ Dirty(n)
    /\ unit' = Destroyed(n)
    /\ cache' = [cache EXCEPT ![n] = NoUnit]
    /\ UNCHANGED <<disk, pins, unreadable>>

(* fatunitfree() keeps the unit and drops its data, which can be read      *)
(* again; refused like a deletion.                                         *)
Free(n) ==
    /\ Loaded(n) /\ ~ Referred(n) /\ ~ Dirty(n)
    /\ unit' = [unit EXCEPT ![cache[n]].data = NoData]
    /\ UNCHANGED <<disk, cache, pins, unreadable>>

(* fatunitfreecache(): fatunitfree() on every unit.                        *)
FreeCache ==
    /\ unit' = [u \in Units |->
                   IF unit[u].dirty \/ unit[u].refer > 0 THEN unit[u]
                   ELSE [unit[u] EXCEPT !.data = NoData]]
    /\ UNCHANGED <<disk, cache, pins, unreadable>>

(* fatunitdeallocate() at fatquit(); a crash or an exit() has this effect  *)
(* too, for the program that opens the filesystem next.                    *)
Deallocate ==
    /\ cache' = [n \in Numbers |-> NoUnit]
    /\ unit' = [u \in Units |-> Blank]
    /\ pins' = [h \in Holders |-> NoUnit]
    /\ UNCHANGED <<disk, unreadable>>

-----------------------------------------------------------------------------
(* A recursion level of _fatreferenceexecute(), or an entry of the inverse *)
(* FAT, counts itself in u->refer for as long as it holds the pointer.     *)
Pin(h, n) ==
    /\ Cached(n) /\ pins[h] = NoUnit
    /\ pins' = [pins EXCEPT ![h] = cache[n]]
    /\ unit' = [unit EXCEPT ![cache[n]].refer = @ + 1]
    /\ UNCHANGED <<disk, cache, unreadable>>

(* The holder forgets the number of the unit rather than the unit.         *)
UnpinNumber(h) ==
    /\ pins[h] # NoUnit
    /\ unit' = [unit EXCEPT ![pins[h]].refer = @ - 1]
    /\ pins' = [pins EXCEPT ![h] = unit[pins[h]].n]
    /\ UNCHANGED <<disk, cache, unreadable>>

Unpin(h) ==
    /\ pins[h] # NoUnit
    /\ unit' = [unit EXCEPT ![pins[h]].refer = @ - 1]
    /\ pins' = [pins EXCEPT ![h] = NoUnit]
    /\ UNCHANGED <<disk, cache, unreadable>>

Next ==
    \/ \E n \in Numbers : \/ Reload(n) \/ ReloadGarbage(n)
                          \/ WriteBack(n) \/ WriteBackFails(n)
                          \/ Delete(n) \/ Free(n)
                          \/ \E v \in Blocks : Modify(n, v)
                          \/ \E h \in Holders : Pin(h, n)
    \/ \E n \in Numbers, u \in Units :
          \/ GetNew(n, u)
          \/ CreateUnread(n, u)
          \/ \E v \in Data, rep \in BOOLEAN : Insert(n, u, v, TRUE, rep)
          \/ \E m \in Numbers : CopyTo(n, m, u)
    \/ \E n, m \in Numbers : Move(n, m) \/ Swap(n, m)
    \/ \E h \in Holders : Unpin(h)
    \/ \E failed \in SUBSET {n \in Numbers : MayFail(n)} : Flush(failed)
    \/ FreeCache
    \/ Deallocate

Spec == Init /\ [][Next]_vars

-----------------------------------------------------------------------------
(* The tree is ordered by the numbers the units carry: the unit found at a *)
(* key carries that key, and every unit allocated is found at its number.  *)
(* Changing u->n of a unit in the tree, or losing one of the two ends of a *)
(* swap, would break it and make a later search miss dirty data.           *)
CacheKeyed ==
    /\ \A n \in Numbers : Cached(n) => unit[cache[n]].n = n
    /\ \A u \in Units : Allocated(u) => cache[unit[u].n] = u

(* u->dirty tells whether the unit in cache differs from the filesystem: a *)
(* clean unit with data has the data of the device.  It relates moves,     *)
(* swaps and failed writes to what later reads from the device return.     *)
CleanMeansWritten ==
    \A n \in Numbers :
        Loaded(n) /\ ~ Dirty(n) => unit[cache[n]].data = disk[n]

(* The same, where the device returns what it holds.                       *)
CleanAgrees == unreadable = {} => CleanMeansWritten

(* A unit counted as in use by some holder is still the one in the tree at *)
(* its number: deletions and moves never leave a holder with a pointer to  *)
(* memory that was freed or reused.                                        *)
PinnedStays ==
    \A h \in Holders : pins[h] # NoUnit =>
        /\ unit[pins[h]].n \in Numbers
        /\ cache[unit[pins[h]].n] = pins[h]
        /\ unit[pins[h]].refer > 0

-----------------------------------------------------------------------------
(* The block the program sees at every number: that of the unit in cache   *)
(* if its data is there, that of the device otherwise.                     *)
Content == [n \in Numbers |->
               IF Loaded(n) THEN unit[cache[n]].data ELSE disk[n]]

Unsaved == {n \in Numbers : Dirty(n)}

Store == INSTANCE BlockStore
            WITH content <- Content, durable <- disk, unsaved <- Unsaved,
                 reliable <- unreadable = {}

(* Whatever is freed, reloaded, evicted, moved or written, with writes     *)
(* that fail halfway included, the cache behaves as one block per number,  *)
(* and a block that is not marked as dirty is safe on the device.          *)
ImplementsStore == Store!StoreSpec
=============================================================================
