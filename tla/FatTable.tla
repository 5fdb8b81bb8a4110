------------------------------ MODULE FatTable ------------------------------
(***************************************************************************)
(* lib/table.c over the cache of sectors: the copies of the file           *)
(* allocation table, what is read from them and written to them, and the   *)
(* counter of free clusters that the information sector keeps from one     *)
(* session to the next (lib/fs.c).                                         *)
(*                                                                         *)
(* The bytes of the copies are in `mem` as the program sees them and in    *)
(* `disk` as the next program will; a sector of a copy is a pair <<k, s>>. *)
(***************************************************************************)
EXTENDS FatEntry, FiniteSets

CONSTANTS
    NumFats,          \* copies of the table
    Last,             \* last cluster of the filesystem
    BytesPerSector,
    AllBits,          \* widths of the filesystems considered
    FatSize,          \* sectors of a copy, for each width
    Images,           \* tables on the device at first, for each width
    Counters,         \* what the information sector holds at first
    Nexts,            \* what callers write as the next of a cluster
    Broken,           \* sets of sectors that cannot be read in a session
    MaxChanges        \* bound on the operations of a behaviour

FAT_ALL    == -1
FAT_UNUSED == 0
FAT_EOF    == -1
FAT_BAD    == -2
FAT_ERR    == -1000
FAT_FIRST  == 2

(* What fatgetnextcluster() returns, except FAT_ERR.                       *)
NextValues == {FAT_UNUSED, FAT_EOF, FAT_BAD} \cup FAT_FIRST .. Last

SectorOf(p) == p \div BytesPerSector
FatBytes(b) == FatSize[b] * BytesPerSector

(* The three last values of each width, from 7 to 15: bad and end of file. *)
Mark(b, low) == CASE b = 12 -> 4080 + low
                  [] b = 16 -> 65520 + low
                  [] b = 32 -> 268435440 + low

(* All entries are in the table, and only those of FAT12 may be in two     *)
(* sectors; no cluster has a number that means something else.             *)
ASSUME TableAssumption ==
    /\ NumFats \in Nat \ {0} /\ Last \in Nat /\ Last >= FAT_FIRST
    /\ BytesPerSector \in Nat \ {0}
    /\ AllBits \subseteq Widths
    /\ \A b \in AllBits :
          /\ FatSize[b] \in Nat \ {0}
          /\ Last < Mark(b, 7)
          /\ Images[b] \subseteq Tables(FatBytes(b))
          /\ \A n \in 0 .. Last :
                /\ Fits(b, FatBytes(b), n)
                /\ b # 12 => \A i \in Bytes(b, n) :
                                SectorOf(i) = SectorOf(Position(b, n))
    /\ Counters \subseteq Int
    /\ Nexts \subseteq NextValues
    /\ MaxChanges \in Nat

Copies   == 0 .. NumFats - 1
Clusters == FAT_FIRST .. Last

VARIABLES
    open,         \* is a program using the filesystem?
    bits,         \* f->bits
    nfat,         \* f->nfat: the copy used, or all of them
    mem,          \* the copies, through the cache
    disk,         \* the copies on the device
    dirty,        \* sectors whose unit has u->dirty set
    unreadable,   \* sectors that fail to be read
    free,         \* f->free; -1 if unknown
    saved,        \* number of free clusters in the information sector
    current,      \* cluster that fatclusterfreechain() is at; 0 if not running
    begun, was,   \* where it began, and what followed each cluster then
    changes       \* operations so far

loop == <<current, begun, was>>
vars == <<open, bits, nfat, mem, disk, dirty, unreadable, free, saved, loop, changes>>

Sectors(b) == Copies \X (0 .. FatSize[b] - 1)

-----------------------------------------------------------------------------
IsEof(b, e) == e >= Mark(b, 8)
IsBad(b, e) == e = Mark(b, 7)

Masked(b, e) == CASE b = 12 -> e % 4096
                  [] b = 16 -> e % 65536
                  [] b = 32 -> e

Encode(b, next) == Masked(b, IF next = FAT_EOF THEN Mark(32, 8)
                             ELSE IF next = FAT_BAD THEN Mark(32, 7)
                             ELSE next)

(* The sectors of copy k that hold the entry of n: the second is read on   *)
(* FAT12 only, and may be the same as the first.                           *)
FirstSector(k, n) == <<k, SectorOf(Position(bits, n))>>
NextSector(k, n) ==
    <<k, SectorOf(Position(bits, n) + (IF bits = 12 THEN 1 ELSE 0))>>
CanRead(k, n) == {FirstSector(k, n), NextSector(k, n)} \cap unreadable = {}

(* fatsetfat() does not check that it could read the second sector: it     *)
(* follows the null pointer.                                               *)
Kills(k, n) == FirstSector(k, n) \notin unreadable
                  /\ NextSector(k, n) \in unreadable

(* The copies an operation looks at or changes.                            *)
Selected == IF nfat = FAT_ALL THEN Copies ELSE {nfat}

(* fatgetnextcluster(): the first copy that can be read.                   *)
GetNextCluster(t, n) ==
    LET good == {k \in Selected : CanRead(k, n)}
        e == Get(bits, t[CHOOSE k \in good : \A j \in good : k <= j], n)
    IN  IF good = {}        THEN FAT_ERR
        ELSE IF IsBad(bits, e) THEN FAT_BAD
        ELSE IF IsEof(bits, e) THEN FAT_EOF
        ELSE IF e > Last       THEN FAT_ERR
        ELSE e

FreeClusters(t) == {n \in Clusters : GetNextCluster(t, n) = FAT_UNUSED}
NumFree(t) == Cardinality(FreeClusters(t))

-----------------------------------------------------------------------------
(* The first copy only.                                                    *)
SetFirstFat(n, next) ==
    [k \in Copies |->
        IF k = 0 /\ FirstSector(k, n) \notin unreadable
        THEN Set(bits, mem[k], n, Encode(bits, next)) ELSE mem[k]]

(* fatsetnextcluster(): the entry of n in the copies, where it can be read. *)
SetFats(n, next) ==
    [k \in Copies |->
        IF k \in Selected /\ FirstSector(k, n) \notin unreadable
        THEN Set(bits, mem[k], n, Encode(bits, next)) ELSE mem[k]]

DirtyFirstFat(n) == dirty \cup ({FirstSector(0, n)} \ unreadable)

(* fatsetfat() sets fs->dirty, not fshigh->dirty.                          *)
Dirtied(n) == dirty \cup ({FirstSector(k, n) : k \in Selected} \ unreadable)

CountAlways(n, next) ==
    IF free = -1 \/ nfat # FAT_ALL THEN free
    ELSE IF next = FAT_UNUSED THEN free + 1
    ELSE free - 1

(* f->free changes only if all copies are in use; it does so even if the   *)
(* entry cannot be read or written.                                        *)
Count(n, next) ==
    LET wasFree == GetNextCluster(mem, n) = FAT_UNUSED
    IN  IF free = -1 \/ nfat # FAT_ALL THEN free
        ELSE IF ~ wasFree /\ next = FAT_UNUSED THEN free + 1
        ELSE IF wasFree /\ next # FAT_UNUSED THEN free - 1
        ELSE free

Store(n, next) ==
    /\ mem' = SetFats(n, next)
    /\ dirty' = Dirtied(n)
    /\ free' = Count(n, next)

-----------------------------------------------------------------------------
(* The type of the state; the tables hold bytes.                           *)
TypeOK ==
    /\ open \in BOOLEAN /\ bits \in AllBits /\ nfat \in Copies \cup {FAT_ALL}
    /\ mem \in [Copies -> Tables(FatBytes(bits))]
    /\ disk \in [Copies -> Tables(FatBytes(bits))]
    /\ dirty \subseteq Sectors(bits)
    /\ free \in Int /\ saved \in Int /\ changes \in Nat
    /\ current \in Clusters \cup {0} /\ begun \in Clusters \cup {0}

(* fatreadinfosector(): only FAT32 has an information sector, and a number *)
(* that makes no sense is taken as unknown.                                *)
Counter(b, n) == IF b = 32 /\ n \in 0 .. Cardinality(Clusters) THEN n ELSE -1

Init ==
    /\ open = FALSE
    /\ bits \in AllBits
    /\ nfat = FAT_ALL
    /\ \E t \in Images[bits] : disk = [k \in Copies |-> t]
    /\ saved \in Counters
    /\ mem = disk
    /\ dirty = {}
    /\ unreadable = {}
    /\ free = -1
    /\ changes = 0
    /\ current = 0 /\ begun = 0 /\ was = <<>>

(* No operation starts during another.                                     *)
Idle == open /\ current = 0
Step == Idle /\ changes < MaxChanges /\ changes' = changes + 1

(* fatsetnextcluster() on a cluster of the filesystem.                     *)
SetNextCluster(n, next) ==
    /\ Step
    /\ \A k \in Selected : ~ Kills(k, n)
    /\ Store(n, next)
    /\ begun' = 0 /\ was' = <<>>
    /\ UNCHANGED <<open, bits, nfat, disk, unreadable, saved, current>>

(* fatclusterfreechain(): the start of the loop ...                        *)
FreeChain(begin) ==
    /\ Step
    /\ current' = begin
    /\ begun' = begin
    /\ was' = [n \in Clusters |-> GetNextCluster(mem, n)]
    /\ UNCHANGED <<open, bits, nfat, mem, disk, dirty, unreadable, free, saved>>

(* ... and the cluster it is at.  A chain that loops ends at a cluster     *)
(* already freed; the others end at a mark, that is not a cluster.         *)
AtOrAfter(n) == IF n >= FAT_FIRST THEN n ELSE 0

FreeClusterLate ==
    /\ current # 0
    /\ \A k \in Selected : ~ Kills(k, current)
    /\ Store(current, FAT_UNUSED)
    /\ current' = AtOrAfter(GetNextCluster(mem', current))
    /\ UNCHANGED <<open, bits, nfat, disk, unreadable, saved, begun, was, changes>>

FreeClusterUncleared ==
    /\ current # 0
    /\ \A k \in Selected : ~ Kills(k, current)
    /\ current' = AtOrAfter(GetNextCluster(mem, current))
    /\ UNCHANGED <<open, bits, nfat, mem, disk, dirty, unreadable, free, saved,
                   begun, was, changes>>

FreeCluster ==
    /\ current # 0
    /\ \A k \in Selected : ~ Kills(k, current)
    /\ current' = AtOrAfter(GetNextCluster(mem, current))
    /\ Store(current, FAT_UNUSED)
    /\ UNCHANGED <<open, bits, nfat, disk, unreadable, saved, begun, was, changes>>

(* fatclusternumfree() counts and remembers.                               *)
CountFree ==
    /\ Idle
    /\ free' = NumFree(mem)
    /\ UNCHANGED <<open, bits, nfat, mem, disk, dirty, unreadable, saved, loop, changes>>

(* What the device holds once some of the dirty sectors were written.      *)
WrittenTo(sectors) ==
    [k \in Copies |-> [i \in 0 .. FatBytes(bits) - 1 |->
        IF <<k, SectorOf(i)>> \in sectors THEN mem[k][i] ELSE disk[k][i]]]

(* fatflush() with some writes that fail: it ignores them.                 *)
Flush(written) ==
    /\ Idle
    /\ disk' = WrittenTo(written)
    /\ dirty' = dirty \ written
    /\ UNCHANGED <<open, bits, nfat, mem, unreadable, free, saved, loop, changes>>

(* fatopen(), and the copy a program chooses to use.                       *)
Open(k, broken) ==
    /\ ~ open
    /\ open' = TRUE
    /\ nfat' = k
    /\ unreadable' = broken \cap Sectors(bits)
    /\ free' = Counter(bits, saved)
    /\ UNCHANGED <<bits, mem, disk, dirty, saved, loop, changes>>

(* The program ends; what was not written is lost.                         *)
Quit ==
    /\ open
    /\ open' = FALSE
    /\ mem' = disk'
    /\ dirty' = {}
    /\ nfat' = FAT_ALL
    /\ unreadable' = {}
    /\ free' = -1
    /\ current' = 0 /\ begun' = 0 /\ was' = <<>>
    /\ UNCHANGED <<bits, changes>>

(* A crash, or a signal, or the null pointer of Kills().                   *)
Crash == UNCHANGED <<disk, saved>> /\ Quit

(* fatclose(): the counter is stored, also when it is not known, and all   *)
(* is flushed; some writes may fail, or a crash may come before they are   *)
(* all done.                                                               *)
Close(written, info) ==
    /\ Idle
    /\ disk' = WrittenTo(written)
    /\ saved' = IF bits = 32 /\ info /\ free <= Cardinality(Clusters) THEN free ELSE saved
    /\ Quit

Next ==
    \/ \E n \in Clusters, next \in Nexts : SetNextCluster(n, next)
    \/ \E n \in Clusters : FreeChain(n)
    \/ FreeCluster
    \/ CountFree
    \/ \E written \in SUBSET dirty : Flush(written)
    \/ \E k \in Copies \cup {FAT_ALL}, broken \in Broken : Open(k, broken)
    \/ Crash
    \/ \E written \in SUBSET dirty, info \in BOOLEAN : Close(written, info)

(* The cluster is one of those that end the program.                       *)
FreeDies == (\E k \in Selected : Kills(k, current)) /\ Crash

(* A program does not stop in the middle of a loop, unless it crashes.     *)
Fairness == WF_vars(FreeCluster \/ (current # 0 /\ FreeDies))

Spec == Init /\ [][Next]_vars /\ Fairness

-----------------------------------------------------------------------------
SameSession == open /\ open'

Agree(t) == \A k \in Copies, n \in Clusters :
               Get(bits, t[k], n) = Get(bits, t[0], n)

(* Copies that agree on all clusters still do after any sequence of        *)
(* operations on all copies: the loop over f->nfat, which the recursive    *)
(* call reads, visits every copy and leaves FAT_ALL in place.              *)
CopiesStayAgreed ==
    [][SameSession /\ nfat = FAT_ALL /\ unreadable = {} /\ Agree(mem)
          => Agree(mem')]_vars

(* Setting the next of a cluster changes no other entry of any copy, not   *)
(* even the FAT12 entry in the same byte, and is read back.                *)
SetOnlyThat ==
    [][\A n \in Clusters, next \in Nexts : SetNextCluster(n, next) =>
          /\ \A k \in Copies, m \in 0 .. Last : m # n =>
                Get(bits, mem'[k], m) = Get(bits, mem[k], m)
          /\ GetNextCluster(mem, n) # FAT_ERR \/ unreadable = {}
                => GetNextCluster(mem', n) = next]_vars

AllReadable == \A n \in Clusters : \E k \in Selected : CanRead(k, n)

(* The counter of free clusters does not drift: as long as every cluster   *)
(* can be read in some copy it changes as the number of free clusters      *)
(* does, through any change, chain freed or save and reload.               *)
FreeTracks ==
    [][nfat = FAT_ALL /\ AllReadable /\ free # -1 /\ mem' # mem /\ SameSession
          => free' - NumFree(mem)' = free - NumFree(mem)]_vars

(* Freeing a chain frees the clusters that follow from the first, all of   *)
(* them and no other, even if the chain loops.                             *)
FreesTheChain ==
    current = 0 /\ begun # 0 /\ AllReadable =>
       LET next(n) == GetNextCluster(mem, n)
           freed == {n \in Clusters : next(n) # was[n]} \cup {begun}
       IN  \A n \in freed :
              /\ next(n) = FAT_UNUSED
              /\ n # begun => \E m \in freed : was[m] = n
              /\ was[n] \in Clusters => next(was[n]) = FAT_UNUSED

(* The loop ends, whatever the table is.                                   *)
FreeChainEnds == current # 0 ~> current = 0

(* A sector that differs from the device is dirty: what the program sees   *)
(* of the table, the next one will, if it is flushed.                      *)
ChangedIsDirty ==
    \A k \in Copies, i \in 0 .. FatBytes(bits) - 1 :
        <<k, SectorOf(i)>> \notin dirty => mem[k][i] = disk[k][i]

(* On FAT16 and FAT32, where no entry is in two sectors.                   *)
ChangedIsDirtyWide == bits # 12 => ChangedIsDirty
=============================================================================
