------------------------------ MODULE Geometry ------------------------------
(***************************************************************************)
(* The programs that decide the geometry of a filesystem: fattool format,  *)
(* that looks for a size of the tables that holds the clusters the tables  *)
(* leave; opening what was formatted; fatshrink and fattool setlastcluster, *)
(* that change the number of sectors of a filesystem and nothing else.     *)
(*                                                                         *)
(* The search is a loop in a loop: fatbootbestfatsize() alternates between *)
(* the number of clusters and the size of a table until it comes back to   *)
(* where it was two steps before; fatsetsize() repeats it until the type   *)
(* it assumed is the one that results.                                     *)
(***************************************************************************)
EXTENDS Boot, Sequences

CONSTANTS
    Devices,      \* sizes in sectors that may be asked for
    Clusters,     \* sectors per cluster that may be asked for
    RootSizes,    \* entries in the root directory asked for; 0: the default
    Resizes,      \* changes of the number of sectors, or of clusters, tried
    MaxExtra      \* bound of the sectors added to the size of a table

ASSUME GeometryAssumption ==
    /\ Devices \subseteq 1 .. MaxSectors /\ MaxSectors \in Nat
    /\ \A c \in Clusters : OneBit(c)
    /\ RootSizes \subseteq Sizes16 /\ Resizes \subseteq Int
    /\ MaxExtra \in 0 .. 32767

(* A table for TooMany clusters is of one sector to a field of 16 bits, as *)
(* it is for 0x7FFFFFFF.                                                   *)
ASSUME TooManyAssumption ==
    /\ TooMany \in Nat /\ TooMany > MaxSectors /\ TooMany >= 1000000
    /\ CeilDiv(TableBytes(12, 2 + TooMany), 512) % 65536 = 1

VARIABLES
    boot,         \* f->boot: the boot sector in memory
    known,        \* f->bits: the type, once computed; 0 if not
    device,       \* the boot sector on the device
    table,        \* type of the entries the tables were written with
    phase,        \* where the program is
    rootsize,     \* maxentries, the argument
    assumed,      \* bits of fatsetsize(): the type the sizes are computed for
    extra,        \* extra of fatsetsize(): sectors to add to the size
    tried,        \* the last three numbers of clusters and sizes tried
    asked         \* what the last change of size was asked to obtain

loops == <<assumed, extra, tried>>
vars == <<boot, known, device, table, phase, rootsize, loops, asked>>

NoBoot == [bytes |-> 0]
Nothing == [kind |-> "none"]

SectorSize == 512

(* A sector of zeros with the numbers fatformat() knows already.  The type *)
(* is asked for when the sectors per cluster are still zero, so that it is *)
(* -1 and the number of sectors goes in the field of 32 bits.              *)
Blank(sectors, spc) ==
    LET zero == [bytes |-> SectorSize, spc |-> 0, reserved |-> 0, numfats |-> 2,
                 sectors16 |-> 0, sectors32 |-> 0, fatsize16 |-> 0, fatsize32 |-> 0,
                 rootentries |-> 0, rootbegin |-> 0, infopos |-> 0, backup |-> 0]
    IN  SetSectorsPerCluster(SetNumSectors(zero, BootBits(zero), sectors), spc)

Init ==
    /\ \E s \in Devices, c \in Clusters : boot = Blank(s, c)
    /\ known = NONE
    /\ device = NoBoot /\ table = NONE
    /\ rootsize \in RootSizes
    /\ assumed = 12 /\ extra = 0 /\ tried = <<>>
    /\ phase = "round" /\ asked = Nothing

(* The type of the state.                                                  *)
TypeOK ==
    /\ boot \in BootSector
    /\ known \in Types \cup {0, NONE}
    /\ device \in BootSector \cup {NoBoot}
    /\ table \in Types \cup {NONE}
    /\ phase \in {"round", "search", "sized", "closed", "open", "refused"}
    /\ rootsize \in RootSizes
    /\ assumed \in Types /\ extra \in 0 .. MaxExtra + 1
    /\ tried \in Seq([clusters : Nat \cup {NONE}, size : Nat \ {0}]) /\ Len(tried) <= 3

-----------------------------------------------------------------------------
(* fatsetsize(): a round of the outer loop begins.                         *)
BeginRound ==
    /\ phase = "round"
    /\ extra <= MaxExtra
    /\ known' = assumed
    /\ boot' = SetFatSize([boot EXCEPT !.reserved = IF assumed = 32 THEN 32 ELSE 1],
                          12, 1)
    /\ tried' = <<>>
    /\ phase' = "search"
    /\ UNCHANGED <<device, table, rootsize, assumed, extra, asked>>

(* The last try is that before.                                            *)
ComesBackAtOnce == Len(tried) = 3 /\ tried[2] = tried[3]

(* fatbootbestfatsize(): the last try is that of two before.               *)
ComesBack == Len(tried) = 3 /\ tried[1] = tried[3]

(* A size of more than 16 bits on a type that has 16 is the greatest of    *)
(* them.                                                                   *)
StoreFatSize(b, size) ==
    LET stored == SetFatSize(b, BootBits(b), size)
    IN  IF GetFatSize(stored, ANY) < size
        THEN SetFatSize(stored, BootBits(stored), 65535) ELSE stored

(* The clusters the tables leave and the size of the tables they need.     *)
TrySize ==
    /\ phase = "search" /\ ~ ComesBack
    /\ \E n \in {NumDataClusters(boot, ANY)} :
       \E size \in {MinFatSize(boot, IF n < 0 THEN TooMany ELSE n)} :
          /\ boot' = StoreFatSize(boot, size)
          /\ tried' = (IF Len(tried) = 3 THEN Tail(tried) ELSE tried)
                         \o << [clusters |-> n, size |-> size] >>
    /\ UNCHANGED <<known, device, table, phase, rootsize, assumed, extra, asked>>

(* The size that was found is set with what is to be added, and the type   *)
(* computed anew: the same, or one more round.                             *)
EndRound ==
    /\ phase = "search" /\ ComesBack
    /\ \E best \in {tried[Len(tried)].size} :
       \E b \in {SetFatSize(SetFatSize(boot, BootBits(boot), best),
                            assumed, best + extra)} :
       \E type \in {IF NumDataClusters(b, assumed) < 0 THEN 32 ELSE BootBits(b)} :
          /\ boot' = b /\ known' = type
          /\ IF type = assumed
             THEN phase' = "sized" /\ UNCHANGED <<assumed, extra>>
             ELSE /\ phase' = "round" /\ assumed' = type
                  /\ extra' = IF assumed > type THEN extra + 1 ELSE extra
    /\ UNCHANGED <<device, table, rootsize, tried, asked>>

(* fatsetentries(): the default is 256 entries, or a cluster of them.      *)
MaxEntries(b) ==
    IF rootsize # 0 THEN rootsize
    ELSE IF 256 * 32 < BytesPerCluster(b) THEN BytesPerCluster(b) \div 32 ELSE 256

Acceptable(b) ==
    /\ NumDataClusters(b, known) >= 0
    /\ ConsistentSize(b, known)
    /\ RootEntriesAllowed(b, MaxEntries(b))

(* The position of the information sector and of the backup.               *)
Finished(b, bits) ==
    IF bits = 32
    THEN SetBackupSector([SetRootBegin(b, bits, FAT_FIRST) EXCEPT !.infopos = 1], 6)
    ELSE SetRootBegin(b, bits, FAT_ROOT)

(* fatformat() after the sizes are set: refused, or written.               *)
Refuse ==
    /\ phase = "sized" /\ ~ Acceptable(boot)
    /\ phase' = "refused"
    /\ UNCHANGED <<boot, known, device, table, rootsize, loops, asked>>

Format ==
    /\ phase = "sized" /\ Acceptable(boot)
    /\ boot' = Finished(SetRootEntries(boot, known, MaxEntries(boot)), known)
    /\ device' = boot' /\ table' = known
    /\ phase' = "closed"
    /\ UNCHANGED <<known, rootsize, loops, asked>>

-----------------------------------------------------------------------------
(* fatopen() and the check fattool and fatshrink do after it: the type is  *)
(* computed from the sector.                                               *)
Open ==
    /\ phase = "closed"
    /\ boot' = device /\ known' = BootBits(device)
    /\ phase' = IF Check(device) THEN "open" ELSE "refused"
    /\ asked' = Nothing
    /\ UNCHANGED <<device, table, rootsize, loops>>

(* fatshrink: the change is tried on a copy of the boot sector, that must  *)
(* keep the type; whatever is moved or cut (Programs), the number of       *)
(* sectors is set in the end.                                              *)
ShrunkCopy(b, sectors) == SetNumSectors(b, BootBits(b), sectors)

(* The type is not looked at.                                              *)
ShrinksAnyway(b, sectors) ==
    /\ sectors < GetNumSectors(b, known) /\ sectors >= 10
    /\ NumDataClusters(ShrunkCopy(b, sectors), known) >= 0

Shrinks(b, sectors) ==
    /\ sectors < GetNumSectors(b, known) /\ sectors >= 10
    /\ BootBits(ShrunkCopy(b, sectors)) = known
    /\ NumDataClusters(ShrunkCopy(b, sectors), known) >= 0

Shrink(sectors) ==
    /\ phase = "open" /\ asked = Nothing
    /\ Shrinks(boot, sectors)
    /\ boot' = SetNumSectors(boot, known, sectors)
    /\ device' = boot'
    /\ asked' = [kind |-> "sectors", value |-> sectors,
                 last |-> LastCluster(ShrunkCopy(boot, sectors), known)]
    /\ phase' = "closed"
    /\ UNCHANGED <<known, table, rootsize, loops>>

(* fattool setlastcluster: constrained by the size of the tables and, if   *)
(* not told otherwise, by that of the device.                              *)
LastAllowed(b, last) ==
    /\ last >= 2
    /\ CeilDiv(last * known, 8) < GetFatSize(b, known) * b.bytes

SectorsFor(b, last) == (last - 1) * b.spc + Overhead(b, known)

SetLastCluster(last) ==
    /\ phase = "open" /\ asked = Nothing
    /\ LastAllowed(boot, last) /\ SectorsFor(boot, last) <= MaxSectors
    /\ boot' = SetNumSectors(boot, known, SectorsFor(boot, last))
    /\ device' = boot'
    /\ asked' = [kind |-> "last", value |-> last, last |-> last]
    /\ phase' = "closed"
    /\ UNCHANGED <<known, table, rootsize, loops>>

-----------------------------------------------------------------------------
(* fatzero(): the tables are emptied.  The entries of the first clusters   *)
(* are set one by one; the rest of a large table is filled by writing its  *)
(* second sector, that is all zeros, at every other place.                 *)
TableBegin(b, bits, nfat) == b.reserved + nfat * GetFatSize(b, bits)

EntrySector(b, bits, nfat, cl) ==
    TableBegin(b, bits, nfat)
        + ((cl * (bits \div 4)) \div 2 + (IF bits = 12 THEN 1 ELSE 0)) \div b.bytes

Pilot(b) == 2 * b.bytes

(* fatinittable(): the last sector it writes.                              *)
LastInitialised(b, bits, nfat) ==
    IF LastCluster(b, bits) <= Pilot(b)
    THEN EntrySector(b, bits, nfat, LastCluster(b, bits))
    ELSE TableBegin(b, bits, nfat) + GetFatSize(b, bits) - 1

Step == BeginRound \/ TrySize \/ EndRound \/ Refuse \/ Format

Next ==
    \/ Step
    \/ Open
    \/ \E n \in Resizes : Shrink(n) \/ SetLastCluster(n)

(* Each program runs to its end.                                           *)
Spec == Init /\ [][Next]_vars /\ WF_vars(Step)

-----------------------------------------------------------------------------
(* The search for the size of the tables ends, whatever the size of the    *)
(* device and of the clusters: neither loop goes on for ever, although a   *)
(* larger table leaves fewer clusters, which need a smaller table, and the *)
(* type the sizes are computed for may be none that results.               *)
SizingEnds == <>(phase \notin {"round", "search"})

Formatted == phase = "closed" /\ asked = Nothing

(* The search ended on a size, not between two.                            *)
Settled == tried[Len(tried)] = tried[Len(tried) - 1]

(* The entries of the root directory, that are set when the sizes are, did *)
(* not take the clusters that make the type.                               *)
RootFits == NumDataClusters(device, table) >= 1 /\ BootBits(device) = table

(* What fattool format writes is a filesystem to the check that opening it *)
(* does: the tables hold all clusters, after however many rounds and       *)
(* sectors added, if the search settled and the root directory fits.       *)
FormatOpens == Formatted /\ Settled /\ RootFits => Check(device)

(* Emptying a table writes in that table only, and in all of it if it is   *)
(* filled sector by sector: the last sector written is in the table.       *)
InitInside ==
    Formatted /\ Settled /\ RootFits =>
        \A nfat \in 0 .. device.numfats - 1 :
            LastInitialised(device, table, nfat) < TableBegin(device, table, nfat + 1)

(* Formatting leaves a filesystem that opens, with the tables emptied and  *)
(* nothing else.                                                           *)
FormatSound == TypeOK /\ FormatOpens /\ InitInside

(* The field that holds the number of sectors of a FAT12 has 16 bits when  *)
(* it is set.                                                              *)
FieldHolds(n) == known # 12 \/ n <= 65535

ShrunkExact ==
    /\ GetNumSectors(device, known) = asked.value
    /\ LastCluster(device, known) = asked.last
    /\ BootBits(device) = known
    /\ asked.last >= FAT_FIRST => Check(device)

(* The entry of the last cluster of a FAT12 begins in the last byte of the *)
(* table: setlastcluster counts the bits before the entry and not its own. *)
LastSplit ==
    known = 12 /\ (asked.last * 12) \div 8 + 1 = GetFatSize(device, known) * device.bytes

LastExact ==
    /\ LastCluster(device, known) = asked.last
    /\ TableHolds(device, known) \/ LastSplit

(* A change of size gives the filesystem that was asked for, and that      *)
(* fatshrink computed on a copy of the boot sector before moving and       *)
(* cutting files: the same last cluster, the same type, and a table that   *)
(* still holds all entries (of the last, half in the case of LastSplit).   *)
ResizeExact ==
    /\ (asked.kind = "sectors" /\ FieldHolds(asked.value)) => ShrunkExact
    /\ (asked.kind = "last" /\ FieldHolds(SectorsFor(device, asked.last))) => LastExact

(* As lib/boot.c says of fatbootbestfatsize(), the size of each table is   *)
(* the least that is enough: the entries of all clusters are in it.        *)
TableHoldsClusters ==
    Formatted /\ RootFits => TableHolds(device, table)
=============================================================================
