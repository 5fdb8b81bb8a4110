-------------------------------- MODULE Boot --------------------------------
(***************************************************************************)
(* The geometry of a filesystem: what lib/boot.c computes from the fields  *)
(* of a boot sector, and how it sets them.                                 *)
(*                                                                         *)
(* A boot sector is a record of the fields that give sizes and positions.  *)
(* The number of sectors and the size of a table are in two fields each,   *)
(* one of 16 bits and one of 32; which of them counts depends on the type  *)
(* of the filesystem (12, 16 or 32 bits), the type on the number of        *)
(* clusters, and that on the two sizes.  The functions that break the      *)
(* circle are called with a null pointer in place of the bits: ANY.        *)
(***************************************************************************)
EXTENDS Integers

CONSTANTS
    MaxSectors,   \* bound of the number of sectors of a filesystem
    TooMany       \* clusters taken when there are less than none (0x7FFFFFFF)

ANY == 0
NONE == -1
Types == {12, 16, 32}

FAT_ROOT == 1
FAT_FIRST == 2

Sizes16 == 0 .. 65535

BootSector ==
    [bytes : {512, 1024, 2048, 4096}, spc : 0 .. 255, reserved : Sizes16,
     numfats : 0 .. 255, sectors16 : Sizes16, sectors32 : 0 .. MaxSectors,
     fatsize16 : Sizes16, fatsize32 : 0 .. TooMany,
     rootentries : Sizes16, rootbegin : {0, FAT_ROOT, FAT_FIRST},
     infopos : Sizes16, backup : Sizes16]

-----------------------------------------------------------------------------
(* The quotients of a division rounded to the next.                        *)
CeilDiv(a, b) == (a + b - 1) \div b

(* _onebit(): one of the eight bits of a byte is set.                      *)
OneBit(c) == c \in {1, 2, 4, 8, 16, 32, 64, 128}

BitsFromClusters(n) == IF n < 4085 THEN 12 ELSE IF n < 65525 THEN 16 ELSE 32

BytesPerCluster(b) == b.bytes * b.spc

GetNumSectors(b, bits) ==
    IF bits = 32 \/ b.sectors16 = 0 THEN b.sectors32 ELSE b.sectors16

GetFatSize(b, bits) ==
    IF bits = 32 \/ (bits = ANY /\ b.fatsize16 = 0) THEN b.fatsize32 ELSE b.fatsize16

GetRootEntries(b, bits) == IF bits = 32 THEN 0 ELSE b.rootentries

NumRootSectors(b, bits) == CeilDiv(GetRootEntries(b, bits) * 32, b.bytes)

(* The sectors before the first data cluster.                              *)
Overhead(b, bits) ==
    b.reserved + b.numfats * GetFatSize(b, bits) + NumRootSectors(b, bits)

NumDataClusters(b, bits) ==
    IF GetNumSectors(b, bits) < Overhead(b, bits) THEN -1
    ELSE (GetNumSectors(b, bits) - Overhead(b, bits)) \div b.spc

LastCluster(b, bits) == 2 + NumDataClusters(b, bits) - 1

IsValidCluster(b, bits, n) == n \in FAT_FIRST .. LastCluster(b, bits)

(* fatbootbits(): the type as the numbers in the sector give it.           *)
BootBits(b) ==
    IF b.bytes = 0 \/ b.spc = 0 THEN NONE
    ELSE BitsFromClusters(NumDataClusters(b, ANY))

(* _fatbootbits(): the type, if known already; it is never reconsidered.   *)
Bits(b, known) == IF known # 0 THEN known ELSE BootBits(b)

RootBegin(b, bits) ==
    CASE bits \in {12, 16} -> FAT_ROOT
      [] bits = 32 -> b.rootbegin
      [] OTHER -> NONE

-----------------------------------------------------------------------------
(* Setting: a boot sector, the same if the function returns an error.      *)
SetNumSectors(b, bits, sectors) ==
    IF bits = 12 /\ sectors > 65535 THEN b
    ELSE IF bits \in {12, 16} /\ sectors <= 65535
    THEN [b EXCEPT !.sectors16 = sectors]
    ELSE [b EXCEPT !.sectors16 = 0, !.sectors32 = sectors]

SetFatSize(b, bits, size) ==
    IF bits = 32 THEN [b EXCEPT !.fatsize16 = 0, !.fatsize32 = size]
    ELSE [b EXCEPT !.fatsize16 = size % 65536, !.fatsize32 = 0]

SetSectorsPerCluster(b, sectors) ==
    IF OneBit(sectors) THEN [b EXCEPT !.spc = sectors] ELSE b

(* The entries of the root directory must fill clusters.                   *)
RootEntriesAllowed(b, entries) == (entries * 32) % BytesPerCluster(b) = 0

SetRootEntries(b, bits, entries) ==
    [b EXCEPT !.rootentries = IF bits = 32 THEN 0 ELSE entries]

SetRootBegin(b, bits, n) ==
    IF bits = 32 THEN [b EXCEPT !.rootbegin = n] ELSE b

SetBackupSector(b, sector) ==
    IF sector = 0 \/ sector > b.reserved \/ sector = b.infopos THEN b
    ELSE [b EXCEPT !.backup = sector]

GetBackupSector(b) == IF b.backup \in {0, 65535} THEN NONE ELSE b.backup

-----------------------------------------------------------------------------
(* fatbootminfatsize(): the sectors that hold the entries of nclusters.    *)
TableBytes(bits, nentries) ==
    (nentries * bits) \div 8 + (IF bits = 12 /\ nentries % 2 = 1 THEN 1 ELSE 0)

(* The two entries of the header are forgotten.                            *)
MinFatSizeData(b, nclusters) ==
    CeilDiv(TableBytes(BootBits(b), nclusters), b.bytes)

MinFatSize(b, nclusters) ==
    CeilDiv(TableBytes(BootBits(b), 2 + nclusters), b.bytes)

(* Is there room for one cluster after the rest?                           *)
ConsistentSize(b, bits) ==
    b.reserved + GetFatSize(b, bits) * b.numfats
        + (GetRootEntries(b, bits) * 32) \div b.bytes
        + b.spc * (IF bits = 32 THEN 2 ELSE 1)
      <= GetNumSectors(b, bits)

(* The entry of the last cluster is in the table.                          *)
TableHolds(b, bits) ==
    (GetFatSize(b, bits) * b.bytes * 8) \div bits >= LastCluster(b, bits) + 1

(* fatbootcheck(): the sector has no penalty.  The media descriptor is one *)
(* of those allowed.                                                       *)
Check(b) ==
    LET bits == BootBits(b)
    IN  /\ OneBit(b.spc)
        /\ b.reserved # 0 /\ b.numfats # 0
        /\ LastCluster(b, bits) >= FAT_FIRST
        /\ TableHolds(b, bits)
        /\ bits = 32 /\ b.infopos \notin {0, 65535} => b.infopos < b.reserved
        /\ bits = 32 => GetBackupSector(b) < b.reserved
        /\ (GetRootEntries(b, bits) * 32) % b.bytes = 0
        /\ bits = 32 => IsValidCluster(b, bits, RootBegin(b, bits))
=============================================================================
