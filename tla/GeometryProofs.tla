--------------------------- MODULE GeometryProofs ---------------------------
(***************************************************************************)
(* Proofs about Geometry, for any sizes of devices and of clusters, any    *)
(* number of entries in the root directory and any change of size.         *)
(***************************************************************************)
EXTENDS Geometry, TLAPS

LEMMA SizesAre ==
    /\ OneBit(1) /\ \A c : OneBit(c) => c \in 1 .. 255
    /\ MaxSectors \in Nat /\ TooMany \in Nat
  BY GeometryAssumption, TooManyAssumption DEF OneBit

LEMMA AreBounded == ASSUME NEW x \in Sizes16 PROVE x \in Nat /\ x <= 65535
  BY DEF Sizes16

LEMMA Bounded16 == ASSUME NEW x \in Nat, x <= 65535 PROVE x \in Sizes16
<1>1. PICK m \in Nat : m = 65535
  OBVIOUS
<1>2. x <= m
  BY <1>1
<1>3. x \in 0 .. m
  BY <1>2
<1> QED BY <1>1, <1>3 DEF Sizes16

LEMMA FieldsAre ==
    ASSUME NEW b \in BootSector
    PROVE  /\ b.bytes \in {512, 1024, 2048, 4096}
           /\ b.spc \in 0 .. 255 /\ b.numfats \in 0 .. 255
           /\ b.reserved \in Nat /\ b.reserved <= 65535
           /\ b.sectors16 \in Nat /\ b.sectors16 <= 65535
           /\ b.sectors32 \in Nat /\ b.sectors32 <= MaxSectors
           /\ b.fatsize16 \in Nat /\ b.fatsize16 <= 65535
           /\ b.fatsize32 \in Nat /\ b.fatsize32 <= TooMany
           /\ b.rootentries \in Nat /\ b.rootentries <= 65535
           /\ b.rootbegin \in {0, FAT_ROOT, FAT_FIRST}
           /\ b.infopos \in Nat /\ b.backup \in Nat
<1>1. b.bytes \in {512, 1024, 2048, 4096}
  BY SMTT(20) DEF BootSector
<1>2. b.spc \in 0 .. 255 /\ b.numfats \in 0 .. 255
  BY SMTT(20) DEF BootSector
<1>3. b.reserved \in Sizes16 /\ b.sectors16 \in Sizes16 /\ b.fatsize16 \in Sizes16
  BY SMTT(20) DEF BootSector
<1>4. b.rootentries \in Sizes16 /\ b.infopos \in Sizes16 /\ b.backup \in Sizes16
  BY SMTT(20) DEF BootSector
<1>5. b.sectors32 \in 0 .. MaxSectors /\ b.fatsize32 \in 0 .. TooMany
  BY SMTT(20) DEF BootSector
<1>6. b.rootbegin \in {0, FAT_ROOT, FAT_FIRST}
  BY SMTT(20) DEF BootSector
<1>7. \A n, x : n \in Nat /\ x \in 0 .. n => x \in Nat /\ x <= n
  OBVIOUS
<1>8. MaxSectors \in Nat /\ TooMany \in Nat
  BY SizesAre
<1> QED BY <1>1, <1>2, <1>3, <1>4, <1>5, <1>6, <1>7, <1>8, AreBounded

(* Dividing by the size of a cluster.                                      *)
LEMMA Quotient ==
    ASSUME NEW c, OneBit(c), NEW x \in Nat, NEW y \in Nat, x <= y
    PROVE  x \div c \in Nat /\ x \div c <= y \div c /\ x \div c <= x
  BY SMTT(30) DEF OneBit

LEMMA WholeQuotient ==
    ASSUME NEW c, OneBit(c), NEW x \in Nat
    PROVE  (x * c) \div c = x
  BY SMTT(30) DEF OneBit

(* What the search keeps: one size of the table, in one of two fields.     *)
Fresh(b) ==
    /\ b.bytes = SectorSize /\ OneBit(b.spc) /\ b.numfats = 2
    /\ b.sectors16 = 0 /\ b.rootentries = 0 /\ b.infopos = 0 /\ b.backup = 0

FatSizeIs(b, s) ==
    \/ b.fatsize16 = 0 /\ b.fatsize32 = s
    \/ b.fatsize16 = s /\ b.fatsize32 = 0

(* The clusters that tables of a size leave.                               *)
Left(b, s) ==
    IF b.sectors32 < b.reserved + 2 * s THEN -1
    ELSE (b.sectors32 - (b.reserved + 2 * s)) \div b.spc

Needed(n) == CeilDiv(TableBytes(BitsFromClusters(n), 2 + n), SectorSize)

LEMMA SizesFound ==
    ASSUME NEW b \in BootSector, Fresh(b), NEW s \in Nat, FatSizeIs(b, s), NEW bits,
           GetFatSize(b, bits) = s
    PROVE  /\ NumDataClusters(b, bits) = Left(b, s)
           /\ GetNumSectors(b, bits) = b.sectors32
           /\ Overhead(b, bits) = b.reserved + 2 * s
<1>1. NumRootSectors(b, bits) = 0
  BY SMTT(30) DEF NumRootSectors, GetRootEntries, CeilDiv, Fresh, SectorSize
<1>2. GetNumSectors(b, bits) = b.sectors32 /\ b.reserved \in Nat /\ b.sectors32 \in Nat
  BY FieldsAre DEF GetNumSectors, Fresh
<1>3. Overhead(b, bits) = b.reserved + 2 * s
  BY <1>1, <1>2, SMTT(30) DEF Overhead, Fresh
<1> QED BY <1>2, <1>3 DEF NumDataClusters, Left

LEMMA ClustersLeft ==
    ASSUME NEW b \in BootSector, Fresh(b), NEW s \in Nat, FatSizeIs(b, s)
    PROVE  /\ GetFatSize(b, ANY) = s
           /\ NumDataClusters(b, ANY) = Left(b, s)
           /\ BootBits(b) = BitsFromClusters(Left(b, s))
<1>1. GetFatSize(b, ANY) = s
  BY FieldsAre, SMTT(30) DEF GetFatSize, FatSizeIs, ANY
<1>2. NumDataClusters(b, ANY) = Left(b, s)
  BY <1>1, SizesFound
<1>3. b.bytes # 0 /\ b.spc # 0
  BY SizesAre DEF Fresh, SectorSize
<1> QED BY <1>1, <1>2, <1>3 DEF BootBits

LEMMA LeftIs ==
    ASSUME NEW b \in BootSector, Fresh(b), NEW s \in Nat
    PROVE  /\ Left(b, s) \in Nat \cup {-1} /\ Left(b, s) <= MaxSectors
           /\ Left(b, s) \in Nat <=> b.sectors32 >= b.reserved + 2 * s
           /\ \A t \in Nat : s <= t => Left(b, t) <= Left(b, s)
<1>1. b.reserved \in Nat /\ b.sectors32 \in Nat /\ b.sectors32 <= MaxSectors
  BY FieldsAre, SizesAre, SMTT(30)
<1>2. ASSUME NEW t \in Nat, b.sectors32 >= b.reserved + 2 * t
      PROVE  /\ b.sectors32 - (b.reserved + 2 * t) \in Nat
             /\ Left(b, t) = (b.sectors32 - (b.reserved + 2 * t)) \div b.spc
             /\ Left(b, t) \in Nat /\ Left(b, t) <= MaxSectors
  <2>1. b.sectors32 - (b.reserved + 2 * t) \in Nat
    BY <1>1, <1>2, SMTT(30)
  <2>2. Left(b, t) = (b.sectors32 - (b.reserved + 2 * t)) \div b.spc
    BY <1>1, <1>2, SMTT(30) DEF Left
  <2> DEFINE x == b.sectors32 - (b.reserved + 2 * t)
  <2>3. x \in Nat /\ x <= MaxSectors
    BY <1>1, <2>1, SizesAre, SMTT(30)
  <2>4. x \div b.spc \in Nat /\ x \div b.spc <= x
    <3> HIDE DEF x
    <3> QED BY <2>3, Quotient DEF Fresh
  <2> HIDE DEF x
  <2>5. x \div b.spc <= MaxSectors
    BY <2>3, <2>4, SizesAre, SMTT(30)
  <2> QED BY <2>1, <2>2, <2>4, <2>5 DEF x
<1>3. ASSUME NEW t \in Nat, b.sectors32 < b.reserved + 2 * t
      PROVE  Left(b, t) = -1
  BY <1>3 DEF Left
<1>4. \A t \in Nat : b.sectors32 < b.reserved + 2 * t \/ b.sectors32 >= b.reserved + 2 * t
  BY <1>1, SMTT(30)
<1>5. \A t \in Nat : Left(b, t) \in Nat \cup {-1} /\ Left(b, t) <= MaxSectors
  BY <1>2, <1>3, <1>4, SizesAre, SMTT(30)
<1>6. ASSUME NEW t \in Nat, s <= t
      PROVE  Left(b, t) <= Left(b, s)
  <2>1. CASE b.sectors32 < b.reserved + 2 * t
    BY <1>3, <1>5, <2>1, SMTT(30)
  <2>2. CASE b.sectors32 >= b.reserved + 2 * t
    <3>1. b.sectors32 >= b.reserved + 2 * s
      BY <1>1, <1>6, <2>2, SMTT(30)
    <3>2. PICK x \in Nat : x = b.sectors32 - (b.reserved + 2 * t) /\ Left(b, t) = x \div b.spc
      BY <1>2, <2>2
    <3>3. PICK y \in Nat : y = b.sectors32 - (b.reserved + 2 * s) /\ Left(b, s) = y \div b.spc
      BY <1>2, <3>1
    <3>4. x <= y
      BY <1>1, <1>6, <3>2, <3>3, SMTT(30)
    <3> QED BY <3>2, <3>3, <3>4, Quotient DEF Fresh
  <2> QED BY <1>4, <2>1, <2>2
<1>7. Left(b, s) \in Nat <=> b.sectors32 >= b.reserved + 2 * s
  BY <1>2, <1>3, <1>4, SMTT(30)
<1> QED BY <1>5, <1>6, <1>7

(* The table for n clusters holds their entries and those of the header,   *)
(* by less than one sector.                                                *)
LEMMA NeededIs ==
    ASSUME NEW n \in Nat
    PROVE  /\ Needed(n) \in Nat \ {0}
           /\ 4096 * Needed(n) >= BitsFromClusters(n) * (n + 2)
           /\ 2 * Needed(n) <= n + 2
           /\ BitsFromClusters(n) # 32 => Needed(n) <= 256
  BY SMTT(60) DEF Needed, CeilDiv, TableBytes, BitsFromClusters, SectorSize

(* Changing one field, and two.                                            *)
LEMMA FieldSet ==
    ASSUME NEW b \in BootSector
    PROVE  /\ \A t \in Sizes16 :
                 /\ [b EXCEPT !.fatsize16 = t] \in BootSector
                 /\ [b EXCEPT !.sectors16 = t] \in BootSector
                 /\ [b EXCEPT !.reserved = t] \in BootSector
                 /\ [b EXCEPT !.rootentries = t] \in BootSector
                 /\ [b EXCEPT !.infopos = t] \in BootSector
                 /\ [b EXCEPT !.backup = t] \in BootSector
           /\ \A n \in 0 .. TooMany : [b EXCEPT !.fatsize32 = n] \in BootSector
           /\ \A n \in 0 .. MaxSectors : [b EXCEPT !.sectors32 = n] \in BootSector
           /\ \A r \in {0, FAT_ROOT, FAT_FIRST} : [b EXCEPT !.rootbegin = r] \in BootSector
           /\ \A n \in 0 .. 255 : [b EXCEPT !.spc = n] \in BootSector
<1>1. ASSUME NEW t \in Sizes16
      PROVE  /\ [b EXCEPT !.fatsize16 = t] \in BootSector
             /\ [b EXCEPT !.sectors16 = t] \in BootSector
             /\ [b EXCEPT !.reserved = t] \in BootSector
             /\ [b EXCEPT !.rootentries = t] \in BootSector
             /\ [b EXCEPT !.infopos = t] \in BootSector
             /\ [b EXCEPT !.backup = t] \in BootSector
  BY SMTT(20) DEF BootSector
<1>2. ASSUME NEW n \in 0 .. TooMany
      PROVE  [b EXCEPT !.fatsize32 = n] \in BootSector
  BY SMTT(20) DEF BootSector
<1>3. ASSUME NEW n \in 0 .. MaxSectors
      PROVE  [b EXCEPT !.sectors32 = n] \in BootSector
  BY SMTT(20) DEF BootSector
<1>4. ASSUME NEW r \in {0, FAT_ROOT, FAT_FIRST}
      PROVE  [b EXCEPT !.rootbegin = r] \in BootSector
  BY SMTT(20) DEF BootSector
<1>5. ASSUME NEW n \in 0 .. 255
      PROVE  [b EXCEPT !.spc = n] \in BootSector
  BY SMTT(20) DEF BootSector
<1> QED BY <1>1, <1>2, <1>3, <1>4, <1>5

LEMMA TwoSet ==
    ASSUME NEW b \in BootSector
    PROVE  /\ \A t \in Sizes16, n \in 0 .. TooMany :
                 [b EXCEPT !.fatsize16 = t, !.fatsize32 = n] \in BootSector
           /\ \A t \in Sizes16, n \in 0 .. MaxSectors :
                 [b EXCEPT !.sectors16 = t, !.sectors32 = n] \in BootSector
<1>1. ASSUME NEW t \in Sizes16, NEW n \in 0 .. TooMany
      PROVE  [b EXCEPT !.fatsize16 = t, !.fatsize32 = n] \in BootSector
  <2>1. [b EXCEPT !.fatsize16 = t, !.fatsize32 = n]
          = [[b EXCEPT !.fatsize16 = t] EXCEPT !.fatsize32 = n]
    OBVIOUS
  <2> QED BY <2>1, FieldSet
<1>2. ASSUME NEW t \in Sizes16, NEW n \in 0 .. MaxSectors
      PROVE  [b EXCEPT !.sectors16 = t, !.sectors32 = n] \in BootSector
  <2>1. [b EXCEPT !.sectors16 = t, !.sectors32 = n]
          = [[b EXCEPT !.sectors16 = t] EXCEPT !.sectors32 = n]
    OBVIOUS
  <2> QED BY <2>1, FieldSet
<1> QED BY <1>1, <1>2

(* The other fields are as they were.                                      *)
SameBut(b, c) ==
    /\ c.bytes = b.bytes /\ c.spc = b.spc /\ c.numfats = b.numfats
    /\ c.reserved = b.reserved /\ c.sectors16 = b.sectors16 /\ c.sectors32 = b.sectors32
    /\ c.rootentries = b.rootentries /\ c.infopos = b.infopos /\ c.backup = b.backup
    /\ c.rootbegin = b.rootbegin

LEMMA SizeStored ==
    ASSUME NEW b \in BootSector, NEW bits, NEW s \in Nat, s <= TooMany
    PROVE  /\ SetFatSize(b, bits, s) \in BootSector
           /\ SameBut(b, SetFatSize(b, bits, s))
           /\ bits = 32 => /\ SetFatSize(b, bits, s).fatsize16 = 0
                           /\ SetFatSize(b, bits, s).fatsize32 = s
           /\ bits # 32 => /\ SetFatSize(b, bits, s).fatsize16 = s % 65536
                           /\ SetFatSize(b, bits, s).fatsize32 = 0
<1>1. s % 65536 \in Nat /\ s % 65536 <= 65535 /\ 0 \in 0 .. TooMany /\ s \in 0 .. TooMany
  BY SizesAre, SMTT(30)
<1>2. s % 65536 \in Sizes16 /\ 0 \in Sizes16
  BY <1>1, Bounded16, SMTT(30)
<1>3. PICK t \in Sizes16 : (bits = 32 => t = 0) /\ (bits # 32 => t = s % 65536)
  <2>1. CASE bits = 32
    BY <1>2, <2>1
  <2>2. CASE bits # 32
    BY <1>2, <2>2
  <2> QED BY <2>1, <2>2
<1>4. PICK n \in 0 .. TooMany : (bits = 32 => n = s) /\ (bits # 32 => n = 0)
  BY <1>1
<1>5. PICK c : c = [b EXCEPT !.fatsize16 = t, !.fatsize32 = n]
  OBVIOUS
<1>6. SetFatSize(b, bits, s) = c
  <2>1. CASE bits = 32
    BY <1>3, <1>4, <1>5, <2>1 DEF SetFatSize
  <2>2. CASE bits # 32
    BY <1>3, <1>4, <1>5, <2>2 DEF SetFatSize
  <2> QED BY <2>1, <2>2
<1>7. [b EXCEPT !.fatsize16 = t, !.fatsize32 = n] \in BootSector
  BY TwoSet
<1>8. SameBut(b, c) /\ c.fatsize16 = t /\ c.fatsize32 = n
  BY <1>5, SMTT(30) DEF SameBut, BootSector
<1>9. c \in BootSector
  BY <1>5, <1>7, Zenon
<1> QED BY <1>3, <1>4, <1>6, <1>8, <1>9

(* A size that the type's field holds.                                     *)
LEMMA SizeKept ==
    ASSUME NEW b \in BootSector, Fresh(b), NEW bits, NEW s \in Nat,
           s <= TooMany, bits = 32 \/ s <= 65535
    PROVE  /\ SetFatSize(b, bits, s) \in BootSector /\ SameBut(b, SetFatSize(b, bits, s))
           /\ Fresh(SetFatSize(b, bits, s))
           /\ FatSizeIs(SetFatSize(b, bits, s), s)
<1>1. PICK c : c = SetFatSize(b, bits, s)
  OBVIOUS
<1>2. /\ c \in BootSector /\ SameBut(b, c)
      /\ bits = 32 => c.fatsize16 = 0 /\ c.fatsize32 = s
      /\ bits # 32 => c.fatsize16 = s % 65536 /\ c.fatsize32 = 0
  BY <1>1, SizeStored
<1>3. s <= 65535 => s % 65536 = s
  BY SMTT(30)
<1>4. FatSizeIs(c, s)
  <2>1. CASE bits = 32
    BY <1>2, <2>1 DEF FatSizeIs
  <2>2. CASE bits # 32
    BY <1>2, <1>3, <2>2 DEF FatSizeIs
  <2> QED BY <2>1, <2>2
<1>5. Fresh(c)
  BY <1>2 DEF Fresh, SameBut
<1> QED BY <1>1, <1>2, <1>4, <1>5

LEMMA LeftSame ==
    ASSUME NEW b, NEW c, SameBut(b, c), NEW s
    PROVE  Left(c, s) = Left(b, s)
  BY DEF Left, SameBut

(* The size of a table for more clusters than the sectors are.             *)
Excess == CeilDiv(TableBytes(12, 2 + TooMany), 512)

LEMMA ExcessIs == Excess \in Nat /\ Excess % 65536 = 1 /\ Excess > 0 /\ Excess + 32768 <= TooMany
<1>1. Excess % 65536 = 1
  BY TooManyAssumption DEF Excess
<1>2. Excess \in Nat /\ Excess + 32768 <= TooMany
  BY TooManyAssumption, SMTT(30) DEF Excess, CeilDiv, TableBytes
<1> QED BY <1>1, <1>2, SMTT(30)

LEMMA NeededSmall ==
    ASSUME NEW n \in Nat, n <= MaxSectors
    PROVE  Needed(n) + 32768 <= TooMany
  BY TooManyAssumption, SizesAre, SMTT(60)
     DEF Needed, CeilDiv, TableBytes, BitsFromClusters, SectorSize

LEMMA BitsAre ==
    /\ \A n : BitsFromClusters(n) \in Types
    /\ \A b \in BootSector : b.spc # 0 => BootBits(b) \in Types
<1>1. \A n : BitsFromClusters(n) \in Types
  BY DEF BitsFromClusters, Types
<1>2. \A b \in BootSector : b.bytes # 0
  BY FieldsAre
<1> QED BY <1>1, <1>2 DEF BootBits

(* One try: the number of clusters and the size of a table for it.         *)
LEMMA TryIs ==
    ASSUME NEW b \in BootSector, Fresh(b), NEW s \in Nat, FatSizeIs(b, s),
           NEW n, n = NumDataClusters(b, ANY),
           NEW size, size = MinFatSize(b, IF n < 0 THEN TooMany ELSE n)
    PROVE  /\ n = Left(b, s)
           /\ n \in Nat => size = Needed(n)
           /\ n = -1 => size = Excess
<1>1. n = Left(b, s) /\ BootBits(b) = BitsFromClusters(n)
  BY ClustersLeft
<1>2. CASE n \in Nat
  <2>1. size = MinFatSize(b, n)
    BY <1>2, SMTT(30)
  <2> QED BY <1>1, <1>2, <2>1, SMTT(30) DEF MinFatSize, Needed, Fresh
<1>3. CASE n = -1
  <2>1. size = MinFatSize(b, TooMany) /\ BitsFromClusters(n) = 12
    BY <1>3, SMTT(30) DEF BitsFromClusters
  <2> QED BY <1>1, <1>3, <2>1, SMTT(30) DEF MinFatSize, Excess, Fresh, SectorSize
<1> QED BY <1>1, <1>2, <1>3, SMTT(30)

LEMMA RoomyStored ==
    ASSUME NEW b \in BootSector, Fresh(b), NEW s \in Nat, FatSizeIs(b, s),
           Left(b, s) \in Nat, NEW size, size = Needed(Left(b, s))
    PROVE  /\ StoreFatSize(b, size) \in BootSector
           /\ SameBut(b, StoreFatSize(b, size)) /\ Fresh(StoreFatSize(b, size))
           /\ FatSizeIs(StoreFatSize(b, size), size)
           /\ size \in Nat \ {0} /\ size <= TooMany
<1>1. PICK n \in Nat : n = Left(b, s)
  OBVIOUS
<1>2. n <= MaxSectors
  BY <1>1, LeftIs
<1>3. size \in Nat \ {0} /\ size <= TooMany /\ (BitsFromClusters(n) # 32 => size <= 65535)
  BY <1>1, <1>2, NeededIs, NeededSmall, SizesAre, SMTT(30)
<1>4. BootBits(b) = BitsFromClusters(n)
  BY <1>1, ClustersLeft
<1>5. PICK c : c = SetFatSize(b, BootBits(b), size)
  OBVIOUS
<1>6. c \in BootSector /\ SameBut(b, c) /\ Fresh(c) /\ FatSizeIs(c, size)
  BY <1>3, <1>4, <1>5, SizeKept
<1>7. GetFatSize(c, ANY) = size
  BY <1>3, <1>6, ClustersLeft
<1>8. ~ (GetFatSize(c, ANY) < size)
  BY <1>3, <1>7, SMTT(30)
<1>9. StoreFatSize(b, size) = c
  BY <1>5, <1>8 DEF StoreFatSize
<1> QED BY <1>3, <1>6, <1>9

LEMMA TightStored ==
    ASSUME NEW b \in BootSector, Fresh(b), b.sectors32 < b.reserved + 2,
           NEW y \in Nat \ {0}, FatSizeIs(b, y)
    PROVE  /\ StoreFatSize(b, Excess) \in BootSector
           /\ SameBut(b, StoreFatSize(b, Excess)) /\ Fresh(StoreFatSize(b, Excess))
           /\ \E z \in Nat \ {0} : FatSizeIs(StoreFatSize(b, Excess), z)
<1>1. Excess \in Nat /\ Excess <= TooMany /\ Excess % 65536 = 1
  BY ExcessIs, SizesAre, SMTT(30)
<1>2. ASSUME NEW c \in BootSector, SameBut(b, c), Fresh(c), NEW z \in Nat \ {0}, FatSizeIs(c, z)
      PROVE  BootBits(c) = 12
  <2>1. c.sectors32 < c.reserved + 2 * z
    BY <1>2, FieldsAre, SMTT(30) DEF SameBut
  <2>2. Left(c, z) = -1
    BY <2>1 DEF Left
  <2> QED BY <1>2, <2>2, ClustersLeft, SMTT(30) DEF BitsFromClusters
<1>3. BootBits(b) = 12
  BY <1>2 DEF SameBut
<1>4. PICK c : c = SetFatSize(b, BootBits(b), Excess)
  OBVIOUS
<1>5. c \in BootSector /\ SameBut(b, c) /\ c.fatsize16 = 1 /\ c.fatsize32 = 0
  BY <1>1, <1>3, <1>4, SizeStored
<1>6. Fresh(c) /\ FatSizeIs(c, 1)
  BY <1>5 DEF Fresh, SameBut, FatSizeIs
<1>7. BootBits(c) = 12
  BY <1>2, <1>5, <1>6
<1>8. PICK d : d = SetFatSize(c, BootBits(c), 65535)
  OBVIOUS
<1>9. 65535 \in Nat \ {0} /\ 65535 <= TooMany
  BY TooManyAssumption, SMTT(30)
<1>10. d \in BootSector /\ SameBut(c, d) /\ Fresh(d) /\ FatSizeIs(d, 65535)
  BY <1>5, <1>6, <1>7, <1>8, <1>9, SizeKept
<1>11. SameBut(b, d)
  BY <1>5, <1>10 DEF SameBut
<1>12. StoreFatSize(b, Excess) \in {c, d}
  BY <1>4, <1>8 DEF StoreFatSize
<1> QED BY <1>5, <1>6, <1>9, <1>10, <1>11, <1>12

(* What the loop of fatbootbestfatsize() keeps: the number of clusters     *)
(* tried last is what the size before it leaves, and the size what it      *)
(* needs.                                                                  *)
Roomy(b) == b.sectors32 >= b.reserved + 2

SizeTried(t) == IF t = <<>> THEN 1 ELSE t[Len(t)].size

Searching(b, t) ==
    /\ b \in BootSector /\ Fresh(b)
    /\ IF Roomy(b)
       THEN /\ FatSizeIs(b, SizeTried(t)) /\ Left(b, SizeTried(t)) \in Nat
            /\ \A i \in 1 .. Len(t) :
                  /\ t[i].clusters \in Nat /\ t[i].clusters <= MaxSectors
                  /\ t[i].size = Needed(t[i].clusters)
            /\ \A i \in 2 .. Len(t) : t[i].clusters = Left(b, t[i - 1].size)
       ELSE /\ \E z \in Nat \ {0} : FatSizeIs(b, z)
            /\ \A i \in 1 .. Len(t) : t[i] = [clusters |-> -1, size |-> Excess]

Tries == [clusters : Nat \cup {NONE}, size : Nat \ {0}]

Added(t, e) == (IF Len(t) = 3 THEN Tail(t) ELSE t) \o <<e>>

LEMMA WithLast ==
    ASSUME NEW s \in Seq(Tries), NEW e \in Tries
    PROVE  /\ s \o <<e>> \in Seq(Tries) /\ Len(s \o <<e>>) = Len(s) + 1
           /\ (s \o <<e>>)[Len(s) + 1] = e
           /\ \A i \in 1 .. Len(s) : (s \o <<e>>)[i] = s[i]
  OBVIOUS

LEMMA AddedIs ==
    ASSUME NEW t \in Seq(Tries), Len(t) <= 3, NEW e \in Tries
    PROVE  /\ Added(t, e) \in Seq(Tries)
           /\ Len(Added(t, e)) \in 1 .. 3 /\ Len(Added(t, e)) <= Len(t) + 1
           /\ Added(t, e)[Len(Added(t, e))] = e
           /\ \A i \in 1 .. Len(Added(t, e)) - 1 :
                 Added(t, e)[i] = t[i + Len(t) + 1 - Len(Added(t, e))]
<1>0. Len(t) \in Nat /\ \A x : x \in Nat /\ x <= 3 /\ x # 3 => x <= 2
  OBVIOUS
<1>1. CASE Len(t) = 3
  <2>1. PICK s : s = Tail(t)
    OBVIOUS
  <2>2. s \in Seq(Tries) /\ Len(s) = 2 /\ s[1] = t[2] /\ s[2] = t[3]
    <3>1. t # <<>>
      BY <1>1
    <3>2. s \in Seq(Tries) /\ Len(s) = 2
      BY <1>1, <2>1, <3>1
    <3>3. \A i \in 1 .. Len(s) : s[i] = t[i + 1]
      BY <1>1, <2>1, <3>1
    <3> QED BY <3>2, <3>3
  <2>3. Added(t, e) = s \o <<e>>
    BY <1>1, <2>1 DEF Added
  <2>4. PICK u : u = s \o <<e>>
    OBVIOUS
  <2>5. /\ u \in Seq(Tries) /\ Len(u) = Len(s) + 1 /\ u[Len(s) + 1] = e
        /\ \A i \in 1 .. Len(s) : u[i] = s[i]
    BY <2>2, <2>4, WithLast, Zenon
  <2>6. Len(u) = 3 /\ u[3] = e /\ u[1] = s[1] /\ u[2] = s[2]
    BY <2>2, <2>5
  <2> QED BY <1>1, <2>2, <2>3, <2>4, <2>5, <2>6
<1>2. CASE Len(t) # 3
  <2>1. Added(t, e) = t \o <<e>>
    BY <1>2 DEF Added
  <2>2. PICK u : u = t \o <<e>>
    OBVIOUS
  <2>3. /\ u \in Seq(Tries) /\ Len(u) = Len(t) + 1 /\ u[Len(t) + 1] = e
        /\ \A i \in 1 .. Len(t) : u[i] = t[i]
    BY <2>2
  <2>4. Len(t) \in Nat /\ Len(t) <= 2
    BY <1>0, <1>2
  <2> QED BY <1>2, <2>1, <2>2, <2>3, <2>4
<1> QED BY <1>1, <1>2

LEMMA ThirdTry == \A t \in Seq(Tries) : Len(t) = 3 => t[3] \in Tries
<1>1. \A t \in Seq(Tries) : \A k \in 1 .. Len(t) : t[k] \in Tries
  OBVIOUS
<1> QED BY <1>1

LEMMA SizeTriedIs ==
    ASSUME NEW b, NEW t \in Seq(Tries), Searching(b, t), Roomy(b)
    PROVE  SizeTried(t) \in Nat \ {0}
<1>1. CASE t = <<>>
  BY <1>1 DEF SizeTried
<1>2. CASE t # <<>>
  <2>1. Len(t) \in 1 .. Len(t)
    BY <1>2
  <2>2. t[Len(t)] \in Tries
    BY <2>1
  <2> QED BY <1>2, <2>2 DEF SizeTried, Tries
<1> QED BY <1>1, <1>2

LEMMA TryKeeps ==
    ASSUME NEW b, NEW t \in Seq(Tries), Len(t) <= 3, Searching(b, t),
           NEW n, n = NumDataClusters(b, ANY),
           NEW size, size = MinFatSize(b, IF n < 0 THEN TooMany ELSE n)
    PROVE  /\ [clusters |-> n, size |-> size] \in Tries
           /\ Searching(StoreFatSize(b, size), Added(t, [clusters |-> n, size |-> size]))
           /\ StoreFatSize(b, size).reserved = b.reserved
<1>1. PICK c : c = StoreFatSize(b, size)
  OBVIOUS
<1>2. PICK e : e = [clusters |-> n, size |-> size]
  OBVIOUS
<1>3. PICK u : u = Added(t, e)
  OBVIOUS
<1>4. b \in BootSector /\ Fresh(b) /\ Len(t) \in Nat
  BY DEF Searching
<1>5. b.reserved \in Nat /\ b.sectors32 \in Nat
  BY <1>4, FieldsAre
<1>6. CASE Roomy(b)
  <2>1. PICK s \in Nat \ {0} : s = SizeTried(t)
    BY <1>6, SizeTriedIs
  <2>2. FatSizeIs(b, s) /\ Left(b, s) \in Nat
    BY <1>6, <2>1 DEF Searching
  <2>3. n = Left(b, s) /\ size = Needed(n) /\ n <= MaxSectors
    BY <1>4, <2>2, TryIs, LeftIs
  <2>4. /\ c \in BootSector /\ SameBut(b, c) /\ Fresh(c) /\ FatSizeIs(c, size)
        /\ size \in Nat \ {0}
    BY <1>1, <1>4, <2>2, <2>3, RoomyStored
  <2>5. e \in Tries
    BY <1>2, <2>2, <2>3, <2>4 DEF Tries
  <2>6. /\ u \in Seq(Tries) /\ Len(u) \in 1 .. 3 /\ Len(u) <= Len(t) + 1
        /\ u[Len(u)] = e
        /\ \A i \in 1 .. Len(u) - 1 : u[i] = t[i + Len(t) + 1 - Len(u)]
    BY <1>3, <2>5, AddedIs
  <2>7. PICK l \in Nat : l = Len(u)
    BY <2>6
  <2>8. PICK m \in Nat : m = Len(t)
    BY <1>4
  <2>9. l >= 1 /\ l <= m + 1 /\ u[l] = e /\ \A i \in 1 .. l - 1 : u[i] = t[i + m + 1 - l]
    BY <2>6, <2>7, <2>8
  <2>10. e.clusters = n /\ e.size = size
    BY <1>2
  <2>11. SizeTried(u) = size
    <3>1. u # <<>>
      BY <2>7, <2>9
    <3> QED BY <2>7, <2>9, <2>10, <3>1 DEF SizeTried
  <2>12. Left(c, size) \in Nat
    <3>1. 2 * size <= n + 2
      BY <2>2, <2>3, NeededIs
    <3>2. b.sectors32 >= b.reserved + 2 * s
      BY <1>4, <2>2, LeftIs
    <3>3. PICK x \in Nat : x = b.sectors32 - (b.reserved + 2 * s)
      BY <1>5, <3>2, SMTT(30)
    <3>4. n = x \div b.spc
      BY <1>5, <2>3, <3>2, <3>3, SMTT(30) DEF Left
    <3>5. n <= x
      BY <1>4, <3>4, Quotient DEF Fresh
    <3>6. b.sectors32 >= b.reserved + 2 * size
      BY <1>5, <2>1, <2>2, <2>3, <2>4, <3>1, <3>3, <3>5, SMTT(30)
    <3>7. Left(b, size) \in Nat
      BY <1>4, <2>4, <3>6, LeftIs
    <3> QED BY <2>4, <3>7, LeftSame
  <2>13. Roomy(c)
    BY <1>6, <2>4 DEF Roomy, SameBut
  <2>14. ASSUME NEW i \in 1 .. l
         PROVE  /\ u[i].clusters \in Nat /\ u[i].clusters <= MaxSectors
                /\ u[i].size = Needed(u[i].clusters)
    <3>1. CASE i = l
      BY <2>2, <2>3, <2>9, <2>10, <3>1
    <3>2. CASE i # l
      <4>1. PICK j \in 1 .. m : j = i + m + 1 - l
        BY <2>9, <3>2
      <4>2. u[i] = t[j]
        BY <2>9, <3>2, <4>1
      <4> QED BY <1>6, <2>8, <4>1, <4>2 DEF Searching
    <3> QED BY <3>1, <3>2
  <2>15. ASSUME NEW i \in 2 .. l
         PROVE  u[i].clusters = Left(c, u[i - 1].size)
    <3>1. i - 1 \in 1 .. l - 1
      BY <2>7
    <3>2. PICK j \in 1 .. m : j = i - 1 + m + 1 - l
      BY <2>9, <3>1
    <3>3. u[i - 1] = t[j]
      BY <2>9, <3>1, <3>2
    <3>4. Left(c, t[j].size) = Left(b, t[j].size)
      BY <2>4, LeftSame
    <3>5. CASE i = l
      <4>1. j = m /\ t # <<>>
        BY <2>8, <3>2, <3>5
      <4>2. s = t[j].size
        BY <2>1, <2>8, <4>1 DEF SizeTried
      <4> QED BY <2>3, <2>9, <2>10, <3>3, <3>4, <3>5, <4>2
    <3>6. CASE i # l
      <4>1. i \in 1 .. l - 1 /\ j + 1 = i + m + 1 - l /\ j + 1 \in 2 .. m /\ j = (j + 1) - 1
        BY <2>9, <3>2, <3>6
      <4>2. u[i] = t[j + 1]
        BY <2>9, <4>1
      <4>3. t[j + 1].clusters = Left(b, t[j].size)
        BY <1>6, <2>8, <4>1 DEF Searching
      <4> QED BY <3>3, <3>4, <4>2, <4>3
    <3> QED BY <3>5, <3>6
  <2>16. Searching(c, u)
    BY <2>4, <2>7, <2>11, <2>12, <2>13, <2>14, <2>15 DEF Searching
  <2> QED BY <1>1, <1>2, <1>3, <2>4, <2>5, <2>16 DEF SameBut
<1>7. CASE ~ Roomy(b)
  <2>1. PICK y \in Nat \ {0} : FatSizeIs(b, y)
    BY <1>7 DEF Searching
  <2>2. b.sectors32 < b.reserved + 2
    BY <1>5, <1>7 DEF Roomy
  <2>3. b.sectors32 < b.reserved + 2 * y
    BY <1>5, <2>1, <2>2
  <2>4. Left(b, y) = -1
    BY <2>3 DEF Left
  <2>5. n = -1 /\ size = Excess
    BY <1>4, <2>1, <2>4, TryIs
  <2>6. /\ c \in BootSector /\ SameBut(b, c) /\ Fresh(c)
        /\ \E z \in Nat \ {0} : FatSizeIs(c, z)
    BY <1>1, <1>4, <2>1, <2>2, <2>5, TightStored
  <2>7. e \in Tries
    BY <1>2, <2>5, ExcessIs DEF Tries, NONE
  <2>8. /\ u \in Seq(Tries) /\ Len(u) \in 1 .. 3 /\ Len(u) <= Len(t) + 1
        /\ u[Len(u)] = e
        /\ \A i \in 1 .. Len(u) - 1 : u[i] = t[i + Len(t) + 1 - Len(u)]
    BY <1>3, <2>7, AddedIs
  <2>9. ~ Roomy(c)
    BY <1>7, <2>6 DEF Roomy, SameBut
  <2>10. ASSUME NEW i \in 1 .. Len(u)
         PROVE  u[i] = [clusters |-> -1, size |-> Excess]
    <3>1. CASE i = Len(u)
      BY <1>2, <2>5, <2>8, <3>1
    <3>2. CASE i # Len(u)
      <4>1. PICK j \in 1 .. Len(t) : j = i + Len(t) + 1 - Len(u)
        BY <1>4, <2>8, <3>2
      <4>2. u[i] = t[j]
        BY <2>8, <3>2, <4>1
      <4> QED BY <1>7, <4>1, <4>2 DEF Searching
    <3> QED BY <3>1, <3>2
  <2>11. Searching(c, u)
    BY <2>6, <2>9, <2>10 DEF Searching
  <2> QED BY <1>1, <1>2, <1>3, <2>6, <2>7, <2>11 DEF SameBut
<1> QED BY <1>6, <1>7

(* A table of this size has the entries of the clusters it leaves.         *)
Covers(b, bits) ==
    NumDataClusters(b, bits) >= 0 =>
        4096 * GetFatSize(b, bits) >= bits * (NumDataClusters(b, bits) + 2)

LEMMA FewerBits ==
    ASSUME NEW n \in Nat, NEW m \in Nat, n <= m, NEW s \in Nat, NEW z \in Nat, s <= z,
           NEW p \in Types, p = BitsFromClusters(m), 4096 * s >= p * (m + 2),
           NEW q \in Types, q = BitsFromClusters(n)
    PROVE  4096 * z >= q * (n + 2)
  BY SMTT(60) DEF BitsFromClusters, Types

Extras == 0 .. MaxExtra + 1

LEMMA ExtrasAre == ASSUME NEW x \in Extras PROVE x \in Nat /\ x <= 32768
  BY GeometryAssumption DEF Extras

(* The size that fatsetsize() ends a round with: if it is of the type it   *)
(* was computed for it covers the clusters, whatever was added to it and   *)
(* whatever is lost of it in a field of 16 bits.                           *)
LEMMA RoundEnds ==
    ASSUME NEW b, NEW t \in Seq(Tries), Len(t) = 3, Searching(b, t),
           NEW a \in Types, NEW x \in Extras,
           NEW best, best = t[3].size,
           NEW c, c = SetFatSize(SetFatSize(b, BootBits(b), best), a, best + x)
    PROVE  /\ c \in BootSector /\ Fresh(c) /\ c.reserved = b.reserved
           /\ BootBits(c) \in Types /\ NumDataClusters(c, a) \in Nat \cup {-1}
           /\ BootBits(c) = a /\ t[3] = t[2] => Covers(c, a)
<1>1. b \in BootSector /\ Fresh(b)
  BY DEF Searching
<1>2. t[3] \in Tries /\ best \in Nat \ {0}
  <2>1. t[3] \in Tries
    BY ThirdTry, Zenon
  <2> QED BY <2>1 DEF Tries
<1>3. best <= TooMany /\ best + x <= TooMany /\ best + x \in Nat
  <2>1. best + 32768 <= TooMany
    <3>1. 3 \in 1 .. Len(t)
      OBVIOUS
    <3>2. CASE Roomy(b)
      <4>1. PICK n \in Nat : n = t[3].clusters /\ n <= MaxSectors /\ best = Needed(n)
        BY <3>1, <3>2 DEF Searching
      <4> QED BY <4>1, NeededSmall
    <3>3. CASE ~ Roomy(b)
      <4>1. best = Excess
        BY <3>1, <3>3 DEF Searching
      <4> QED BY <4>1, ExcessIs
    <3> QED BY <3>2, <3>3
  <2> QED BY <1>2, <2>1, SizesAre, ExtrasAre, SMTT(30)
<1>4. PICK d : d = SetFatSize(b, BootBits(b), best)
  OBVIOUS
<1>5. d \in BootSector /\ SameBut(b, d)
  BY <1>1, <1>2, <1>3, <1>4, SizeStored
<1>6. /\ c \in BootSector /\ SameBut(d, c)
      /\ a = 32 => c.fatsize16 = 0 /\ c.fatsize32 = best + x
      /\ a # 32 => c.fatsize16 = (best + x) % 65536 /\ c.fatsize32 = 0
  <2>1. c = SetFatSize(d, a, best + x)
    BY <1>4
  <2> QED BY <1>3, <1>5, <2>1, SizeStored
<1>7. SameBut(b, c)
  BY <1>5, <1>6 DEF SameBut
<1>8. Fresh(c)
  BY <1>1, <1>7 DEF Fresh, SameBut
<1>9. PICK z \in Nat : z = IF a = 32 THEN best + x ELSE (best + x) % 65536
  BY <1>3, SMTT(30)
<1>10. FatSizeIs(c, z) /\ GetFatSize(c, a) = z
  <2>1. CASE a = 32
    BY <1>6, <1>9, <2>1 DEF FatSizeIs, GetFatSize
  <2>2. CASE a # 32
    <3>1. c.fatsize16 = z /\ c.fatsize32 = 0 /\ a # ANY
      BY <1>6, <1>9, <2>2 DEF Types, ANY
    <3> QED BY <2>2, <3>1 DEF FatSizeIs, GetFatSize
  <2> QED BY <2>1, <2>2
<1>11. NumDataClusters(c, a) = Left(b, z) /\ BootBits(c) = BitsFromClusters(Left(b, z))
  BY <1>6, <1>7, <1>8, <1>10, SizesFound, ClustersLeft, LeftSame
<1>12. ASSUME BootBits(c) = a, t[3] = t[2], NumDataClusters(c, a) >= 0
       PROVE  4096 * z >= a * (Left(b, z) + 2)
  <2> DEFINE m == Left(b, z)
  <2>0. BitsFromClusters(m) = a /\ m >= 0
    BY <1>11, <1>12
  <2> HIDE DEF m
  <2>1. m \in Nat /\ b.sectors32 >= b.reserved + 2 * z
    BY <1>1, <2>0, LeftIs, SMTT(30) DEF m
  <2>2. b.reserved \in Nat /\ b.sectors32 \in Nat
    BY <1>1, FieldsAre
  <2>3. CASE Roomy(b)
    <3>1. t[3].clusters \in Nat /\ best = Needed(t[3].clusters)
      BY <2>3 DEF Searching
    <3>2. t[3].clusters = Left(b, best)
      BY <1>12, <2>3 DEF Searching
    <3>0. PICK n \in Nat : n = Left(b, best) /\ best = Needed(n)
      BY <3>1, <3>2
    <3>3. 4096 * best >= BitsFromClusters(n) * (n + 2)
      BY <3>0, NeededIs
    <3>4. CASE best <= z
      <4>1. m <= n
        BY <1>1, <1>2, <3>0, <3>4, LeftIs DEF m
      <4>2. PICK p \in Types : p = BitsFromClusters(n)
        BY BitsAre
      <4>3. 4096 * best >= p * (n + 2)
        BY <3>3, <4>2
      <4>4. PICK q \in Types : q = a /\ q = BitsFromClusters(m)
        BY <2>0
      <4>5. 4096 * z >= q * (m + 2)
        BY <1>2, <2>1, <3>4, <4>1, <4>2, <4>3, <4>4, FewerBits
      <4> QED BY <4>4, <4>5 DEF m
    <3>5. CASE z < best
      <4>1. a # 32 /\ best > 256
        BY <1>2, <1>9, <3>5, ExtrasAre, SMTT(30)
      <4>2. BitsFromClusters(n) = 32
        BY <1>2, <3>0, <4>1, NeededIs, SMTT(30)
      <4>3. n <= m
        BY <1>1, <1>2, <3>0, <3>5, LeftIs DEF m
      <4>4. BitsFromClusters(m) = 32
        BY <2>1, <4>2, <4>3, SMTT(30) DEF BitsFromClusters
      <4> QED BY <2>0, <4>1, <4>4 DEF m
    <3> QED BY <1>2, <3>4, <3>5, SMTT(30)
  <2>4. CASE ~ Roomy(b)
    <3>1. best = Excess
      BY <2>4 DEF Searching
    <3>2. z >= 1
      BY <1>9, <3>1, ExcessIs, ExtrasAre, SMTT(30)
    <3> QED BY <2>1, <2>2, <2>4, <3>2, SMTT(30) DEF Roomy
  <2> QED BY <2>3, <2>4 DEF m
<1>13. BootBits(c) \in Types
  BY <1>11, BitsAre
<1>14. NumDataClusters(c, a) \in Nat \cup {-1}
  BY <1>1, <1>11, LeftIs
<1> QED BY <1>6, <1>7, <1>8, <1>10, <1>11, <1>12, <1>13, <1>14 DEF Covers, SameBut

-----------------------------------------------------------------------------
Reserved(bits) == IF bits = 32 THEN 32 ELSE 1

Sized ==
    /\ Fresh(boot) /\ known \in Types /\ boot.reserved = Reserved(known)
    /\ Settled => Covers(boot, known)

(* What is known of the boot sector at each point of the programs.         *)
Phased ==
    /\ phase # "closed" => asked = Nothing
    /\ phase \in {"closed", "open"} => device = boot
    /\ phase = "round" => Fresh(boot)
    /\ phase = "search" =>
          Searching(boot, tried) /\ boot.reserved = Reserved(assumed) /\ extra <= MaxExtra
    /\ phase = "sized" => Sized
    /\ phase = "open" => known = BootBits(boot) /\ Check(boot)

Inv == TypeOK /\ Phased /\ FormatOpens /\ InitInside /\ ResizeExact

(* Before anything is written there is nothing to show of it.              *)
LEMMA NothingWritten ==
    ASSUME asked' = Nothing, phase' # "closed"
    PROVE  FormatOpens' /\ InitInside' /\ ResizeExact'
<1>1. ~ Formatted'
  BY DEF Formatted
<1>2. asked'.kind = "none"
  BY DEF Nothing
<1> QED BY <1>1, <1>2 DEF FormatOpens, InitInside, ResizeExact

LEMMA Zero16 == 0 \in Sizes16 /\ 1 \in Sizes16 /\ 32 \in Sizes16 /\ 6 \in Sizes16
  BY Bounded16

LEMMA InitHolds == Init => Inv
<1> SUFFICES ASSUME Init
             PROVE  Inv
  OBVIOUS
<1>1. PICK s \in Devices, p \in Clusters : boot = Blank(s, p)
  BY DEF Init
<1>2. s \in 0 .. MaxSectors /\ OneBit(p) /\ p \in 0 .. 255
  BY GeometryAssumption, SizesAre
<1>3. PICK z, w : /\ z = [bytes |-> 512, spc |-> 0, reserved |-> 0, numfats |-> 2,
                          sectors16 |-> 0, sectors32 |-> 0, fatsize16 |-> 0,
                          fatsize32 |-> 0, rootentries |-> 0, rootbegin |-> 0,
                          infopos |-> 0, backup |-> 0]
                  /\ w = [z EXCEPT !.sectors16 = 0, !.sectors32 = s]
  OBVIOUS
<1>4. z \in BootSector
  <2>1. 0 \in 0 .. 255 /\ 2 \in 0 .. 255 /\ 0 \in 0 .. TooMany
        /\ 0 \in 0 .. MaxSectors /\ 0 \in {0, FAT_ROOT, FAT_FIRST}
    BY SizesAre
  <2> QED BY <1>3, <2>1, Zero16, SMTT(30) DEF BootSector
<1>5. w \in BootSector
  <2>1. [z EXCEPT !.sectors16 = 0, !.sectors32 = s] \in BootSector
    BY <1>2, <1>4, Zero16, TwoSet, Zenon
  <2> QED BY <1>3, <2>1, Zenon
<1>6. boot = [w EXCEPT !.spc = p]
  <2>1. boot = SetSectorsPerCluster(SetNumSectors(z, BootBits(z), s), p)
    BY <1>1, <1>3 DEF Blank, SectorSize
  <2>2. z.spc = 0
    BY <1>3
  <2>3. BootBits(z) = -1
    BY <2>2 DEF BootBits, NONE
  <2>4. SetNumSectors(z, BootBits(z), s) = w
    BY <1>3, <2>3 DEF SetNumSectors
  <2> QED BY <1>2, <2>1, <2>4 DEF SetSectorsPerCluster
<1>7. boot \in BootSector
  <2>1. [w EXCEPT !.spc = p] \in BootSector
    BY <1>2, <1>5, FieldSet, Zenon
  <2> QED BY <1>6, <2>1, Zenon
<1>8. Fresh(boot)
  <2>1. /\ z.bytes = 512 /\ z.numfats = 2 /\ z.rootentries = 0
        /\ z.infopos = 0 /\ z.backup = 0
    BY <1>3
  <2>2. /\ w.bytes = z.bytes /\ w.numfats = z.numfats /\ w.rootentries = z.rootentries
        /\ w.infopos = z.infopos /\ w.backup = z.backup /\ w.sectors16 = 0
    BY <1>3, <1>4, SMTT(30) DEF BootSector
  <2>3. /\ boot.bytes = w.bytes /\ boot.numfats = w.numfats
        /\ boot.rootentries = w.rootentries /\ boot.infopos = w.infopos
        /\ boot.backup = w.backup /\ boot.sectors16 = w.sectors16 /\ boot.spc = p
    BY <1>5, <1>6, SMTT(30) DEF BootSector
  <2> QED BY <1>2, <2>1, <2>2, <2>3 DEF Fresh, SectorSize
<1>9. TypeOK
  BY <1>7, GeometryAssumption DEF Init, TypeOK, NoBoot, NONE, Types
<1>10. Phased
  BY <1>8 DEF Phased, Init
<1>11. FormatOpens /\ InitInside /\ ResizeExact
  BY DEF Init, FormatOpens, InitInside, Formatted, ResizeExact, Nothing
<1> QED BY <1>9, <1>10, <1>11 DEF Inv

LEMMA BeginRoundKeeps == Inv /\ BeginRound => Inv'
<1> SUFFICES ASSUME Inv, BeginRound
             PROVE  Inv'
  OBVIOUS
<1>1. TypeOK /\ Phased /\ phase = "round"
  BY DEF Inv, BeginRound
<1>2. boot \in BootSector /\ Fresh(boot) /\ assumed \in Types /\ asked = Nothing
  BY <1>1 DEF TypeOK, Phased
<1>3. PICK r \in Sizes16 : r = Reserved(assumed)
  BY Zero16 DEF Reserved
<1>4. PICK b : b = [boot EXCEPT !.reserved = r]
  OBVIOUS
<1>5. b \in BootSector /\ Fresh(b) /\ b.reserved = r
  <2>1. [boot EXCEPT !.reserved = r] \in BootSector
    BY <1>2, FieldSet
  <2>2. b \in BootSector
    BY <1>4, <2>1
  <2>3. /\ b.bytes = boot.bytes /\ b.spc = boot.spc /\ b.numfats = boot.numfats
        /\ b.sectors16 = boot.sectors16 /\ b.rootentries = boot.rootentries
        /\ b.infopos = boot.infopos /\ b.backup = boot.backup /\ b.reserved = r
    BY <1>2, <1>4, SMTT(30) DEF BootSector
  <2> QED BY <1>2, <2>2, <2>3 DEF Fresh
<1>6. boot' = SetFatSize(b, 12, 1)
  BY <1>3, <1>4 DEF BeginRound, Reserved
<1>7. /\ boot' \in BootSector /\ SameBut(b, boot') /\ Fresh(boot')
      /\ FatSizeIs(boot', 1)
  <2>1. 1 \in Nat /\ 1 <= TooMany /\ 1 <= 65535
    BY TooManyAssumption
  <2> QED BY <1>5, <1>6, <2>1, SizeKept
<1>8. Searching(boot', <<>>)
  <2>1. SizeTried(<<>>) = 1 /\ 1 .. Len(<<>>) = {} /\ 2 .. Len(<<>>) = {}
    BY DEF SizeTried
  <2>2. CASE Roomy(boot')
    <3>1. boot'.sectors32 >= boot'.reserved + 2 * 1
      BY <2>2 DEF Roomy
    <3>2. Left(boot', 1) \in Nat
      BY <1>7, <3>1, LeftIs
    <3> QED BY <1>7, <2>1, <2>2, <3>2 DEF Searching
  <2>3. CASE ~ Roomy(boot')
    BY <1>7, <2>1, <2>3 DEF Searching
  <2> QED BY <2>2, <2>3
<1>9. /\ phase' = "search" /\ tried' = <<>> /\ assumed' = assumed /\ known' = assumed
      /\ asked' = asked /\ extra' = extra /\ extra <= MaxExtra
  BY DEF BeginRound
<1>10. TypeOK'
  <2>1. <<>> \in Seq([clusters : Nat \cup {NONE}, size : Nat \ {0}]) /\ Len(<<>>) <= 3
    OBVIOUS
  <2> QED BY <1>1, <1>2, <1>7, <1>9, <2>1 DEF TypeOK, BeginRound
<1>11. Phased'
  BY <1>2, <1>3, <1>5, <1>7, <1>8, <1>9 DEF Phased, SameBut
<1>12. FormatOpens' /\ InitInside' /\ ResizeExact'
  BY <1>2, <1>9, NothingWritten
<1> QED BY <1>10, <1>11, <1>12 DEF Inv

LEMMA TrySizeKeeps == Inv /\ TrySize => Inv'
<1> SUFFICES ASSUME Inv, TrySize
             PROVE  Inv'
  OBVIOUS
<1>1. TypeOK /\ Phased /\ phase = "search"
  BY DEF Inv, TrySize
<1>2. /\ Searching(boot, tried) /\ boot.reserved = Reserved(assumed) /\ asked = Nothing
      /\ tried \in Seq(Tries) /\ Len(tried) <= 3
  BY <1>1 DEF TypeOK, Phased, Tries
<1>3. PICK n, size : /\ n = NumDataClusters(boot, ANY)
                     /\ size = MinFatSize(boot, IF n < 0 THEN TooMany ELSE n)
                     /\ boot' = StoreFatSize(boot, size)
                     /\ tried' = Added(tried, [clusters |-> n, size |-> size])
  BY DEF TrySize, Added
<1>4. /\ [clusters |-> n, size |-> size] \in Tries
      /\ Searching(boot', tried') /\ boot'.reserved = boot.reserved
  BY <1>2, <1>3, TryKeeps
<1>5. tried' \in Seq(Tries) /\ Len(tried') <= 3
  <2>1. PICK e \in Tries : tried' = Added(tried, e)
    BY <1>3, <1>4
  <2>2. Len(tried') \in 1 .. 3 /\ tried' \in Seq(Tries)
    BY <1>2, <2>1, AddedIs
  <2>3. \A x \in 1 .. 3 : x <= 3
    OBVIOUS
  <2> QED BY <2>2, <2>3
<1>6. UNCHANGED <<known, device, table, phase, rootsize, assumed, extra, asked>>
  BY DEF TrySize
<1>7. TypeOK'
  BY <1>1, <1>4, <1>5, <1>6 DEF TypeOK, Tries, Searching
<1>8. Phased'
  BY <1>1, <1>2, <1>4, <1>6 DEF Phased
<1>9. FormatOpens' /\ InitInside' /\ ResizeExact'
  BY <1>1, <1>2, <1>6, NothingWritten
<1> QED BY <1>7, <1>8, <1>9 DEF Inv

LEMMA EndRoundKeeps == Inv /\ EndRound => Inv'
<1> SUFFICES ASSUME Inv, EndRound
             PROVE  Inv'
  OBVIOUS
<1>1. TypeOK /\ Phased /\ phase = "search" /\ Len(tried) = 3
  BY DEF Inv, EndRound, ComesBack
<1>2. /\ Searching(boot, tried) /\ boot.reserved = Reserved(assumed) /\ asked = Nothing
      /\ tried \in Seq(Tries) /\ assumed \in Types /\ extra \in Extras
  BY <1>1 DEF TypeOK, Phased, Tries, Extras
<1>3. PICK best, b, type :
        /\ best = tried[3].size
        /\ b = SetFatSize(SetFatSize(boot, BootBits(boot), best), assumed, best + extra)
        /\ type = IF NumDataClusters(b, assumed) < 0 THEN 32 ELSE BootBits(b)
        /\ boot' = b /\ known' = type
        /\ IF type = assumed
           THEN phase' = "sized" /\ UNCHANGED <<assumed, extra>>
           ELSE /\ phase' = "round" /\ assumed' = type
                /\ extra' = IF assumed > type THEN extra + 1 ELSE extra
  BY <1>1 DEF EndRound
<1>4. /\ b \in BootSector /\ Fresh(b) /\ b.reserved = boot.reserved
      /\ BootBits(b) \in Types /\ NumDataClusters(b, assumed) \in Nat \cup {-1}
      /\ BootBits(b) = assumed /\ tried[3] = tried[2] => Covers(b, assumed)
  BY <1>1, <1>2, <1>3, RoundEnds
<1>5. type \in Types
  BY <1>3, <1>4 DEF Types
<1>6. UNCHANGED <<device, table, rootsize, tried, asked>>
  BY DEF EndRound
<1>7. phase' \in {"sized", "round"} /\ assumed' \in Types
  BY <1>2, <1>3, <1>5
<1>8. extra' \in 0 .. MaxExtra + 1
  <2>1. extra \in Nat /\ extra <= MaxExtra /\ MaxExtra \in Nat
    BY <1>1, GeometryAssumption DEF Phased, TypeOK
  <2>2. extra' \in {extra, extra + 1}
    BY <1>3
  <2> QED BY <2>1, <2>2
<1>9. TypeOK'
  BY <1>1, <1>3, <1>4, <1>5, <1>6, <1>7, <1>8 DEF TypeOK
<1>10. ASSUME phase' = "sized"
       PROVE  Phased'
  <2>1. type = assumed /\ known' = assumed
    BY <1>3, <1>10
  <2>2. Settled' => Covers(b, assumed)
    <3>1. Settled' => tried[3] = tried[2]
      BY <1>1, <1>6 DEF Settled
    <3>2. CASE NumDataClusters(b, assumed) < 0
      <4>1. ~ (NumDataClusters(b, assumed) >= 0)
        BY <1>4, <3>2
      <4> QED BY <4>1 DEF Covers
    <3>3. CASE BootBits(b) = assumed
      BY <1>4, <3>1, <3>3
    <3> QED BY <1>3, <2>1, <3>2, <3>3
  <2>3. boot' = b /\ asked' = Nothing
    BY <1>2, <1>3, <1>6
  <2>4. Sized'
    BY <1>2, <1>4, <2>1, <2>2, <2>3 DEF Sized
  <2> QED BY <1>10, <2>3, <2>4 DEF Phased
<1>11. ASSUME phase' = "round"
       PROVE  Phased'
  <2>1. boot' = b /\ asked' = Nothing
    BY <1>2, <1>3, <1>6
  <2> QED BY <1>4, <1>11, <2>1 DEF Phased
<1>12. FormatOpens' /\ InitInside' /\ ResizeExact'
  BY <1>2, <1>6, <1>7, NothingWritten
<1> QED BY <1>7, <1>9, <1>10, <1>11, <1>12 DEF Inv

LEMMA FewerClusters ==
    ASSUME NEW b \in BootSector, NEW c \in BootSector, OneBit(b.spc), c.spc = b.spc,
           NEW bits, NEW o \in Nat, o = Overhead(b, bits),
           NEW u \in Nat, u = Overhead(c, bits), o <= u,
           NEW s \in Nat, s = GetNumSectors(b, bits),
           NEW r \in Nat, r = GetNumSectors(c, bits), r <= s
    PROVE  /\ NumDataClusters(b, bits) \in Nat \cup {-1}
           /\ NumDataClusters(c, bits) \in Nat \cup {-1}
           /\ NumDataClusters(c, bits) <= NumDataClusters(b, bits)
<1>1. CASE r < u
  <2>1. NumDataClusters(c, bits) = -1
    BY <1>1 DEF NumDataClusters
  <2>2. NumDataClusters(b, bits) \in Nat \cup {-1}
    <3>1. CASE s < o
      BY <3>1 DEF NumDataClusters
    <3>2. CASE s >= o
      <4>1. PICK x \in Nat : x = s - o
        BY <3>2
      <4>2. NumDataClusters(b, bits) = x \div b.spc
        BY <3>2, <4>1, SMTT(30) DEF NumDataClusters
      <4> QED BY <4>2, Quotient
    <3> QED BY <3>1, <3>2
  <2> QED BY <2>1, <2>2
<1>2. CASE r >= u
  <2>1. PICK x \in Nat, y \in Nat : x = r - u /\ y = s - o /\ x <= y
    BY <1>2
  <2>2. NumDataClusters(c, bits) = x \div b.spc /\ NumDataClusters(b, bits) = y \div b.spc
    BY <1>2, <2>1, SMTT(30) DEF NumDataClusters
  <2>3. x \div b.spc \in Nat /\ y \div b.spc \in Nat /\ x \div b.spc <= y \div b.spc
    BY <2>1, Quotient
  <2> QED BY <2>2, <2>3
<1> QED BY <1>1, <1>2

LEMMA OverheadIs ==
    ASSUME NEW b \in BootSector, NEW bits
    PROVE  /\ GetFatSize(b, bits) \in Nat /\ GetNumSectors(b, bits) \in Nat
           /\ NumRootSectors(b, bits) \in Nat /\ Overhead(b, bits) \in Nat
<1>1. GetFatSize(b, bits) \in Nat /\ GetNumSectors(b, bits) \in Nat
  BY FieldsAre DEF GetFatSize, GetNumSectors
<1>2. PICK e \in Nat : e = GetRootEntries(b, bits)
  BY FieldsAre DEF GetRootEntries
<1>3. NumRootSectors(b, bits) \in Nat
  BY <1>2, FieldsAre, SMTT(30) DEF NumRootSectors, CeilDiv
<1>4. b.reserved \in Nat /\ b.numfats \in Nat
  BY FieldsAre
<1>5. \A x \in Nat, y \in Nat : x * y \in Nat
  BY SMTT(30)
<1> QED BY <1>1, <1>3, <1>4, <1>5 DEF Overhead

(* The test that the table has the entry of the last cluster.              *)
LEMMA HoldsIs ==
    ASSUME NEW bits \in Types, NEW f \in Nat, NEW k \in Nat
    PROVE  (f * 512 * 8) \div bits >= k <=> 4096 * f >= bits * k
  BY SMTT(60) DEF Types

LEMMA EntriesFit ==
    ASSUME TypeOK, Fresh(boot)
    PROVE  MaxEntries(boot) \in Sizes16
<1>1. CASE rootsize # 0
  BY <1>1, GeometryAssumption DEF MaxEntries, TypeOK
<1>2. CASE rootsize = 0
  <2>1. BytesPerCluster(boot) = 512 * boot.spc /\ boot.spc \in 1 .. 255
    BY SizesAre DEF Fresh, BytesPerCluster, SectorSize
  <2>2. MaxEntries(boot) \in {BytesPerCluster(boot) \div 32, 256}
    BY <1>2 DEF MaxEntries
  <2>3. MaxEntries(boot) \in Nat /\ MaxEntries(boot) <= 65535
    BY <2>1, <2>2, SMTT(30)
  <2> QED BY <2>3, Bounded16
<1> QED BY <1>1, <1>2

(* The sector that is written differs from that of the search in the root  *)
(* directory and in what a FAT32 has after the first sector.               *)
LEMMA FinishedIs ==
    ASSUME NEW b \in BootSector, Fresh(b), NEW bits \in Types, b.reserved = Reserved(bits),
           NEW m \in Sizes16, NEW d, d = Finished(SetRootEntries(b, bits, m), bits)
    PROVE  /\ d \in BootSector
           /\ d.bytes = b.bytes /\ d.spc = b.spc /\ d.reserved = b.reserved
           /\ d.numfats = b.numfats /\ d.sectors16 = 0 /\ d.sectors32 = b.sectors32
           /\ d.fatsize16 = b.fatsize16 /\ d.fatsize32 = b.fatsize32
           /\ bits # 32 => d.rootentries = m
           /\ bits = 32 => /\ d.rootentries = 0 /\ d.rootbegin = FAT_FIRST
                           /\ d.infopos = 1 /\ d.backup = 6
<1>1. PICK k \in Sizes16 : k = IF bits = 32 THEN 0 ELSE m
  BY Zero16
<1>2. PICK e : e = [b EXCEPT !.rootentries = k]
  OBVIOUS
<1>3. e = SetRootEntries(b, bits, m)
  BY <1>1, <1>2 DEF SetRootEntries
<1>4. e \in BootSector
  <2>1. [b EXCEPT !.rootentries = k] \in BootSector
    BY FieldSet
  <2> QED BY <1>2, <2>1, Zenon
<1>5. /\ e.bytes = b.bytes /\ e.spc = b.spc /\ e.reserved = b.reserved
      /\ e.numfats = b.numfats /\ e.sectors16 = b.sectors16 /\ e.sectors32 = b.sectors32
      /\ e.fatsize16 = b.fatsize16 /\ e.fatsize32 = b.fatsize32 /\ e.rootentries = k
  BY <1>2, SMTT(30) DEF BootSector
<1>6. CASE bits # 32
  <2>1. d = e
    BY <1>3, <1>6 DEF Finished, SetRootBegin
  <2> QED BY <1>1, <1>4, <1>5, <1>6, <2>1 DEF Fresh
<1>7. CASE bits = 32
  <2>1. PICK r : r = [e EXCEPT !.rootbegin = FAT_FIRST]
    OBVIOUS
  <2>2. PICK i : i = [r EXCEPT !.infopos = 1]
    OBVIOUS
  <2>3. PICK u : u = [i EXCEPT !.backup = 6]
    OBVIOUS
  <2>4. r \in BootSector
    <3>1. [e EXCEPT !.rootbegin = FAT_FIRST] \in BootSector
      BY <1>4, FieldSet
    <3> QED BY <2>1, <3>1, Zenon
  <2>5. i \in BootSector
    <3>1. [r EXCEPT !.infopos = 1] \in BootSector
      BY <2>4, Zero16, FieldSet
    <3> QED BY <2>2, <3>1, Zenon
  <2>6. u \in BootSector
    <3>1. [i EXCEPT !.backup = 6] \in BootSector
      BY <2>5, Zero16, FieldSet
    <3> QED BY <2>3, <3>1, Zenon
  <2>7. /\ r.bytes = e.bytes /\ r.spc = e.spc /\ r.reserved = e.reserved
        /\ r.numfats = e.numfats /\ r.sectors16 = e.sectors16 /\ r.sectors32 = e.sectors32
        /\ r.fatsize16 = e.fatsize16 /\ r.fatsize32 = e.fatsize32
        /\ r.rootentries = e.rootentries /\ r.rootbegin = FAT_FIRST
    BY <1>4, <2>1, SMTT(30) DEF BootSector
  <2>8. /\ i.bytes = r.bytes /\ i.spc = r.spc /\ i.reserved = r.reserved
        /\ i.numfats = r.numfats /\ i.sectors16 = r.sectors16 /\ i.sectors32 = r.sectors32
        /\ i.fatsize16 = r.fatsize16 /\ i.fatsize32 = r.fatsize32
        /\ i.rootentries = r.rootentries /\ i.rootbegin = r.rootbegin /\ i.infopos = 1
    BY <2>2, <2>4, SMTT(30) DEF BootSector
  <2>9. /\ u.bytes = i.bytes /\ u.spc = i.spc /\ u.reserved = i.reserved
        /\ u.numfats = i.numfats /\ u.sectors16 = i.sectors16 /\ u.sectors32 = i.sectors32
        /\ u.fatsize16 = i.fatsize16 /\ u.fatsize32 = i.fatsize32
        /\ u.rootentries = i.rootentries /\ u.rootbegin = i.rootbegin
        /\ u.infopos = i.infopos /\ u.backup = 6
    BY <2>3, <2>5, SMTT(30) DEF BootSector
  <2>10. i.reserved = 32
    BY <1>5, <1>7, <2>7, <2>8 DEF Reserved
  <2>11. SetBackupSector(i, 6) = u
    BY <2>3, <2>8, <2>10 DEF SetBackupSector
  <2>12. SetRootBegin(e, bits, FAT_FIRST) = r
    BY <1>7, <2>1 DEF SetRootBegin
  <2>13. d = u
    BY <1>3, <1>7, <2>2, <2>11, <2>12 DEF Finished
  <2> QED BY <1>1, <1>5, <1>7, <2>6, <2>7, <2>8, <2>9, <2>13 DEF Fresh
<1> QED BY <1>6, <1>7

(* The root directory has whole sectors, as it has whole clusters.         *)
LEMMA WholeSectors ==
    ASSUME NEW c, OneBit(c), NEW m \in Nat, (m * 32) % (512 * c) = 0
    PROVE  (m * 32) % 512 = 0
  BY SMTT(60) DEF OneBit

(* The last sector that is written when the table is emptied is in it.     *)
LEMMA WritesInside ==
    ASSUME NEW b \in BootSector, b.bytes = 512, NEW bits \in Types, NEW k \in 0 .. 1,
           NEW f \in Nat, f = GetFatSize(b, bits),
           NEW l \in Nat, l = LastCluster(b, bits), 4096 * f >= bits * (l + 1)
    PROVE  LastInitialised(b, bits, k) < TableBegin(b, bits, k + 1)
<1>1. PICK g \in Nat : g = TableBegin(b, bits, k)
  <2>1. b.reserved \in Nat
    BY FieldsAre
  <2>2. k * f \in Nat
    BY SMTT(30)
  <2> QED BY <2>1, <2>2 DEF TableBegin
<1>2. TableBegin(b, bits, k + 1) = g + f
  <2>1. b.reserved \in Nat
    BY FieldsAre
  <2> QED BY <1>1, <2>1, SMTT(30) DEF TableBegin
<1>3. CASE l <= Pilot(b)
  <2>1. LastInitialised(b, bits, k) = EntrySector(b, bits, k, l)
    BY <1>3 DEF LastInitialised
  <2>2. ((l * (bits \div 4)) \div 2 + (IF bits = 12 THEN 1 ELSE 0)) \div 512 < f
    BY SMTT(60) DEF Types
  <2> DEFINE x == ((l * (bits \div 4)) \div 2 + (IF bits = 12 THEN 1 ELSE 0)) \div 512
  <2>3. x \in Int
    BY SMTT(60) DEF Types
  <2>4. EntrySector(b, bits, k, l) = g + x
    BY <1>1 DEF EntrySector
  <2> HIDE DEF x
  <2>5. x < f
    BY <2>2 DEF x
  <2> QED BY <1>2, <2>1, <2>3, <2>4, <2>5
<1>4. CASE ~ (l <= Pilot(b))
  <2>1. LastInitialised(b, bits, k) = g + f - 1
    BY <1>1, <1>4 DEF LastInitialised
  <2> QED BY <1>2, <2>1, SMTT(30)
<1> QED BY <1>3, <1>4

LEMMA FormattedIsSound ==
    ASSUME Inv, Format, RootFits', Settled'
    PROVE  Check(device') /\ InitInside'
<1>1. TypeOK /\ Phased /\ phase = "sized" /\ Acceptable(boot)
  BY DEF Inv, Format
<1>2. /\ boot \in BootSector /\ Fresh(boot) /\ known \in Types
      /\ boot.reserved = Reserved(known) /\ (Settled => Covers(boot, known))
  BY <1>1 DEF TypeOK, Phased, Sized
<1>3. PICK m \in Sizes16 : m = MaxEntries(boot)
  BY <1>1, <1>2, EntriesFit
<1>4. PICK d : d = Finished(SetRootEntries(boot, known, m), known)
  OBVIOUS
<1>5. /\ d \in BootSector
      /\ d.bytes = boot.bytes /\ d.spc = boot.spc /\ d.reserved = boot.reserved
      /\ d.numfats = boot.numfats /\ d.sectors16 = 0 /\ d.sectors32 = boot.sectors32
      /\ d.fatsize16 = boot.fatsize16 /\ d.fatsize32 = boot.fatsize32
      /\ known # 32 => d.rootentries = m
      /\ known = 32 => /\ d.rootentries = 0 /\ d.rootbegin = FAT_FIRST
                       /\ d.infopos = 1 /\ d.backup = 6
  BY <1>2, <1>3, <1>4, FinishedIs
<1>6. device' = d /\ table' = known
  BY <1>3, <1>4 DEF Format
<1>7. NumDataClusters(d, known) >= 1 /\ BootBits(d) = known
  BY <1>6 DEF RootFits
<1>8. Covers(boot, known)
  <2>1. tried' = tried
    BY DEF Format, loops
  <2> QED BY <1>2, <2>1 DEF Settled
<1>9. OneBit(boot.spc) /\ boot.bytes = 512 /\ boot.numfats = 2 /\ boot.sectors16 = 0
      /\ boot.rootentries = 0
  BY <1>2 DEF Fresh, SectorSize
<1>10. PICK f \in Nat : f = GetFatSize(d, known) /\ f = GetFatSize(boot, known)
  BY <1>2, <1>5, OverheadIs DEF GetFatSize
<1>11. /\ NumDataClusters(d, known) \in Nat \cup {-1}
       /\ NumDataClusters(boot, known) \in Nat \cup {-1}
       /\ NumDataClusters(d, known) <= NumDataClusters(boot, known)
  <2>1. NumRootSectors(boot, known) = 0
    BY <1>9, SMTT(30) DEF NumRootSectors, GetRootEntries, CeilDiv
  <2>2. NumRootSectors(d, known) \in Nat
    BY <1>5, OverheadIs
  <2>3. boot.reserved \in Nat
    BY <1>2, FieldsAre
  <2>4. Overhead(boot, known) = boot.reserved + 2 * f
    BY <1>9, <1>10, <2>1, <2>3, SMTT(30) DEF Overhead
  <2>5. Overhead(d, known) = boot.reserved + 2 * f + NumRootSectors(d, known)
    BY <1>5, <1>9, <1>10, <2>2, <2>3, SMTT(30) DEF Overhead
  <2>6. Overhead(boot, known) <= Overhead(d, known)
    BY <2>2, <2>3, <2>4, <2>5, SMTT(30)
  <2>7. GetNumSectors(d, known) = boot.sectors32 /\ GetNumSectors(boot, known) = boot.sectors32
        /\ boot.sectors32 \in Nat
    BY <1>2, <1>5, <1>9, FieldsAre DEF GetNumSectors
  <2> QED BY <1>2, <1>5, <1>9, <2>6, <2>7, OverheadIs, FewerClusters
<1>12. PICK n \in Nat : n = NumDataClusters(d, known) /\ n >= 1
  BY <1>7, <1>11
<1>13. 4096 * f >= known * (n + 2)
  <2>1. PICK p \in Nat : p = NumDataClusters(boot, known) /\ n <= p
    BY <1>11, <1>12
  <2>2. 4096 * f >= known * (p + 2)
    BY <1>8, <1>10, <2>1 DEF Covers
  <2>3. known * (n + 2) <= known * (p + 2)
    BY <1>2, <2>1, SMTT(30) DEF Types
  <2>4. known * (n + 2) \in Nat /\ known * (p + 2) \in Nat
    BY <1>2, <2>1, SMTT(30) DEF Types
  <2> QED BY <2>2, <2>3, <2>4
<1>14. PICK l \in Nat : l = LastCluster(d, known) /\ l = n + 1
  BY <1>12 DEF LastCluster
<1>15. TableHolds(d, known)
  <2>1. 4096 * f >= known * (l + 1)
    <3>1. l + 1 = n + 2
      BY <1>14
    <3> QED BY <1>13, <3>1
  <2>2. (f * 512 * 8) \div known >= l + 1
    BY <1>2, <2>1, HoldsIs
  <2> QED BY <1>5, <1>9, <1>10, <1>14, <2>2 DEF TableHolds
<1>16. Check(d)
  <2>1. OneBit(d.spc) /\ d.reserved # 0 /\ d.numfats # 0 /\ LastCluster(d, known) >= FAT_FIRST
    BY <1>2, <1>5, <1>9, <1>12, <1>14 DEF Reserved, FAT_FIRST
  <2>2. known = 32 => /\ d.infopos < d.reserved /\ GetBackupSector(d) < d.reserved
                      /\ IsValidCluster(d, known, RootBegin(d, known))
    <3>1. ASSUME known = 32
          PROVE  /\ d.infopos < d.reserved /\ GetBackupSector(d) < d.reserved
                 /\ IsValidCluster(d, known, RootBegin(d, known))
      <4>1. d.reserved = 32 /\ GetBackupSector(d) = 6 /\ RootBegin(d, known) = 2
        BY <1>2, <1>5, <3>1 DEF Reserved, GetBackupSector, RootBegin, FAT_FIRST
      <4>2. 2 \in FAT_FIRST .. LastCluster(d, known)
        BY <1>12, <1>14 DEF FAT_FIRST
      <4> QED BY <1>5, <3>1, <4>1, <4>2 DEF IsValidCluster
    <3> QED BY <3>1
  <2>3. (GetRootEntries(d, known) * 32) % d.bytes = 0
    <3>1. CASE known = 32
      BY <1>5, <1>9, <3>1, SMTT(30) DEF GetRootEntries
    <3>2. CASE known # 32
      <4>1. (m * 32) % (512 * boot.spc) = 0
        BY <1>1, <1>3, <1>9 DEF Acceptable, RootEntriesAllowed, BytesPerCluster
      <4>2. (m * 32) % 512 = 0
        BY <1>3, <1>9, <4>1, AreBounded, WholeSectors
      <4> QED BY <1>5, <1>9, <3>2, <4>2 DEF GetRootEntries
    <3> QED BY <3>1, <3>2
  <2> QED BY <1>7, <1>15, <2>1, <2>2, <2>3 DEF Check
<1>17. ASSUME NEW k \in 0 .. 1
       PROVE  LastInitialised(d, known, k) < TableBegin(d, known, k + 1)
  <2>1. 4096 * f >= known * (l + 1)
    <3>1. l + 1 = n + 2
      BY <1>14
    <3> QED BY <1>13, <3>1
  <2>2. d \in BootSector /\ d.bytes = 512
    BY <1>5, <1>9
  <2>3. known \in Types /\ f \in Nat /\ f = GetFatSize(d, known)
    BY <1>2, <1>10
  <2>4. l \in Nat /\ l = LastCluster(d, known)
    BY <1>12, <1>14
  <2> QED BY <2>1, <2>2, <2>3, <2>4, WritesInside
<1>18. d.numfats - 1 = 1
  BY <1>5, <1>9
<1> QED BY <1>6, <1>16, <1>17, <1>18 DEF InitInside

LEMMA FormatKeeps == Inv /\ Format => Inv'
<1> SUFFICES ASSUME Inv, Format
             PROVE  Inv'
  OBVIOUS
<1>1. TypeOK /\ Phased /\ phase = "sized"
  BY DEF Inv, Format
<1>2. /\ boot \in BootSector /\ Fresh(boot) /\ known \in Types
      /\ boot.reserved = Reserved(known) /\ asked = Nothing
  BY <1>1 DEF TypeOK, Phased, Sized
<1>3. boot' \in BootSector
  <2>1. PICK m \in Sizes16 : m = MaxEntries(boot)
    BY <1>1, <1>2, EntriesFit
  <2>2. boot' = Finished(SetRootEntries(boot, known, m), known)
    BY <2>1 DEF Format
  <2> QED BY <1>2, <2>2, FinishedIs
<1>4. /\ device' = boot' /\ table' = known /\ phase' = "closed" /\ asked' = asked
      /\ UNCHANGED <<known, rootsize, loops>>
  BY DEF Format
<1>5. TypeOK'
  BY <1>1, <1>2, <1>3, <1>4 DEF TypeOK, loops
<1>6. Phased'
  BY <1>2, <1>4 DEF Phased
<1>7. FormatOpens' /\ InitInside'
  <2>1. RootFits' /\ Settled' => Check(device') /\ InitInside'
    BY FormattedIsSound
  <2> QED BY <2>1 DEF FormatOpens, InitInside
<1>8. ResizeExact'
  <2>1. asked'.kind = "none"
    BY <1>2, <1>4 DEF Nothing
  <2> QED BY <2>1 DEF ResizeExact
<1> QED BY <1>5, <1>6, <1>7, <1>8 DEF Inv

LEMMA OtherKeeps == Inv /\ (Refuse \/ UNCHANGED vars) => Inv'
<1> SUFFICES ASSUME Inv, Refuse \/ UNCHANGED vars
             PROVE  Inv'
  OBVIOUS
<1>1. TypeOK /\ Phased
  BY DEF Inv
<1>2. CASE Refuse
  <2>1. phase = "sized" /\ phase' = "refused" /\ asked' = Nothing
    BY <1>1, <1>2 DEF Refuse, Phased
  <2>2. TypeOK'
    BY <1>1, <1>2 DEF TypeOK, Refuse, loops
  <2>3. Phased'
    BY <2>1 DEF Phased
  <2> QED BY <2>1, <2>2, <2>3, NothingWritten DEF Inv
<1>3. CASE UNCHANGED vars
  <2>1. TypeOK' /\ Phased'
    BY <1>1, <1>3 DEF vars, loops, TypeOK, Phased, Sized, Settled
  <2>2. FormatOpens /\ InitInside /\ ResizeExact
    BY DEF Inv
  <2>3. FormatOpens'
    BY <1>3, <2>2 DEF vars, loops, FormatOpens, Formatted, Settled, RootFits
  <2>4. InitInside'
    BY <1>3, <2>2 DEF vars, loops, InitInside, Formatted, Settled, RootFits
  <2>5. ResizeExact'
    BY <1>3, <2>2 DEF vars, ResizeExact, ShrunkExact, LastExact, LastSplit, FieldHolds,
       SectorsFor
  <2> QED BY <2>1, <2>3, <2>4, <2>5 DEF Inv
<1> QED BY <1>2, <1>3

LEMMA OpenKeeps == Inv /\ Open => Inv'
<1> SUFFICES ASSUME Inv, Open
             PROVE  Inv'
  OBVIOUS
<1>1. TypeOK /\ Phased /\ phase = "closed"
  BY DEF Inv, Open
<1>2. device = boot /\ boot \in BootSector
  BY <1>1 DEF TypeOK, Phased
<1>3. /\ boot' = device /\ device' = device /\ known' = BootBits(device) /\ asked' = Nothing
      /\ phase' = IF Check(device) THEN "open" ELSE "refused"
      /\ UNCHANGED <<table, rootsize, assumed, extra, tried>>
  BY DEF Open, loops
<1>4. BootBits(device) \in Types \cup {NONE}
  BY <1>2, BitsAre DEF BootBits
<1>5. TypeOK'
  BY <1>1, <1>2, <1>3, <1>4 DEF TypeOK
<1>6. Phased'
  BY <1>3 DEF Phased
<1>7. phase' # "closed"
  BY <1>3
<1> QED BY <1>3, <1>5, <1>6, <1>7, NothingWritten DEF Inv

(* A change of the number of sectors that its field holds.                 *)
LEMMA SectorsSet ==
    ASSUME NEW b \in BootSector, NEW bits \in Types, NEW s \in Nat, s >= 1,
           s <= MaxSectors \/ (s \in Sizes16 /\ bits # 32),
           NEW c, c = SetNumSectors(b, bits, s)
    PROVE  /\ c \in BootSector
           /\ c.bytes = b.bytes /\ c.spc = b.spc /\ c.reserved = b.reserved
           /\ c.numfats = b.numfats /\ c.fatsize16 = b.fatsize16
           /\ c.fatsize32 = b.fatsize32 /\ c.rootentries = b.rootentries
           /\ c.rootbegin = b.rootbegin /\ c.infopos = b.infopos /\ c.backup = b.backup
           /\ bits # 12 \/ s \in Sizes16 => GetNumSectors(c, bits) = s
<1>0. s \in Sizes16 <=> s <= 65535
  BY AreBounded, Bounded16
<1>1. CASE bits = 12 /\ s \notin Sizes16
  <2>1. c = b
    BY <1>0, <1>1 DEF SetNumSectors
  <2> QED BY <1>1, <2>1
<1>2. CASE bits \in {12, 16} /\ s \in Sizes16
  <2>1. c = [b EXCEPT !.sectors16 = s]
    BY <1>0, <1>2 DEF SetNumSectors
  <2>3. [b EXCEPT !.sectors16 = s] \in BootSector
    BY <1>2, FieldSet, Zenon
  <2>4. c \in BootSector
    BY <2>1, <2>3, Zenon
  <2>5. /\ c.bytes = b.bytes /\ c.spc = b.spc /\ c.reserved = b.reserved
        /\ c.numfats = b.numfats /\ c.fatsize16 = b.fatsize16
        /\ c.fatsize32 = b.fatsize32 /\ c.rootentries = b.rootentries
        /\ c.rootbegin = b.rootbegin /\ c.infopos = b.infopos /\ c.backup = b.backup
        /\ c.sectors16 = s
    BY <2>1, SMTT(30) DEF BootSector
  <2>6. GetNumSectors(c, bits) = s
    BY <1>2, <2>5 DEF GetNumSectors
  <2> QED BY <2>4, <2>5, <2>6
<1>3. CASE bits = 32 \/ (bits = 16 /\ s \notin Sizes16)
  <2>1. c = [b EXCEPT !.sectors16 = 0, !.sectors32 = s]
    BY <1>0, <1>3 DEF SetNumSectors
  <2>2. s \in 0 .. MaxSectors
    BY <1>3, SizesAre
  <2>3. [b EXCEPT !.sectors16 = 0, !.sectors32 = s] \in BootSector
    BY <2>2, Zero16, TwoSet, Zenon
  <2>4. c \in BootSector
    BY <2>1, <2>3, Zenon
  <2>5. /\ c.bytes = b.bytes /\ c.spc = b.spc /\ c.reserved = b.reserved
        /\ c.numfats = b.numfats /\ c.fatsize16 = b.fatsize16
        /\ c.fatsize32 = b.fatsize32 /\ c.rootentries = b.rootentries
        /\ c.rootbegin = b.rootbegin /\ c.infopos = b.infopos /\ c.backup = b.backup
        /\ c.sectors16 = 0 /\ c.sectors32 = s
    BY <2>1, SMTT(30) DEF BootSector
  <2>6. GetNumSectors(c, bits) = s
    BY <1>3, <2>5 DEF GetNumSectors
  <2> QED BY <2>4, <2>5, <2>6
<1> QED BY <1>1, <1>2, <1>3 DEF Types

LEMMA SameOverhead ==
    ASSUME NEW b, NEW c, NEW bits,
           c.bytes = b.bytes, c.reserved = b.reserved, c.numfats = b.numfats,
           c.fatsize16 = b.fatsize16, c.fatsize32 = b.fatsize32,
           c.rootentries = b.rootentries
    PROVE  GetFatSize(c, bits) = GetFatSize(b, bits) /\ Overhead(c, bits) = Overhead(b, bits)
  BY DEF Overhead, GetFatSize, NumRootSectors, GetRootEntries

(* What an open filesystem is known to be.                                 *)
LEMMA OpenIs ==
    ASSUME TypeOK, Phased, phase = "open"
    PROVE  /\ boot \in BootSector /\ known \in Types /\ known = BootBits(boot)
           /\ OneBit(boot.spc) /\ Check(boot)
           /\ GetNumSectors(boot, known) \in Nat
           /\ \/ GetNumSectors(boot, known) <= MaxSectors
              \/ GetNumSectors(boot, known) <= 65535 /\ known # 32
<1>1. boot \in BootSector /\ known = BootBits(boot) /\ Check(boot)
  BY DEF TypeOK, Phased
<1>2. OneBit(boot.spc)
  BY <1>1 DEF Check
<1>3. boot.spc # 0
  BY <1>2, SizesAre
<1>4. known \in Types
  BY <1>1, <1>3, BitsAre
<1>5. /\ GetNumSectors(boot, known) \in Nat
      /\ \/ GetNumSectors(boot, known) <= MaxSectors
         \/ GetNumSectors(boot, known) <= 65535 /\ known # 32
  BY <1>1, FieldsAre DEF GetNumSectors
<1> QED BY <1>1, <1>2, <1>4, <1>5

(* Less sectors and the same tables: what opened opens, if any cluster is  *)
(* left and the type is the same.                                          *)
LEMMA ShrunkOpens ==
    ASSUME NEW b \in BootSector, Check(b), NEW bits \in Types, bits = BootBits(b),
           NEW c \in BootSector, bits = BootBits(c), LastCluster(c, bits) >= FAT_FIRST,
           c.bytes = b.bytes, c.spc = b.spc, c.reserved = b.reserved,
           c.numfats = b.numfats, c.fatsize16 = b.fatsize16, c.fatsize32 = b.fatsize32,
           c.rootentries = b.rootentries, c.rootbegin = b.rootbegin,
           c.infopos = b.infopos, c.backup = b.backup,
           GetNumSectors(c, bits) <= GetNumSectors(b, bits)
    PROVE  Check(c)
<1>1. OneBit(b.spc) /\ TableHolds(b, bits)
  BY DEF Check
<1>2. GetFatSize(c, bits) = GetFatSize(b, bits) /\ Overhead(c, bits) = Overhead(b, bits)
  BY SameOverhead
<1>3. /\ NumDataClusters(b, bits) \in Nat \cup {-1}
      /\ NumDataClusters(c, bits) \in Nat \cup {-1}
      /\ NumDataClusters(c, bits) <= NumDataClusters(b, bits)
  <2>1. PICK o \in Nat : o = Overhead(b, bits) /\ o = Overhead(c, bits)
    BY <1>2, OverheadIs
  <2>2. o <= o
    BY <2>1
  <2>3. GetNumSectors(b, bits) \in Nat /\ GetNumSectors(c, bits) \in Nat
    BY OverheadIs
  <2> QED BY <1>1, <2>1, <2>2, <2>3, FewerClusters
<1>4. PICK m \in Int, n \in Int : /\ m = LastCluster(b, bits) /\ n = LastCluster(c, bits)
                                  /\ n <= m
  BY <1>3 DEF LastCluster
<1>5. TableHolds(c, bits)
  <2>1. PICK h : h = (GetFatSize(b, bits) * b.bytes * 8) \div bits
    OBVIOUS
  <2>2. h \in Nat
    <3>1. GetFatSize(b, bits) \in Nat /\ b.bytes \in Nat
      BY OverheadIs, FieldsAre
    <3>2. \A x \in Nat, y \in Nat : x * y * 8 \in Nat
      BY SMTT(30)
    <3>3. \A x \in Nat : x \div bits \in Nat
      BY SMTT(30) DEF Types
    <3> QED BY <2>1, <3>1, <3>2, <3>3
  <2>3. h >= m + 1
    BY <1>1, <1>4, <2>1 DEF TableHolds
  <2>4. h >= n + 1
    BY <1>4, <2>2, <2>3
  <2> QED BY <1>2, <1>4, <2>1, <2>4 DEF TableHolds
<1>6. bits = 32 => IsValidCluster(c, bits, RootBegin(c, bits))
  <2>1. ASSUME bits = 32
        PROVE  IsValidCluster(c, bits, RootBegin(c, bits))
    <3>1. RootBegin(b, bits) = b.rootbegin /\ RootBegin(c, bits) = b.rootbegin
      BY <2>1 DEF RootBegin
    <3>2. b.rootbegin \in FAT_FIRST .. m
      BY <1>4, <2>1, <3>1 DEF Check, IsValidCluster
    <3>3. b.rootbegin = FAT_FIRST
      BY <3>2, FieldsAre DEF FAT_FIRST, FAT_ROOT
    <3> QED BY <1>4, <3>1, <3>3 DEF IsValidCluster, FAT_FIRST
  <2> QED BY <2>1
<1>7. OneBit(c.spc) /\ c.reserved # 0 /\ c.numfats # 0
  BY DEF Check
<1>8. bits = 32 /\ c.infopos \notin {0, 65535} => c.infopos < c.reserved
  BY DEF Check
<1>9. bits = 32 => GetBackupSector(c) < c.reserved
  BY DEF Check, GetBackupSector
<1>10. (GetRootEntries(c, bits) * 32) % c.bytes = 0
  BY DEF Check, GetRootEntries
<1> QED BY <1>5, <1>6, <1>7, <1>8, <1>9, <1>10 DEF Check

LEMMA ShrinkKeeps == ASSUME NEW s \in Int PROVE Inv /\ Shrink(s) => Inv'
<1> SUFFICES ASSUME Inv, Shrink(s)
             PROVE  Inv'
  OBVIOUS
<1>1. TypeOK /\ Phased /\ phase = "open" /\ Shrinks(boot, s)
  BY DEF Inv, Shrink
<1>2. /\ boot \in BootSector /\ known \in Types /\ known = BootBits(boot)
      /\ OneBit(boot.spc) /\ Check(boot)
  BY <1>1, OpenIs
<1>3. PICK g \in Nat : /\ g = GetNumSectors(boot, known)
                       /\ g <= MaxSectors \/ (g <= 65535 /\ known # 32)
  BY <1>1, OpenIs
<1>4. s < g /\ s >= 10 /\ s \in Nat
  BY <1>1, <1>3 DEF Shrinks
<1>5. s <= MaxSectors \/ (s \in Sizes16 /\ known # 32)
  <2>1. CASE g <= MaxSectors
    BY <1>4, <2>1, SizesAre
  <2>2. CASE g <= 65535 /\ known # 32
    <3>1. s <= 65535
      BY <1>4, <2>2
    <3> QED BY <1>4, <2>2, <3>1, Bounded16
  <2> QED BY <1>3, <2>1, <2>2
<1>6. PICK c : c = SetNumSectors(boot, known, s)
  OBVIOUS
<1>7. /\ c \in BootSector
      /\ c.bytes = boot.bytes /\ c.spc = boot.spc /\ c.reserved = boot.reserved
      /\ c.numfats = boot.numfats /\ c.fatsize16 = boot.fatsize16
      /\ c.fatsize32 = boot.fatsize32 /\ c.rootentries = boot.rootentries
      /\ c.rootbegin = boot.rootbegin /\ c.infopos = boot.infopos /\ c.backup = boot.backup
      /\ known # 12 \/ s \in Sizes16 => GetNumSectors(c, known) = s
  <2>1. s >= 1
    BY <1>4
  <2> QED BY <1>2, <1>4, <1>5, <1>6, <2>1, SectorsSet
<1>8. c = ShrunkCopy(boot, s) /\ BootBits(c) = known
  BY <1>1, <1>2, <1>6 DEF ShrunkCopy, Shrinks
<1>9. /\ boot' = c /\ device' = c /\ phase' = "closed"
      /\ asked' = [kind |-> "sectors", value |-> s, last |-> LastCluster(c, known)]
      /\ UNCHANGED <<known, table, rootsize, loops>>
  BY <1>6, <1>8 DEF Shrink
<1>10. TypeOK'
  BY <1>1, <1>7, <1>9 DEF TypeOK, loops
<1>11. Phased'
  BY <1>9 DEF Phased
<1>12. asked'.kind = "sectors" /\ asked'.value = s /\ asked'.last = LastCluster(c, known)
  BY <1>9
<1>13. ~ Formatted'
  BY <1>12 DEF Formatted, Nothing
<1>14. ASSUME known # 12 \/ s \in Sizes16
       PROVE  ShrunkExact'
  <2>1. GetNumSectors(c, known) = s /\ GetNumSectors(c, known) <= GetNumSectors(boot, known)
    BY <1>3, <1>4, <1>7, <1>14
  <2>2. ASSUME LastCluster(c, known) >= FAT_FIRST
        PROVE  Check(c)
    BY <1>2, <1>7, <1>8, <2>1, <2>2, ShrunkOpens
  <2> QED BY <1>8, <1>9, <1>12, <2>1, <2>2 DEF ShrunkExact
<1>15. ResizeExact'
  <2>1. FieldHolds(s)' => known # 12 \/ s \in Sizes16
    BY <1>4, <1>9, Bounded16 DEF FieldHolds
  <2>2. asked'.kind # "last"
    BY <1>12
  <2>3. FieldHolds(asked.value)' => FieldHolds(s)'
    BY <1>12 DEF FieldHolds
  <2> QED BY <1>14, <2>1, <2>2, <2>3 DEF ResizeExact
<1> QED BY <1>10, <1>11, <1>13, <1>15 DEF Inv, FormatOpens, InitInside

(* The bytes of a table are those of its sectors.                          *)
LEMMA BytesAre ==
    ASSUME NEW b \in BootSector, NEW f \in Nat
    PROVE  \E q \in Nat : f * b.bytes = 4 * q
<1>1. b.bytes \in {512, 1024, 2048, 4096}
  BY FieldsAre
<1>2. CASE b.bytes = 512
  BY <1>2, SMTT(30)
<1>3. CASE b.bytes = 1024
  BY <1>3, SMTT(30)
<1>4. CASE b.bytes = 2048
  BY <1>4, SMTT(30)
<1>5. CASE b.bytes = 4096
  BY <1>5, SMTT(30)
<1> QED BY <1>1, <1>2, <1>3, <1>4, <1>5

(* What setlastcluster checks is enough for 16 and 32 bits and, of 12, for *)
(* all but an entry that begins in the last byte.                          *)
LEMMA LastHolds ==
    ASSUME NEW bits \in Types, NEW q \in Nat, NEW last \in Nat,
           CeilDiv(last * bits, 8) < 4 * q,
           ~ (bits = 12 /\ (last * 12) \div 8 + 1 = 4 * q)
    PROVE  (4 * q * 8) \div bits >= last + 1
<1>1. CASE bits = 12
  BY <1>1, SMTT(60) DEF CeilDiv
<1>2. CASE bits = 16
  BY <1>2, SMTT(60) DEF CeilDiv
<1>3. CASE bits = 32
  BY <1>3, SMTT(60) DEF CeilDiv
<1> QED BY <1>1, <1>2, <1>3 DEF Types

LEMMA SetLastKeeps == ASSUME NEW last \in Int PROVE Inv /\ SetLastCluster(last) => Inv'
<1> SUFFICES ASSUME Inv, SetLastCluster(last)
             PROVE  Inv'
  OBVIOUS
<1>1. TypeOK /\ Phased /\ phase = "open" /\ LastAllowed(boot, last)
  BY DEF Inv, SetLastCluster
<1>2. /\ boot \in BootSector /\ known \in Types /\ known = BootBits(boot)
      /\ OneBit(boot.spc) /\ boot.spc \in Nat /\ boot.spc >= 1
  BY <1>1, OpenIs, SizesAre
<1>3. last \in Nat /\ last >= 2
  BY <1>1 DEF LastAllowed
<1>4. PICK o \in Nat, f \in Nat : o = Overhead(boot, known) /\ f = GetFatSize(boot, known)
  BY <1>2, OverheadIs
<1>5. PICK m \in Nat : m = last - 1 /\ m >= 1
  BY <1>3
<1>6. m * boot.spc \in Nat /\ m * boot.spc >= 1
  BY <1>2, <1>5, SMTT(30)
<1>7. PICK s \in Nat : s = m * boot.spc + o /\ s >= 1
  BY <1>6
<1>8. s = SectorsFor(boot, last) /\ s <= MaxSectors
  BY <1>4, <1>5, <1>7 DEF SectorsFor, SetLastCluster
<1>9. PICK c : c = SetNumSectors(boot, known, s)
  OBVIOUS
<1>10. /\ c \in BootSector
       /\ c.bytes = boot.bytes /\ c.spc = boot.spc /\ c.reserved = boot.reserved
       /\ c.numfats = boot.numfats /\ c.fatsize16 = boot.fatsize16
       /\ c.fatsize32 = boot.fatsize32 /\ c.rootentries = boot.rootentries
       /\ known # 12 \/ s \in Sizes16 => GetNumSectors(c, known) = s
  BY <1>2, <1>7, <1>8, <1>9, SectorsSet
<1>11. /\ boot' = c /\ device' = c /\ phase' = "closed"
       /\ asked' = [kind |-> "last", value |-> last, last |-> last]
       /\ UNCHANGED <<known, table, rootsize, loops>>
  BY <1>8, <1>9 DEF SetLastCluster
<1>12. TypeOK'
  BY <1>1, <1>10, <1>11 DEF TypeOK, loops
<1>13. Phased'
  BY <1>11 DEF Phased
<1>14. asked'.kind = "last" /\ asked'.last = last
  BY <1>11
<1>15. ~ Formatted'
  BY <1>14 DEF Formatted, Nothing
<1>16. GetFatSize(c, known) = f /\ Overhead(c, known) = o
  BY <1>4, <1>10, SameOverhead
<1>17. ASSUME known # 12 \/ s \in Sizes16
       PROVE  LastExact'
  <2>1. NumDataClusters(c, known) = m
    <3>1. GetNumSectors(c, known) = s
      BY <1>10, <1>17
    <3>2. NumDataClusters(c, known) = (s - o) \div c.spc
      BY <1>6, <1>7, <1>16, <3>1 DEF NumDataClusters
    <3>3. s - o = m * boot.spc
      BY <1>6, <1>7
    <3> QED BY <1>2, <1>10, <3>2, <3>3, WholeQuotient
  <2>2. LastCluster(c, known) = last
    BY <1>3, <1>5, <2>1 DEF LastCluster
  <2>3. PICK q \in Nat : f * boot.bytes = 4 * q
    BY <1>2, BytesAre
  <2>4. CeilDiv(last * known, 8) < 4 * q
    BY <1>1, <1>4, <2>3 DEF LastAllowed
  <2>5. CASE known = 12 /\ (last * 12) \div 8 + 1 = 4 * q
    <3>1. LastSplit'
      BY <1>10, <1>11, <1>14, <1>16, <2>3, <2>5 DEF LastSplit
    <3> QED BY <1>11, <1>14, <2>2, <3>1 DEF LastExact
  <2>6. CASE ~ (known = 12 /\ (last * 12) \div 8 + 1 = 4 * q)
    <3>1. (4 * q * 8) \div known >= last + 1
      BY <1>2, <1>3, <2>4, <2>6, LastHolds
    <3>2. TableHolds(c, known)
      BY <1>10, <1>16, <2>2, <2>3, <3>1 DEF TableHolds
    <3> QED BY <1>11, <1>14, <2>2, <3>2 DEF LastExact
  <2> QED BY <2>5, <2>6
<1>18. ResizeExact'
  <2>1. SectorsFor(device, asked.last)' = s
    BY <1>5, <1>7, <1>10, <1>11, <1>14, <1>16 DEF SectorsFor
  <2>2. FieldHolds(SectorsFor(device, asked.last))' => known # 12 \/ s \in Sizes16
    BY <1>11, <2>1, Bounded16 DEF FieldHolds
  <2>3. asked'.kind # "sectors"
    BY <1>14
  <2> QED BY <1>17, <2>2, <2>3 DEF ResizeExact
<1> QED BY <1>12, <1>13, <1>15, <1>18 DEF Inv, FormatOpens, InitInside

LEMMA NextKeeps == Inv /\ [Next]_vars => Inv'
<1>1. ASSUME Inv, NEW n \in Resizes, Shrink(n) \/ SetLastCluster(n)
      PROVE  Inv'
  <2>1. n \in Int
    BY GeometryAssumption
  <2> QED BY <1>1, <2>1, ShrinkKeeps, SetLastKeeps
<1> QED
  BY <1>1, BeginRoundKeeps, TrySizeKeeps, EndRoundKeeps, FormatKeeps, OpenKeeps, OtherKeeps
  DEF Next, Step

LEMMA Invariance == Spec => []Inv
  BY InitHolds, NextKeeps, PTL DEF Spec

(* What fattool format writes is a filesystem that fatopen() accepts, with *)
(* the tables emptied and nothing else written, for every size of device,  *)
(* of clusters and of root directory: fatsetsize() and                     *)
(* fatbootbestfatsize() may go round as often as they like and lose the    *)
(* high bits of a size, what they settle on covers the clusters.           *)
THEOREM FormattedSound == Spec => []FormatSound
<1>1. Inv => FormatSound
  BY DEF Inv, FormatSound
<1> QED BY <1>1, Invariance, PTL

(* fatshrink and fattool setlastcluster leave a filesystem of the size     *)
(* they were asked for: fatshrink moves and cuts files by the last cluster *)
(* of a copy of the boot sector, that of the sector it writes afterwards;  *)
(* what is written opens, with the type and the tables it had.             *)
THEOREM ResizedExactly == Spec => []ResizeExact
<1>1. Inv => ResizeExact
  BY DEF Inv
<1> QED BY <1>1, Invariance, PTL
=============================================================================
