----------------------------- MODULE MCGeometry -----------------------------
(* Sizes about those where the type of the filesystem or the size of its   *)
(* tables changes, for clusters of several sizes.                          *)
EXTENDS Geometry

MCMaxSectors == 1100000
MCTooMany == 134217728

Around(n, d) == {k \in n - d .. n + d : k % 3 = 0}

(* FAT12 to FAT16, FAT16 to FAT32, a table of one sector more.             *)
MCDevices == {2, 4, 8, 20, 100, 2880, 20480, 65535, 65536, 1000000}
               \cup UNION {Around(4085 * c, 60 + c) : c \in {1, 4}}
               \cup UNION {Around(66100 * c, 600) : c \in {1, 4}}

MCClusters == {1, 4, 32}
MCRootSizes == {0, 16}
MCResizes == {10, 19, 682, 2000, 4083, 4100, 65000, 66000, 200000, 1000000}

(* A device where the size goes between 5011 and 5012.                     *)
OneDevice == {651461}
OneSize == {1}
NoResize == {}
=============================================================================
