----------------------------- MODULE MCFatTable -----------------------------
(* Two clusters in sectors of four bytes: on FAT12 the entry of cluster 2   *)
(* begins in the last byte of a sector.                                     *)
EXTENDS FatTable

MCLast == 3
MCNexts == {FAT_UNUSED, FAT_EOF, FAT_BAD} \cup 2 .. 3
MCFatSize == [b \in Widths |-> IF b = 32 THEN 4 ELSE 2]
FAT12 == {12}
MCCounters == {1, 9}
MCBroken == {{}, {<<0, 1>>}, {<<0, 1>>, <<1, 1>>}}

(* The tables where 2 and 3 are followed by the given values: all free, a   *)
(* chain, a loop.                                                           *)
Image(b, two, three) ==
    LET blank == [i \in 0 .. MCFatSize[b] * 4 - 1 |-> 0]
        header == Set(b, Set(b, blank, 0, Mark(b, 8)), 1, Mark(b, 8))
    IN  Set(b, Set(b, header, 2, two), 3, three)

MCImages == [b \in Widths |->
                {Image(b, 0, 0), Image(b, 3, Mark(b, 15)), Image(b, 3, 2)}]
=============================================================================
