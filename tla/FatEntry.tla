------------------------------ MODULE FatEntry ------------------------------
(***************************************************************************)
(* lib/table.c: where the entry of a cluster is in a file allocation table *)
(* and how it is packed in its bytes.  On FAT12 two entries share three    *)
(* bytes and an entry may begin in the last byte of a sector.              *)
(*                                                                         *)
(* A table is a function from its bytes, numbered from zero, to 0..255.    *)
(***************************************************************************)
EXTENDS Integers

Byte == 0 .. 255
Widths == {12, 16, 32}

(* The values fatgetfat() may return: on FAT32 the high four bits are not  *)
(* part of the entry.                                                      *)
Value12 == 0 .. 4095
Value16 == {v \in Nat : v < 65536}
Value32 == {v \in Nat : v < 268435456}

Values(bits) == CASE bits = 12 -> Value12
                  [] bits = 16 -> Value16
                  [] bits = 32 -> Value32

(* _fatclusterpos(): the first byte of the entry of cluster n.             *)
Position(bits, n) == (n * (bits \div 4)) \div 2

(* _fatclusterposnext(): the bytes of an entry.                            *)
Bytes(bits, n) ==
    Position(bits, n) .. Position(bits, n) + (IF bits = 32 THEN 3 ELSE 1)

(* A table of that many bytes, and the clusters that have their entry there. *)
Tables(size) == [0 .. size - 1 -> Byte]
Fits(bits, size, n) == n \in Nat /\ Bytes(bits, n) \subseteq 0 .. size - 1

(* fatgetfat(): the entry of cluster n in its bytes.                       *)
Content12(n, lo, hi) ==
    LET content == hi * 256 + lo
    IN  (IF n % 2 = 1 THEN content \div 16 ELSE content) % 4096

Get16(t, p) == t[p + 1] * 256 + t[p]

Get32(t, p) == (t[p + 3] % 16) * 16777216 + t[p + 2] * 65536
                  + t[p + 1] * 256 + t[p]

Get(bits, t, n) ==
    LET p == Position(bits, n)
    IN  CASE bits = 12 -> Content12(n, t[p], t[p + 1])
          [] bits = 16 -> Get16(t, p)
          [] bits = 32 -> Get32(t, p)

(* fatsetfat(): the two bytes that hold the entry v of cluster n, and the  *)
(* nibble of the neighbour that was in them, shifted so that all is in the *)
(* low 16 bits.                                                            *)
Twenty(n, lo, hi, v) ==
    LET next == (hi \div 16) * 65536 + v * 16 + (lo % 16)
    IN  IF n % 2 = 0 THEN next \div 16 ELSE next

Low12(n, lo, hi, v) == Twenty(n, lo, hi, v) % 256

(* The neighbour forgotten.                                                *)
High12Alone(n, lo, hi, v) == (Twenty(n, lo, 0, v) \div 256) % 256

High12(n, lo, hi, v) == (Twenty(n, lo, hi, v) \div 256) % 256

Set12(t, p, n, v) ==
    [t EXCEPT ![p] = Low12(n, t[p], t[p + 1], v),
              ![p + 1] = High12(n, t[p], t[p + 1], v)]

Set16(t, p, v) == [t EXCEPT ![p] = v % 256, ![p + 1] = v \div 256]

Set32(t, p, v) == [t EXCEPT ![p] = v % 256,
                            ![p + 1] = (v \div 256) % 256,
                            ![p + 2] = (v \div 65536) % 256,
                            ![p + 3] = v \div 16777216]

Set(bits, t, n, v) ==
    LET p == Position(bits, n)
    IN  CASE bits = 12 -> Set12(t, p, n, v)
          [] bits = 16 -> Set16(t, p, v)
          [] bits = 32 -> Set32(t, p, v)
=============================================================================
