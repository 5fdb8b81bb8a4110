--------------------------- MODULE FatTableProofs ---------------------------
(***************************************************************************)
(* Proofs about FatEntry and FatTable, for every number of copies and of   *)
(* clusters and for all three widths of the entries.  An entry written is  *)
(* the entry read afterwards, and writing it leaves every other entry of   *)
(* the table as it was.                                                    *)
(***************************************************************************)
EXTENDS FatTable, FiniteSetTheorems, WellFoundedInduction, TLAPS

-----------------------------------------------------------------------------
(* FAT12: two entries in three bytes.                                      *)

LEMMA Shape12 ==
    \A n \in Nat : \E k \in Nat :
       \/ n = 2 * k /\ Position(12, n) = 3 * k /\ n % 2 = 0
       \/ n = 2 * k + 1 /\ Position(12, n) = 3 * k + 1 /\ n % 2 = 1
<1> TAKE n \in Nat
<1> DEFINE k == n \div 2
<1>1. k \in Nat
  OBVIOUS
<1>2. n = 2 * k \/ n = 2 * k + 1
  OBVIOUS
<1> HIDE DEF k
<1>3. 12 \div 4 = 3
  OBVIOUS
<1>4. CASE n = 2 * k
  BY <1>1, <1>3, <1>4 DEF Position
<1>5. CASE n = 2 * k + 1
  BY <1>1, <1>3, <1>5 DEF Position
<1> QED BY <1>1, <1>2, <1>4, <1>5

(* Two entries overlap in the byte they share, if they are the two of a    *)
(* triple, or not at all.                                                  *)
LEMMA Apart12 ==
    ASSUME NEW n \in Nat, NEW m \in Nat
    PROVE  /\ Position(12, n) \in Nat /\ Position(12, m) \in Nat
           /\ n % 2 = 0 \/ n % 2 = 1
           /\ n # m => \/ Position(12, n) + 1 < Position(12, m)
                       \/ Position(12, m) + 1 < Position(12, n)
                       \/ /\ Position(12, n) + 1 = Position(12, m)
                          /\ n % 2 = 0 /\ m % 2 = 1
                       \/ /\ Position(12, m) + 1 = Position(12, n)
                          /\ m % 2 = 0 /\ n % 2 = 1
<1>1. PICK k \in Nat :
       \/ n = 2 * k /\ Position(12, n) = 3 * k /\ n % 2 = 0
       \/ n = 2 * k + 1 /\ Position(12, n) = 3 * k + 1 /\ n % 2 = 1
  BY Shape12
<1>2. PICK j \in Nat :
       \/ m = 2 * j /\ Position(12, m) = 3 * j /\ m % 2 = 0
       \/ m = 2 * j + 1 /\ Position(12, m) = 3 * j + 1 /\ m % 2 = 1
  BY Shape12
<1> QED BY <1>1, <1>2

(* The bytes that hold an entry, for an even cluster and for an odd one.   *)
LEMMA Even12 ==
    ASSUME NEW n \in Nat, NEW lo \in Byte, NEW hi \in Byte,
           NEW v \in Value12, n % 2 = 0
    PROVE  /\ Low12(n, lo, hi, v) = v % 256
           /\ High12(n, lo, hi, v) = ((hi \div 16) * 16) + (v \div 256)
<1> DEFINE y == hi \div 16
           x == lo % 16
<1>1. y \in 0 .. 15 /\ x \in 0 .. 15
  BY DEF Byte, Value12
<1>2. Twenty(n, lo, hi, v) = (y * 65536 + v * 16 + x) \div 16
  BY DEF Twenty
<1> HIDE DEF y, x
<1>3. Twenty(n, lo, hi, v) = y * 4096 + v
  <2>1. (y * 65536 + v * 16 + x) \div 16 = y * 4096 + v
    BY ONLY <1>1, v \in Value12 DEF Value12
  <2> QED BY ONLY <1>2, <2>1
<1>4. /\ (y * 4096 + v) % 256 = v % 256
      /\ ((y * 4096 + v) \div 256) % 256 = y * 16 + (v \div 256)
  BY ONLY <1>1, v \in Value12 DEF Value12
<1>5. Low12(n, lo, hi, v) = v % 256
  BY ONLY <1>3, <1>4 DEF Low12
<1>6. High12(n, lo, hi, v) = y * 16 + (v \div 256)
  BY ONLY <1>3, <1>4 DEF High12
<1> QED BY <1>5, <1>6 DEF y

LEMMA Odd12 ==
    ASSUME NEW n \in Nat, NEW lo \in Byte, NEW hi \in Byte,
           NEW v \in Value12, n % 2 = 1
    PROVE  /\ Low12(n, lo, hi, v) = ((v % 16) * 16) + (lo % 16)
           /\ High12(n, lo, hi, v) = v \div 16
<1> DEFINE y == hi \div 16
           x == lo % 16
<1>1. y \in 0 .. 15 /\ x \in 0 .. 15
  BY DEF Byte, Value12
<1>2. Twenty(n, lo, hi, v) = y * 65536 + v * 16 + x
  BY DEF Twenty
<1> HIDE DEF y, x
<1>3. (y * 65536 + v * 16 + x) % 256 = (v % 16) * 16 + x
  <2>1. (y * 65536 + v * 16 + x) % 256 = (v * 16 + x) % 256
    BY ONLY <1>1, v \in Value12 DEF Value12
  <2>2. (v * 16 + x) % 256 = (v % 16) * 16 + x
    BY ONLY <1>1, v \in Value12 DEF Value12
  <2> QED BY ONLY <2>1, <2>2
<1>4. ((y * 65536 + v * 16 + x) \div 256) % 256 = v \div 16
  <2>1. (y * 65536 + v * 16 + x) \div 256 = y * 256 + (v \div 16)
    BY ONLY <1>1, v \in Value12 DEF Value12
  <2> DEFINE z == v \div 16
  <2>2. z \in 0 .. 255
    BY DEF Byte, Value12
  <2> HIDE DEF z
  <2>3. (y * 256 + z) % 256 = z
    BY ONLY <1>1, <2>2
  <2> QED BY ONLY <2>1, <2>3 DEF z
<1>5. Low12(n, lo, hi, v) = (v % 16) * 16 + x
  BY ONLY <1>2, <1>3 DEF Low12
<1>6. High12(n, lo, hi, v) = v \div 16
  BY ONLY <1>2, <1>4 DEF High12
<1> QED BY <1>5, <1>6 DEF x

(* An entry stored is the entry read, and the other nibble of the byte     *)
(* shared with the neighbour is still there.                               *)
LEMMA Codec12 ==
    ASSUME NEW n \in Nat, NEW lo \in Byte, NEW hi \in Byte,
           NEW v \in Value12
    PROVE  /\ Low12(n, lo, hi, v) \in Byte
           /\ High12(n, lo, hi, v) \in Byte
           /\ Content12(n, Low12(n, lo, hi, v), High12(n, lo, hi, v)) = v
           /\ n % 2 = 1 => Low12(n, lo, hi, v) % 16 = lo % 16
           /\ n % 2 = 0 => High12(n, lo, hi, v) \div 16 = hi \div 16
<1> DEFINE low == Low12(n, lo, hi, v)
           high == High12(n, lo, hi, v)
<1>1. CASE n % 2 = 0
  <2>1. low = v % 256 /\ high = ((hi \div 16) * 16) + (v \div 256)
    BY <1>1, Even12
  <2>2. Content12(n, low, high) = (high * 256 + low) % 4096
    BY <1>1 DEF Content12
  <2> DEFINE y == hi \div 16
  <2>3. y \in 0 .. 15
    BY DEF Byte, Value12
  <2>4. low = v % 256 /\ high = y * 16 + (v \div 256)
    BY <2>1
  <2> HIDE DEF y, low, high
  <2>5. low \in 0 .. 255 /\ high \in 0 .. 255 /\ high \div 16 = y
    BY ONLY <2>3, <2>4, v \in Value12 DEF Value12
  <2>6. (high * 256 + low) % 4096 = v
    BY ONLY <2>3, <2>4, v \in Value12 DEF Value12
  <2>7. n % 2 # 1
    BY <1>1
  <2> QED BY ONLY <2>2, <2>5, <2>6, <2>7 DEF low, high, y, Byte
<1>2. CASE n % 2 = 1
  <2>1. low = ((v % 16) * 16) + (lo % 16) /\ high = v \div 16
    BY <1>2, Odd12
  <2>2. Content12(n, low, high) = ((high * 256 + low) \div 16) % 4096
    BY <1>2 DEF Content12
  <2> DEFINE x == lo % 16
  <2>3. x \in 0 .. 15
    BY DEF Byte, Value12
  <2>4. low = (v % 16) * 16 + x /\ high = v \div 16
    BY <2>1
  <2> HIDE DEF x, low, high
  <2>5. low \in 0 .. 255 /\ high \in 0 .. 255 /\ low % 16 = x
    <3> DEFINE z == v % 16
    <3>0. v \in Nat /\ v < 4096
      BY SMTT(30) DEF Value12
    <3>1. z \in 0 .. 15 /\ v \div 16 \in 0 .. 255
      BY ONLY <3>0
    <3>2. low = z * 16 + x
      BY <2>4
    <3> HIDE DEF z
    <3> QED BY ONLY <2>3, <2>4, <3>1, <3>2
  <2>6. ((high * 256 + low) \div 16) % 4096 = v
    BY ONLY <2>3, <2>4, v \in Value12 DEF Value12
  <2>7. n % 2 # 0
    BY <1>2
  <2> QED BY ONLY <2>2, <2>5, <2>6, <2>7 DEF low, high, x, Byte
<1>3. n % 2 = 0 \/ n % 2 = 1
  OBVIOUS
<1> QED BY ONLY <1>1, <1>2, <1>3

(* Each entry depends on one nibble of the byte shared.                    *)
LEMMA Neighbour12 ==
    ASSUME NEW n \in Nat, NEW lo \in Byte, NEW hi \in Byte,
           NEW other \in Byte
    PROVE  /\ n % 2 = 0 /\ hi % 16 = other % 16
                => Content12(n, lo, hi) = Content12(n, lo, other)
           /\ n % 2 = 1 /\ lo \div 16 = other \div 16
                => Content12(n, lo, hi) = Content12(n, other, hi)
<1>1. ASSUME n % 2 = 0, hi % 16 = other % 16
      PROVE  Content12(n, lo, hi) = Content12(n, lo, other)
  <2>1. /\ Content12(n, lo, hi) = (hi * 256 + lo) % 4096
        /\ Content12(n, lo, other) = (other * 256 + lo) % 4096
    BY <1>1 DEF Content12
  <2>2. (hi * 256 + lo) % 4096 = (other * 256 + lo) % 4096
    BY ONLY <1>1, lo \in Byte, hi \in Byte, other \in Byte DEF Byte
  <2> QED BY ONLY <2>1, <2>2
<1>2. ASSUME n % 2 = 1, lo \div 16 = other \div 16
      PROVE  Content12(n, lo, hi) = Content12(n, other, hi)
  <2>1. /\ Content12(n, lo, hi) = ((hi * 256 + lo) \div 16) % 4096
        /\ Content12(n, other, hi) = ((hi * 256 + other) \div 16) % 4096
    BY <1>2 DEF Content12
  <2>2. (hi * 256 + lo) \div 16 = (hi * 256 + other) \div 16
    BY ONLY <1>2, lo \in Byte, hi \in Byte, other \in Byte DEF Byte
  <2> QED BY ONLY <2>1, <2>2
<1> QED BY ONLY <1>1, <1>2

-----------------------------------------------------------------------------
(* Reading a table after storing an entry in it.                           *)

LEMMA Position16 == \A n \in Nat : Position(16, n) = 2 * n
<1>1. 16 \div 4 = 4
  OBVIOUS
<1> QED BY <1>1 DEF Position

LEMMA Position32 == \A n \in Nat : Position(32, n) = 4 * n
<1>1. 32 \div 4 = 8
  OBVIOUS
<1> QED BY <1>1 DEF Position

LEMMA Digits16 ==
    ASSUME NEW v \in Value16
    PROVE  /\ v % 256 \in Byte /\ v \div 256 \in Byte
           /\ (v \div 256) * 256 + (v % 256) = v
  BY SMTT(30) DEF Value16, Byte

LEMMA Digits32 ==
    ASSUME NEW v \in Value32
    PROVE  /\ v % 256 \in Byte /\ (v \div 256) % 256 \in Byte
           /\ (v \div 65536) % 256 \in Byte /\ v \div 16777216 \in Byte
           /\ (v \div 16777216) % 16 = v \div 16777216
           /\ (v \div 16777216) * 16777216 + ((v \div 65536) % 256) * 65536
                 + ((v \div 256) % 256) * 256 + (v % 256) = v
<1>0. v \in Nat /\ v < 268435456
  BY SMTT(30) DEF Value32
<1>1. /\ v % 256 \in 0 .. 255 /\ (v \div 256) % 256 \in 0 .. 255
      /\ (v \div 65536) % 256 \in 0 .. 255 /\ v \div 16777216 \in 0 .. 15
  BY ONLY <1>0, SMTT(30)
<1>2. v = (v \div 256) * 256 + (v % 256)
  BY ONLY <1>0, SMTT(30)
<1>3. v \div 256 = (v \div 65536) * 256 + ((v \div 256) % 256)
  BY ONLY <1>0, SMTT(30)
<1>4. v \div 65536 = (v \div 16777216) * 256 + ((v \div 65536) % 256)
  BY ONLY <1>0, SMTT(30)
<1>5. \A x \in 0 .. 15 : x % 16 = x
  OBVIOUS
<1>6. (v \div 16777216) * 16777216 + ((v \div 65536) % 256) * 65536
                 + ((v \div 256) % 256) * 256 + (v % 256) = v
  <2> DEFINE a == v \div 16777216
             b == (v \div 65536) % 256
             c == (v \div 256) % 256
             d == v % 256
             e == v \div 65536
             f == v \div 256
  <2>1. a \in Int /\ b \in Int /\ c \in Int /\ d \in Int /\ e \in Int /\ f \in Int
    BY ONLY <1>0, SMTT(30)
  <2>2. v = f * 256 + d /\ f = e * 256 + c /\ e = a * 256 + b
    BY <1>2, <1>3, <1>4, SMTT(30)
  <2>3. a * 16777216 + b * 65536 + c * 256 + d = v
    <3> HIDE DEF a, b, c, d, e, f
    <3> QED BY ONLY <2>1, <2>2, SMTT(30)
  <2> QED BY ONLY <2>3, SMTT(30)
<1> QED BY <1>1, <1>5, <1>6, SMTT(30) DEF Byte

(* fatsetfat() on FAT12, where an entry shares a byte with its neighbour:  *)
(* the entry is read back by fatgetfat() and the others are as they were.  *)
THEOREM SetGet12 ==
    ASSUME NEW size \in Nat, NEW t \in Tables(size),
           NEW n, Fits(12, size, n), NEW m, Fits(12, size, m), NEW v \in Value12
    PROVE  /\ Set(12, t, n, v) \in Tables(size)
           /\ Get(12, Set(12, t, n, v), m) = IF m = n THEN v ELSE Get(12, t, m)
<1> DEFINE p == Position(12, n)
           q == Position(12, m)
           lo == t[p]
           hi == t[p + 1]
           low == Low12(n, lo, hi, v)
           high == High12(n, lo, hi, v)
           s == Set(12, t, n, v)
<1>1. /\ p \in 0 .. size - 1 /\ p + 1 \in 0 .. size - 1 /\ n \in Nat
      /\ q \in 0 .. size - 1 /\ q + 1 \in 0 .. size - 1 /\ m \in Nat
  <2>1. p \in Nat /\ q \in Nat /\ n \in Nat /\ m \in Nat
    BY Apart12 DEF Fits
  <2> QED BY <2>1 DEF Fits, Bytes
<1>2. lo \in Byte /\ hi \in Byte /\ t[q] \in Byte /\ t[q + 1] \in Byte
  BY <1>1 DEF Tables
<1>3. s = [t EXCEPT ![p] = low, ![p + 1] = high]
  BY SMTT(30) DEF Set, Set12
<1>4. /\ low \in Byte /\ high \in Byte
      /\ Content12(n, low, high) = v
      /\ n % 2 = 1 => low % 16 = lo % 16
      /\ n % 2 = 0 => high \div 16 = hi \div 16
  <2> HIDE DEF lo, hi
  <2> QED BY <1>1, <1>2, Codec12, SMTT(30)
<1>5. Get(12, t, m) = Content12(m, t[q], t[q + 1])
  BY SMTT(30) DEF Get
<1>6. Get(12, s, m) = Content12(m, s[q], s[q + 1])
  BY SMTT(30) DEF Get
<1> HIDE DEF low, high, s, p, q
<1>7. s \in Tables(size) /\ s[p] = low /\ s[p + 1] = high
  BY <1>1, <1>3, <1>4, SMTT(30) DEF Tables
<1>8. \A i \in 0 .. size - 1 : i # p /\ i # p + 1 => s[i] = t[i]
  BY <1>3, SMTT(30) DEF Tables
<1>9. ASSUME m = n PROVE Get(12, s, m) = v
  BY <1>9, <1>4, <1>6, <1>7 DEF p, q
<1>10. ASSUME m # n PROVE Get(12, s, m) = Get(12, t, m)
  <2>1. \/ p + 1 < q
        \/ q + 1 < p
        \/ p + 1 = q /\ n % 2 = 0 /\ m % 2 = 1
        \/ q + 1 = p /\ m % 2 = 0 /\ n % 2 = 1
    BY <1>1, <1>10, Apart12 DEF p, q
  <2>2. CASE p + 1 < q \/ q + 1 < p
    <3>1. s[q] = t[q] /\ s[q + 1] = t[q + 1]
      BY <1>1, <1>8, <2>2
    <3> QED BY <1>5, <1>6, <1>10, <3>1
  <2>3. CASE p + 1 = q /\ n % 2 = 0 /\ m % 2 = 1
    <3>1. s[q] = high /\ s[q + 1] = t[q + 1]
      BY <1>1, <1>7, <1>8, <2>3
    <3>2. high \div 16 = t[q] \div 16
      BY <1>4, <2>3
    <3>3. Content12(m, high, t[q + 1]) = Content12(m, t[q], t[q + 1])
      BY <1>1, <1>2, <1>4, <2>3, <3>2, Neighbour12
    <3> QED BY <1>5, <1>6, <1>10, <3>1, <3>3
  <2>4. CASE q + 1 = p /\ m % 2 = 0 /\ n % 2 = 1
    <3>1. s[q] = t[q] /\ s[q + 1] = low
      BY <1>1, <1>7, <1>8, <2>4
    <3>2. low % 16 = t[q + 1] % 16
      BY <1>4, <2>4
    <3>3. Content12(m, t[q], low) = Content12(m, t[q], t[q + 1])
      BY <1>1, <1>2, <1>4, <2>4, <3>2, Neighbour12
    <3> QED BY <1>5, <1>6, <1>10, <3>1, <3>3
  <2> QED BY <2>1, <2>2, <2>3, <2>4
<1> QED BY <1>7, <1>9, <1>10 DEF s

LEMMA Places16 ==
    ASSUME NEW size \in Nat, NEW n, Fits(16, size, n)
    PROVE  2 * n \in 0 .. size - 1 /\ 2 * n + 1 \in 0 .. size - 1 /\ n \in Nat
<1>1. n \in Nat /\ Position(16, n) .. Position(16, n) + 1 \subseteq 0 .. size - 1
  BY SMTT(30) DEF Fits, Bytes
<1>2. Position(16, n) = 2 * n
  BY <1>1, Position16, SMTT(30)
<1> DEFINE p == Position(16, n)
<1>3. p \in Nat
  BY <1>1, <1>2, SMTT(30)
<1> HIDE DEF p
<1>4. p \in 0 .. size - 1 /\ p + 1 \in 0 .. size - 1
  <2>1. p .. p + 1 \subseteq 0 .. size - 1
    BY <1>1 DEF p
  <2>2. p \in p .. p + 1 /\ p + 1 \in p .. p + 1
    BY <1>3, SMTT(30)
  <2> QED BY <2>1, <2>2
<1> QED BY <1>1, <1>2, <1>4, SMTT(30) DEF p

(* The same on FAT16, for any two entries of the table.                    *)
THEOREM SetGet16 ==
    ASSUME NEW size \in Nat, NEW t \in Tables(size),
           NEW n, Fits(16, size, n), NEW m, Fits(16, size, m), NEW v \in Value16
    PROVE  /\ Set(16, t, n, v) \in Tables(size)
           /\ Get(16, Set(16, t, n, v), m) = IF m = n THEN v ELSE Get(16, t, m)
<1> DEFINE s == Set(16, t, n, v)
           low == v % 256
           high == v \div 256
<1>1. /\ 2 * n \in 0 .. size - 1 /\ 2 * n + 1 \in 0 .. size - 1 /\ n \in Nat
      /\ 2 * m \in 0 .. size - 1 /\ 2 * m + 1 \in 0 .. size - 1 /\ m \in Nat
  BY Places16, SMTT(30)
<1>2. low \in Byte /\ high \in Byte /\ high * 256 + low = v
  BY Digits16, SMTT(30)
<1>3. s = [t EXCEPT ![2 * n] = low, ![2 * n + 1] = high]
  <2>1. s = Set16(t, 2 * n, v)
    BY <1>1, Position16, SMTT(30) DEF Set
  <2> QED BY ONLY <2>1, SMTT(30) DEF Set16
<1>4. /\ Get(16, s, m) = s[2 * m + 1] * 256 + s[2 * m]
      /\ Get(16, t, m) = t[2 * m + 1] * 256 + t[2 * m]
  <2>1. Get(16, s, m) = Get16(s, 2 * m) /\ Get(16, t, m) = Get16(t, 2 * m)
    BY <1>1, Position16, SMTT(30) DEF Get
  <2> QED BY ONLY <2>1, SMTT(30) DEF Get16
<1> HIDE DEF s, low, high
<1>5. s \in Tables(size)
  BY <1>1, <1>2, <1>3, SMTT(30) DEF Tables
<1>6. n = m => s[2 * m] = low /\ s[2 * m + 1] = high
  BY <1>1, <1>3, SMTT(30) DEF Tables
<1>7. n # m => s[2 * m] = t[2 * m] /\ s[2 * m + 1] = t[2 * m + 1]
  BY <1>1, <1>3, SMTT(30) DEF Tables
<1>8. Get(16, s, m) = IF m = n THEN v ELSE Get(16, t, m)
  BY <1>2, <1>4, <1>6, <1>7, SMTT(30)
<1> QED BY <1>5, <1>8 DEF s

LEMMA Places32 ==
    ASSUME NEW size \in Nat, NEW n, Fits(32, size, n)
    PROVE  /\ 4 * n \in 0 .. size - 1 /\ 4 * n + 1 \in 0 .. size - 1
           /\ 4 * n + 2 \in 0 .. size - 1 /\ 4 * n + 3 \in 0 .. size - 1
           /\ n \in Nat
<1>1. n \in Nat /\ Position(32, n) .. Position(32, n) + 3 \subseteq 0 .. size - 1
  BY SMTT(30) DEF Fits, Bytes
<1>2. Position(32, n) = 4 * n
  BY <1>1, Position32, SMTT(30)
<1>3. \A i \in 4 * n .. 4 * n + 3 : i \in 0 .. size - 1
  BY <1>1, <1>2, SMTT(30)
<1> QED BY <1>1, <1>3, SMTT(30)

(* The same on FAT32, where fatgetfat() drops the four high bits.          *)
THEOREM SetGet32 ==
    ASSUME NEW size \in Nat, NEW t \in Tables(size),
           NEW n, Fits(32, size, n), NEW m, Fits(32, size, m), NEW v \in Value32
    PROVE  /\ Set(32, t, n, v) \in Tables(size)
           /\ Get(32, Set(32, t, n, v), m) = IF m = n THEN v ELSE Get(32, t, m)
<1> DEFINE s == Set(32, t, n, v)
           b0 == v % 256
           b1 == (v \div 256) % 256
           b2 == (v \div 65536) % 256
           b3 == v \div 16777216
<1>1. /\ 4 * n \in 0 .. size - 1 /\ 4 * n + 1 \in 0 .. size - 1
      /\ 4 * n + 2 \in 0 .. size - 1 /\ 4 * n + 3 \in 0 .. size - 1 /\ n \in Nat
  BY Places32, SMTT(30)
<1>2. /\ 4 * m \in 0 .. size - 1 /\ 4 * m + 1 \in 0 .. size - 1
      /\ 4 * m + 2 \in 0 .. size - 1 /\ 4 * m + 3 \in 0 .. size - 1 /\ m \in Nat
  BY Places32, SMTT(30)
<1>3. /\ b0 \in Byte /\ b1 \in Byte /\ b2 \in Byte /\ b3 \in Byte
      /\ (b3 % 16) * 16777216 + b2 * 65536 + b1 * 256 + b0 = v
  BY Digits32, SMTT(30)
<1>4. s = [t EXCEPT ![4 * n] = b0, ![4 * n + 1] = b1,
                    ![4 * n + 2] = b2, ![4 * n + 3] = b3]
  <2>1. s = Set32(t, 4 * n, v)
    BY <1>1, Position32, SMTT(30) DEF Set
  <2> QED BY ONLY <2>1, SMTT(30) DEF Set32
<1>5. /\ Get(32, s, m) = (s[4 * m + 3] % 16) * 16777216 + s[4 * m + 2] * 65536
                            + s[4 * m + 1] * 256 + s[4 * m]
      /\ Get(32, t, m) = (t[4 * m + 3] % 16) * 16777216 + t[4 * m + 2] * 65536
                            + t[4 * m + 1] * 256 + t[4 * m]
  <2>1. Get(32, s, m) = Get32(s, 4 * m) /\ Get(32, t, m) = Get32(t, 4 * m)
    BY <1>2, Position32, SMTT(30) DEF Get
  <2> QED BY ONLY <2>1, SMTT(30) DEF Get32
<1> HIDE DEF s, b0, b1, b2, b3
<1>6. s \in Tables(size)
  BY <1>1, <1>3, <1>4, SMTT(30) DEF Tables
<1>7. n = m => /\ s[4 * m] = b0 /\ s[4 * m + 1] = b1
               /\ s[4 * m + 2] = b2 /\ s[4 * m + 3] = b3
  BY <1>1, <1>4, SMTT(30) DEF Tables
<1>8. n # m => /\ s[4 * m] = t[4 * m] /\ s[4 * m + 1] = t[4 * m + 1]
               /\ s[4 * m + 2] = t[4 * m + 2] /\ s[4 * m + 3] = t[4 * m + 3]
  BY <1>1, <1>2, <1>4, SMTT(30) DEF Tables
<1>9. Get(32, s, m) = IF m = n THEN v ELSE Get(32, t, m)
  BY <1>3, <1>5, <1>7, <1>8, SMTT(30)
<1> QED BY <1>6, <1>9 DEF s

(* fatsetfat() changes the entry it is told to and no other.               *)
THEOREM SetGet ==
    ASSUME NEW b \in Widths, NEW size \in Nat, NEW t \in Tables(size),
           NEW n, Fits(b, size, n), NEW m, Fits(b, size, m),
           NEW v \in Values(b)
    PROVE  /\ Set(b, t, n, v) \in Tables(size)
           /\ Get(b, Set(b, t, n, v), m) =
                 IF m = n THEN v ELSE Get(b, t, m)
<1>1. CASE b = 12
  <2>1. v \in Value12
    BY <1>1, SMTT(30) DEF Values
  <2> QED BY <1>1, <2>1, SetGet12
<1>2. CASE b = 16
  <2>1. v \in Value16
    BY <1>2, SMTT(30) DEF Values
  <2> QED BY <1>2, <2>1, SetGet16
<1>3. CASE b = 32
  <2>1. v \in Value32
    BY <1>3, SMTT(30) DEF Values
  <2> QED BY <1>3, <2>1, SetGet32
<1> QED BY <1>1, <1>2, <1>3 DEF Widths

-----------------------------------------------------------------------------
(* The numbers of FatEntry stay folded: only their order matters here.     *)
LEMMA MarksAre ==
    ASSUME NEW b \in AllBits
    PROVE  /\ Mark(b, 7) \in Nat /\ Mark(b, 8) \in Nat
           /\ Mark(b, 7) < Mark(b, 8)
           /\ Mark(b, 7) \in Values(b) /\ Mark(b, 8) \in Values(b)
           /\ \A v \in Nat : v < Mark(b, 7) => v \in Values(b)
<1>1. b = 12 \/ b = 16 \/ b = 32
  BY TableAssumption, SMTT(30) DEF Widths
<1>2. CASE b = 12
  <2>1. Mark(b, 7) = 4087 /\ Mark(b, 8) = 4088
    BY <1>2 DEF Mark
  <2>2. Values(b) = Value12
    BY <1>2 DEF Values
  <2> QED
    BY <2>1, <2>2, SMTT(30) DEF Value12
<1>3. CASE b = 16
  <2>1. Mark(b, 7) = 65527 /\ Mark(b, 8) = 65528
    BY <1>3 DEF Mark
  <2>2. Values(b) = Value16
    BY <1>3 DEF Values
  <2> QED
    BY <2>1, <2>2, SMTT(30) DEF Value16
<1>4. CASE b = 32
  <2>1. Mark(b, 7) = 268435447 /\ Mark(b, 8) = 268435448
    BY <1>4 DEF Mark
  <2>2. Values(b) = Value32
    BY <1>4 DEF Values
  <2> QED
    BY <2>1, <2>2, SMTT(30) DEF Value32
<1> QED BY <1>1, <1>2, <1>3, <1>4

LEMMA Encoded ==
    ASSUME NEW b \in AllBits, NEW next \in NextValues
    PROVE  /\ next = FAT_EOF => Encode(b, next) = Mark(b, 8)
           /\ next = FAT_BAD => Encode(b, next) = Mark(b, 7)
           /\ next \notin {FAT_EOF, FAT_BAD} =>
                 Encode(b, next) = next /\ next \in Nat /\ next <= Last
<1>1. b = 12 \/ b = 16 \/ b = 32
  BY TableAssumption, SMTT(30) DEF Widths
<1>2. next = FAT_EOF \/ next = FAT_BAD
         \/ (next \notin {FAT_EOF, FAT_BAD} /\ next \in Nat /\ next <= Last)
  BY TableAssumption, SMTT(30) DEF NextValues, FAT_EOF, FAT_BAD, FAT_UNUSED, FAT_FIRST
<1>3. Last < Mark(b, 7)
  BY TableAssumption
<1>4. Last \in Nat
  BY TableAssumption
<1>5. CASE b = 12
  <2>1. Last < 4096
    BY <1>3, <1>4, <1>5, SMTT(30) DEF Mark
  <2>2. \A v \in Nat : v <= Last => v % 4096 = v
    BY <2>1, <1>4, SMTT(30)
  <2> QED BY <1>2, <1>5, <2>2, SMTT(30) DEF Encode, Masked, Mark, FAT_EOF, FAT_BAD
<1>6. CASE b = 16
  <2>1. Last < 65536
    BY <1>3, <1>4, <1>6, SMTT(30) DEF Mark
  <2>2. \A v \in Nat : v <= Last => v % 65536 = v
    BY <2>1, <1>4, SMTT(30)
  <2> QED BY <1>2, <1>6, <2>2, SMTT(30) DEF Encode, Masked, Mark, FAT_EOF, FAT_BAD
<1>7. CASE b = 32
  BY <1>2, <1>7, SMTT(30) DEF Encode, Masked, Mark, FAT_EOF, FAT_BAD
<1> QED BY <1>1, <1>5, <1>6, <1>7

LEMMA EncodeType ==
    ASSUME NEW b \in AllBits, NEW next \in NextValues
    PROVE  Encode(b, next) \in Values(b)
<1>1. Last \in Nat /\ Last < Mark(b, 7)
  BY TableAssumption
<1>2. CASE next = FAT_EOF
  BY <1>2, Encoded, MarksAre
<1>3. CASE next = FAT_BAD
  BY <1>3, Encoded, MarksAre
<1>4. CASE next \notin {FAT_EOF, FAT_BAD}
  <2>1. Encode(b, next) = next /\ next \in Nat /\ next <= Last
    BY <1>4, Encoded
  <2>2. Mark(b, 7) \in Nat
    BY MarksAre
  <2>3. next < Mark(b, 7)
    BY <1>1, <2>1, <2>2, SMTT(30)
  <2> QED BY <2>1, <2>3, MarksAre
<1> QED BY <1>2, <1>3, <1>4

-----------------------------------------------------------------------------
(* What fatsetnextcluster() does to the entries of the copies.             *)
Stores(k, n) == k \in Selected /\ FirstSector(k, n) \notin unreadable

LEMMA StoreEntries ==
    ASSUME TypeOK, NEW n \in Clusters, NEW next \in NextValues
    PROVE  /\ SetFats(n, next) \in [Copies -> Tables(FatBytes(bits))]
           /\ \A k \in Copies, m \in 0 .. Last :
                 Get(bits, SetFats(n, next)[k], m) =
                    IF Stores(k, n) /\ m = n THEN Encode(bits, next)
                    ELSE Get(bits, mem[k], m)
<1> DEFINE size == FatBytes(bits)
           e == Encode(bits, next)
<1>1. bits \in AllBits /\ bits \in Widths
  BY TableAssumption DEF TypeOK
<1>2. size \in Nat
  <2>1. FatSize[bits] \in Nat /\ BytesPerSector \in Nat
    BY <1>1, TableAssumption
  <2> QED BY <2>1, SMTT(30) DEF FatBytes
<1>3. e \in Values(bits)
  BY <1>1, EncodeType
<1>4. \A m \in 0 .. Last : Fits(bits, size, m)
  BY <1>1, TableAssumption
<1>5. n \in 0 .. Last
  BY TableAssumption, SMTT(30) DEF Clusters, FAT_FIRST
<1>6. \A k \in Copies : mem[k] \in Tables(size)
  BY DEF TypeOK
<1> HIDE DEF size, e
<1>7. \A k \in Copies, m \in 0 .. Last :
         /\ Set(bits, mem[k], n, e) \in Tables(size)
         /\ Get(bits, Set(bits, mem[k], n, e), m) =
               IF m = n THEN e ELSE Get(bits, mem[k], m)
  BY <1>1, <1>2, <1>3, <1>4, <1>5, <1>6, SetGet
<1>8. \A k \in Copies : SetFats(n, next)[k] =
         IF Stores(k, n) THEN Set(bits, mem[k], n, e) ELSE mem[k]
  BY DEF SetFats, Stores, e
<1>9. SetFats(n, next) \in [Copies -> Tables(size)]
  <2>1. \A k \in Copies : Set(bits, mem[k], n, e) \in Tables(size)
    BY <1>5, <1>7
  <2>2. SetFats(n, next) =
           [k \in Copies |-> IF Stores(k, n) THEN Set(bits, mem[k], n, e)
                             ELSE mem[k]]
    BY DEF SetFats, Stores, e
  <2> QED BY <1>6, <2>1, <2>2
<1>10. \A k \in Copies, m \in 0 .. Last :
         Get(bits, SetFats(n, next)[k], m) =
            IF Stores(k, n) /\ m = n THEN e ELSE Get(bits, mem[k], m)
  <2> TAKE k \in Copies, m \in 0 .. Last
  <2>1. CASE Stores(k, n)
    <3>1. SetFats(n, next)[k] = Set(bits, mem[k], n, e)
      BY <2>1, <1>8
    <3> QED BY <2>1, <3>1, <1>7
  <2>2. CASE ~ Stores(k, n)
    BY <2>2, <1>8
  <2> QED BY <2>1, <2>2
<1> QED BY <1>9, <1>10 DEF size, e

-----------------------------------------------------------------------------
(* The entry of a cluster is a number.                                     *)
LEMMA GetType ==
    ASSUME NEW b \in Widths, NEW size \in Nat, NEW t \in Tables(size),
           NEW n, Fits(b, size, n)
    PROVE  Get(b, t, n) \in Nat
<1>0. b = 12 \/ b = 16 \/ b = 32
  BY SMTT(30) DEF Widths
<1>1. CASE b = 12
  <2> DEFINE p == Position(12, n)
  <2>1. n \in Nat /\ p .. p + 1 \subseteq 0 .. size - 1
    BY <1>1, SMTT(30) DEF Fits, Bytes
  <2>2. p \in Nat
    BY <2>1, Apart12
  <2>3. p \in 0 .. size - 1 /\ p + 1 \in 0 .. size - 1
    BY <2>1, <2>2, SMTT(30)
  <2>4. t[p] \in Byte /\ t[p + 1] \in Byte
    BY <2>3 DEF Tables
  <2>5. Content12(n, t[p], t[p + 1]) \in Nat
    <3>1. ASSUME NEW lo \in Byte, NEW hi \in Byte
          PROVE  Content12(n, lo, hi) \in Nat
      BY <2>1, <3>1, SMTT(30) DEF Content12, Byte
    <3> QED BY <2>4, <3>1
  <2> QED BY <1>1, <2>5, SMTT(30) DEF Get
<1>2. CASE b = 16
  <2> DEFINE p == 2 * n
  <2>1. p \in 0 .. size - 1 /\ p + 1 \in 0 .. size - 1 /\ n \in Nat
    BY <1>2, Places16
  <2>2. t[p] \in Byte /\ t[p + 1] \in Byte
    BY <2>1 DEF Tables
  <2>3. Get16(t, p) \in Nat
    <3>1. ASSUME NEW lo \in Byte, NEW hi \in Byte
          PROVE  hi * 256 + lo \in Nat
      BY <3>1, SMTT(30) DEF Byte
    <3> HIDE DEF p
    <3> QED BY <2>2, <3>1 DEF Get16
  <2>4. Position(16, n) = p
    BY <2>1, Position16
  <2> QED BY <1>2, <2>3, <2>4, SMTT(30) DEF Get
<1>3. CASE b = 32
  <2> DEFINE p == 4 * n
  <2>1. /\ p \in 0 .. size - 1 /\ p + 1 \in 0 .. size - 1
        /\ p + 2 \in 0 .. size - 1 /\ p + 3 \in 0 .. size - 1 /\ n \in Nat
    BY <1>3, Places32
  <2>2. /\ t[p] \in Byte /\ t[p + 1] \in Byte
        /\ t[p + 2] \in Byte /\ t[p + 3] \in Byte
    BY <2>1 DEF Tables
  <2>3. Get32(t, p) \in Nat
    <3>1. ASSUME NEW w \in Byte, NEW x \in Byte, NEW y \in Byte, NEW z \in Byte
          PROVE  (z % 16) * 16777216 + y * 65536 + x * 256 + w \in Nat
      BY ONLY <3>1, SMTT(30) DEF Byte
    <3> HIDE DEF p
    <3> QED BY <2>2, <3>1, SMTT(30) DEF Get32
  <2>4. Position(32, n) = p
    BY <2>1, Position32
  <2> QED BY <1>3, <2>3, <2>4, SMTT(30) DEF Get
<1> QED BY <1>0, <1>1, <1>2, <1>3

LEMMA LeastCopy ==
    ASSUME NEW S \in SUBSET Nat, S # {}
    PROVE  \E k \in S : \A j \in S : k <= j
<1>1. PICK k \in S : \A j \in S : <<j, k>> \notin OpToRel(<, Nat)
  BY NatLessThanWellFounded, WFMin
<1>2. ASSUME NEW j \in S
      PROVE  k <= j
  <2>1. ~ (j < k)
    BY <1>1 DEF OpToRel
  <2> QED BY <2>1, SMTT(30)
<1> QED BY <1>2

-----------------------------------------------------------------------------
(* fatgetnextcluster() reads one copy, whatever is in it, and decodes what *)
(* it finds.                                                               *)
Good(n) == {k \in Selected : CanRead(k, n)}
FirstGood(n) == CHOOSE k \in Good(n) : \A j \in Good(n) : k <= j
Decoded(b, e) == IF IsBad(b, e) THEN FAT_BAD
                 ELSE IF IsEof(b, e) THEN FAT_EOF
                 ELSE IF e > Last THEN FAT_ERR ELSE e

LEMMA NextIs ==
    \A t, n : GetNextCluster(t, n) =
                 IF Good(n) = {} THEN FAT_ERR
                 ELSE Decoded(bits, Get(bits, t[FirstGood(n)], n))
BY DEF GetNextCluster, Good, FirstGood, Decoded

LEMMA FirstIsGood ==
    ASSUME TypeOK, NEW n, Good(n) # {}
    PROVE  FirstGood(n) \in Good(n) /\ FirstGood(n) \in Copies
              /\ Stores(FirstGood(n), n)
<1>1. Selected \subseteq Copies
  <2>1. nfat \in Copies \cup {FAT_ALL}
    BY DEF TypeOK
  <2> QED BY <2>1 DEF Selected
<1>2. Copies \subseteq Nat
  BY TableAssumption, SMTT(30) DEF Copies
<1>3. Good(n) \in SUBSET Nat
  BY <1>1, <1>2 DEF Good
<1>4. \E k \in Good(n) : \A j \in Good(n) : k <= j
  BY <1>3, LeastCopy
<1>5. FirstGood(n) \in Good(n)
  BY <1>4 DEF FirstGood
<1> QED BY <1>1, <1>5 DEF Good, CanRead, Stores

LEMMA DecodedEncode ==
    ASSUME NEW b \in AllBits, NEW next \in NextValues
    PROVE  Decoded(b, Encode(b, next)) = next
<1> DEFINE bad == Mark(b, 7)
           eof == Mark(b, 8)
           e == Encode(b, next)
<1>1. bad \in Nat /\ eof \in Nat /\ bad < eof
  BY MarksAre
<1>2. Last \in Nat /\ Last < bad
  BY TableAssumption
<1>3. Decoded(b, e) = IF e = bad THEN FAT_BAD ELSE IF e >= eof THEN FAT_EOF
                      ELSE IF e > Last THEN FAT_ERR ELSE e
  BY DEF Decoded, IsBad, IsEof
<1>4. /\ next = FAT_EOF => e = eof
      /\ next = FAT_BAD => e = bad
      /\ next \notin {FAT_EOF, FAT_BAD} => e = next /\ next \in Nat /\ next <= Last
  BY Encoded
<1> HIDE DEF bad, eof, e
<1>5. Decoded(b, e) = next
  BY <1>1, <1>2, <1>3, <1>4, SMTT(30)
<1> QED BY <1>5 DEF e

(* What a cluster is followed by once fatsetnextcluster() ran.             *)
LEMMA StoreNexts ==
    ASSUME TypeOK, NEW n \in Clusters, NEW next \in NextValues, NEW m \in Clusters
    PROVE  GetNextCluster(SetFats(n, next), m) =
              IF m = n /\ Good(n) # {} THEN next ELSE GetNextCluster(mem, m)
<1>1. bits \in AllBits
  BY DEF TypeOK
<1>2. m \in 0 .. Last
  BY TableAssumption, SMTT(30) DEF Clusters, FAT_FIRST
<1>3. CASE Good(m) = {}
  <2>1. GetNextCluster(SetFats(n, next), m) = FAT_ERR
           /\ GetNextCluster(mem, m) = FAT_ERR
    BY <1>3, NextIs
  <2> QED BY <1>3, <2>1
<1>4. CASE Good(m) # {}
  <2> DEFINE k == FirstGood(m)
  <2>1. k \in Copies /\ Stores(k, m)
    BY <1>4, FirstIsGood
  <2>2. Get(bits, SetFats(n, next)[k], m) =
           IF Stores(k, n) /\ m = n THEN Encode(bits, next)
           ELSE Get(bits, mem[k], m)
    BY <1>2, <2>1, StoreEntries
  <2>3. GetNextCluster(SetFats(n, next), m) =
           Decoded(bits, Get(bits, SetFats(n, next)[k], m))
    BY <1>4, NextIs
  <2>4. GetNextCluster(mem, m) = Decoded(bits, Get(bits, mem[k], m))
    BY <1>4, NextIs
  <2> HIDE DEF k
  <2>5. CASE m = n
    BY <1>1, <1>4, <2>1, <2>2, <2>3, <2>5, DecodedEncode
  <2>6. CASE m # n
    BY <2>2, <2>3, <2>4, <2>6
  <2> QED BY <2>5, <2>6
<1> QED BY <1>3, <1>4

LEMMA NextType ==
    ASSUME TypeOK, NEW t \in [Copies -> Tables(FatBytes(bits))], NEW n \in Clusters
    PROVE  AtOrAfter(GetNextCluster(t, n)) \in Clusters \cup {0}
<1>1. bits \in AllBits /\ bits \in Widths
  BY TableAssumption DEF TypeOK
<1>2. CASE Good(n) = {}
  <2>1. GetNextCluster(t, n) = FAT_ERR
    BY <1>2, NextIs
  <2> QED BY <2>1, SMTT(30) DEF AtOrAfter, FAT_ERR, FAT_FIRST
<1>3. CASE Good(n) # {}
  <2> DEFINE k == FirstGood(n)
             e == Get(bits, t[k], n)
  <2>1. k \in Copies
    BY <1>3, FirstIsGood
  <2>2. t[k] \in Tables(FatBytes(bits))
    BY <2>1
  <2>3. n \in 0 .. Last
    BY TableAssumption, SMTT(30) DEF Clusters, FAT_FIRST
  <2>4. Fits(bits, FatBytes(bits), n)
    BY <1>1, <2>3, TableAssumption
  <2>5. FatBytes(bits) \in Nat
    <3>1. FatSize[bits] \in Nat /\ BytesPerSector \in Nat
      BY <1>1, TableAssumption
    <3> QED BY <3>1, SMTT(30) DEF FatBytes
  <2>6. e \in Nat
    BY <1>1, <2>2, <2>4, <2>5, GetType
  <2>7. GetNextCluster(t, n) = Decoded(bits, e)
    BY <1>3, NextIs
  <2> HIDE DEF e
  <2>8. Decoded(bits, e) \in {FAT_BAD, FAT_EOF, FAT_ERR}
           \/ (Decoded(bits, e) = e /\ ~ (e > Last))
    BY DEF Decoded
  <2>9. Last \in Nat
    BY TableAssumption
  <2> QED BY <2>6, <2>7, <2>8, <2>9, SMTT(30)
          DEF AtOrAfter, FAT_ERR, FAT_BAD, FAT_EOF, FAT_FIRST, Clusters
<1> QED BY <1>2, <1>3

-----------------------------------------------------------------------------
(* The bytes that fatsetfat() leaves alone.                                *)
LEMMA SetOutside ==
    ASSUME NEW b \in Widths, NEW size \in Nat, NEW t \in Tables(size),
           NEW n, Fits(b, size, n), NEW v,
           NEW i \in 0 .. size - 1, i \notin Bytes(b, n)
    PROVE  Set(b, t, n, v)[i] = t[i]
<1> DEFINE p == Position(b, n)
<1>1. b = 12 \/ b = 16 \/ b = 32
  BY SMTT(30) DEF Widths
<1>2. n \in Nat
  BY DEF Fits
<1>3. p \in Int
  <2>1. Position(12, n) \in Int
    BY <1>2, Apart12
  <2>2. Position(16, n) \in Int
    BY <1>2, Position16, SMTT(30)
  <2>3. Position(32, n) \in Int
    BY <1>2, Position32, SMTT(30)
  <2> QED BY <1>1, <2>1, <2>2, <2>3
<1>7. i \in DOMAIN t /\ i \in Int
  BY SMTT(30) DEF Tables
<1>4. CASE b = 12
  <2>1. i # p /\ i # p + 1
    BY <1>3, <1>4, <1>7, SMTT(30) DEF Bytes
  <2>2. Set(b, t, n, v) = Set12(t, p, n, v)
    BY <1>4, SMTT(30) DEF Set
  <2> HIDE DEF p
  <2> QED BY <1>7, <2>1, <2>2 DEF Set12, Tables
<1>5. CASE b = 16
  <2>1. i # p /\ i # p + 1
    BY <1>3, <1>5, <1>7, SMTT(30) DEF Bytes
  <2>2. Set(b, t, n, v) = Set16(t, p, v)
    BY <1>5, SMTT(30) DEF Set
  <2> HIDE DEF p
  <2> QED BY <1>7, <2>1, <2>2 DEF Set16, Tables
<1>6. CASE b = 32
  <2>1. i # p /\ i # p + 1 /\ i # p + 2 /\ i # p + 3
    BY <1>3, <1>6, <1>7, SMTT(30) DEF Bytes
  <2>2. Set(b, t, n, v) = Set32(t, p, v)
    BY <1>6, SMTT(30) DEF Set
  <2> HIDE DEF p
  <2> QED BY <1>7, <2>1, <2>2 DEF Set32, Tables
<1> QED BY <1>1, <1>4, <1>5, <1>6

LEMMA Sizes ==
    ASSUME TypeOK
    PROVE  /\ bits \in AllBits /\ bits \in Widths
           /\ FatBytes(bits) \in Nat
           /\ Copies \subseteq Nat
           /\ \A n \in Clusters : n \in 0 .. Last /\ Fits(bits, FatBytes(bits), n)
<1>1. bits \in AllBits /\ bits \in Widths
  BY TableAssumption DEF TypeOK
<1>2. FatBytes(bits) \in Nat
  <2>1. FatSize[bits] \in Nat /\ BytesPerSector \in Nat
    BY <1>1, TableAssumption
  <2> QED BY <2>1, SMTT(30) DEF FatBytes
<1>3. \A n \in Clusters : n \in 0 .. Last
  BY TableAssumption, SMTT(30) DEF Clusters, FAT_FIRST
<1>4. \A n \in 0 .. Last : Fits(bits, FatBytes(bits), n)
  BY <1>1, TableAssumption
<1>5. Copies \subseteq Nat
  BY TableAssumption, SMTT(30) DEF Copies
<1> QED BY <1>1, <1>2, <1>3, <1>4, <1>5

LEMMA SectorIs ==
    ASSUME TypeOK, NEW i \in 0 .. FatBytes(bits) - 1
    PROVE  SectorOf(i) \in 0 .. FatSize[bits] - 1
<1> DEFINE size == FatSize[bits]
           bps == BytesPerSector
<1>1. size \in Nat \ {0} /\ bps \in Nat \ {0}
  BY Sizes, TableAssumption
<1>2. i \in 0 .. size * bps - 1
  BY DEF FatBytes
<1> HIDE DEF size, bps
<1>3. i \div bps \in 0 .. size - 1
  <2> DEFINE q == i \div bps
  <2>1. i \in Nat /\ bps \in Nat /\ bps > 0 /\ size \in Nat
    BY <1>1, <1>2, SMTT(30)
  <2>2. q \in Int /\ (bps * q) <= i /\ i < (bps * q) + bps
    BY ONLY <2>1, SMTT(30)
  <2>3. i < size * bps
    BY <1>1, <1>2, SMTT(30)
  <2> HIDE DEF q
  <2>4. ~ (q < 0)
    <3> SUFFICES ASSUME q < 0
                 PROVE  FALSE
      OBVIOUS
    <3>1. bps * (q + 1) <= 0
      BY <2>1, <2>2, SMTT(30)
    <3> QED BY <2>1, <2>2, <3>1, SMTT(30)
  <2>5. ~ (q >= size)
    <3> SUFFICES ASSUME q >= size
                 PROVE  FALSE
      OBVIOUS
    <3>1. bps * q >= bps * size
      BY <2>1, <2>2, SMTT(30)
    <3> QED BY <2>1, <2>2, <2>3, <3>1, SMTT(30)
  <2>6. q \in 0 .. size - 1
    BY <2>1, <2>2, <2>4, <2>5, SMTT(30)
  <2> QED BY <2>6 DEF q
<1> QED BY <1>3 DEF SectorOf, size, bps

-----------------------------------------------------------------------------
(* The variables stay in their types: the bytes of the copies are bytes    *)
(* after any change, the dirty sectors are sectors of the table and the    *)
(* chain being freed never leaves the clusters (fatclusterfreechain()).    *)
LEMMA InitType == Init => TypeOK
<1> SUFFICES ASSUME Init
             PROVE  TypeOK
  OBVIOUS
<1>1. bits \in AllBits
  BY DEF Init
<1>2. disk \in [Copies -> Tables(FatBytes(bits))]
  BY <1>1, TableAssumption DEF Init
<1>3. mem \in [Copies -> Tables(FatBytes(bits))]
  BY <1>2 DEF Init
<1>4. saved \in Int /\ free \in Int /\ changes \in Nat
  BY TableAssumption, SMTT(30) DEF Init
<1> QED BY <1>1, <1>2, <1>3, <1>4 DEF Init, TypeOK

LEMMA StoreType ==
    ASSUME TypeOK, NEW n \in Clusters, NEW next \in NextValues
    PROVE  /\ SetFats(n, next) \in [Copies -> Tables(FatBytes(bits))]
           /\ Dirtied(n) \subseteq Sectors(bits)
           /\ Count(n, next) \in Int
<1>1. Count(n, next) \in Int
  BY SMTT(30) DEF TypeOK, Count
<1>2. Dirtied(n) \subseteq Sectors(bits)
  <2>1. Selected \subseteq Copies
    BY DEF TypeOK, Selected
  <2>2. Position(bits, n) \in Bytes(bits, n)
    <3>1. Position(bits, n) \in Int
      <4>1. n \in Nat
        BY Sizes DEF Fits
      <4>2. bits = 12 \/ bits = 16 \/ bits = 32
        BY Sizes, SMTT(30) DEF Widths
      <4>3. Position(12, n) \in Int
        BY <4>1, Apart12
      <4>4. Position(16, n) \in Int
        BY <4>1, Position16, SMTT(30)
      <4>5. Position(32, n) \in Int
        BY <4>1, Position32, SMTT(30)
      <4> QED BY <4>2, <4>3, <4>4, <4>5
    <3> QED BY <3>1, SMTT(30) DEF Bytes
  <2>3. Position(bits, n) \in 0 .. FatBytes(bits) - 1
    BY <2>2, Sizes DEF Fits
  <2>4. \A k \in Selected : FirstSector(k, n) \in Sectors(bits)
    BY <2>1, <2>3, SectorIs DEF FirstSector, Sectors
  <2> QED BY <2>4 DEF Dirtied, TypeOK
<1> QED BY <1>1, <1>2, StoreEntries

LEMMA WrittenType ==
    ASSUME TypeOK, NEW written
    PROVE  WrittenTo(written) \in [Copies -> Tables(FatBytes(bits))]
<1>1. \A k \in Copies, i \in 0 .. FatBytes(bits) - 1 :
         mem[k][i] \in Byte /\ disk[k][i] \in Byte
  BY DEF TypeOK, Tables
<1> QED BY <1>1 DEF WrittenTo, Tables

LEMMA FinitelyMany == IsFiniteSet(Clusters)
<1>1. Last \in Int /\ FAT_FIRST \in Int
  BY TableAssumption, SMTT(30) DEF FAT_FIRST
<1> QED BY <1>1, FS_Interval DEF Clusters

LEMMA Unused == FAT_UNUSED \in NextValues
BY DEF NextValues

LEMMA NextTypeOK == TypeOK /\ [Next]_vars => TypeOK'
<1> SUFFICES ASSUME TypeOK, [Next]_vars
             PROVE  TypeOK'
  OBVIOUS
<1>1. ASSUME NEW n \in Clusters, NEW next \in Nexts, SetNextCluster(n, next)
      PROVE  TypeOK'
  <2>0. next \in NextValues
    BY TableAssumption
  <2>1. mem' \in [Copies -> Tables(FatBytes(bits))]
           /\ dirty' \subseteq Sectors(bits) /\ free' \in Int
    BY <1>1, <2>0, StoreType DEF SetNextCluster, Store
  <2>2. changes' \in Nat
    BY <1>1, SMTT(30) DEF SetNextCluster, Step, TypeOK
  <2> QED BY <1>1, <2>1, <2>2 DEF SetNextCluster, TypeOK, Sectors
<1>2. ASSUME NEW n \in Clusters, FreeChain(n)
      PROVE  TypeOK'
  <2>1. changes' \in Nat
    BY <1>2, SMTT(30) DEF FreeChain, Step, TypeOK
  <2> QED BY <1>2, <2>1 DEF FreeChain, TypeOK, Sectors
<1>3. CASE FreeCluster
  <2>1. current \in Clusters
    BY <1>3 DEF FreeCluster, TypeOK
  <2>2. mem' \in [Copies -> Tables(FatBytes(bits))]
           /\ dirty' \subseteq Sectors(bits) /\ free' \in Int
    BY <1>3, <2>1, Unused, StoreType DEF FreeCluster, Store
  <2>3. current' \in Clusters \cup {0}
    BY <1>3, <2>1, NextType DEF FreeCluster, TypeOK
  <2> QED BY <1>3, <2>2, <2>3 DEF FreeCluster, TypeOK, Sectors
<1>4. CASE CountFree
  <2>1. IsFiniteSet(FreeClusters(mem))
    <3>1. IsFiniteSet(Clusters)
      BY FinitelyMany
    <3> QED BY <3>1, FS_Subset DEF FreeClusters
  <2>2. NumFree(mem) \in Int
    BY <2>1, FS_CardinalityType, SMTT(30) DEF NumFree
  <2> QED BY <1>4, <2>2 DEF CountFree, TypeOK, Sectors, loop
<1>5. ASSUME NEW written \in SUBSET dirty, Flush(written)
      PROVE  TypeOK'
  <2>1. disk' \in [Copies -> Tables(FatBytes(bits))]
    BY <1>5, WrittenType DEF Flush
  <2> QED BY <1>5, <2>1 DEF Flush, TypeOK, Sectors, loop
<1>6. ASSUME NEW k \in Copies \cup {FAT_ALL}, NEW broken, Open(k, broken)
      PROVE  TypeOK'
  <2>1. Counter(bits, saved) \in Int
    BY SMTT(30) DEF Counter, TypeOK
  <2> QED BY <1>6, <2>1 DEF Open, TypeOK, Sectors, loop
<1>7. ASSUME Quit, disk' \in [Copies -> Tables(FatBytes(bits))], saved' \in Int
      PROVE  TypeOK'
  <2>1. -1 \in Int
    BY SMTT(30)
  <2> QED BY <1>7, <2>1 DEF Quit, TypeOK
<1>8. CASE Crash
  BY <1>7, <1>8 DEF Crash, TypeOK
<1>9. ASSUME NEW written \in SUBSET dirty, NEW info \in BOOLEAN,
             Close(written, info)
      PROVE  TypeOK'
  <2>1. disk' \in [Copies -> Tables(FatBytes(bits))] /\ saved' \in Int
    BY <1>9, WrittenType DEF Close, TypeOK
  <2> QED BY <1>7, <1>9, <2>1 DEF Close
<1>10. CASE UNCHANGED vars
  BY <1>10 DEF vars, loop, TypeOK, Sectors
<1> QED BY <1>1, <1>2, <1>3, <1>4, <1>5, <1>6, <1>8, <1>9, <1>10 DEF Next

(* The bytes of every copy stay bytes whatever is set in them, and the      *)
(* variables keep their types, for any number of copies and clusters.      *)
THEOREM TableTypes == Spec => []TypeOK
<1> QED BY InitType, NextTypeOK, PTL DEF Spec

-----------------------------------------------------------------------------
(* On FAT16 and FAT32 a byte of a copy that differs from the device is in  *)
(* a sector that fatflush() will write: fatsetfat() marks the only sector  *)
(* its entry is in.                                                        *)
LEMMA StoreDirty ==
    ASSUME TypeOK, NEW n \in Clusters, NEW next \in NextValues,
           bits # 12, ChangedIsDirty, NEW k \in Copies,
           NEW i \in 0 .. FatBytes(bits) - 1,
           <<k, SectorOf(i)>> \notin Dirtied(n)
    PROVE  SetFats(n, next)[k][i] = disk[k][i]
<1>1. <<k, SectorOf(i)>> \notin dirty
  BY DEF Dirtied
<1>2. mem[k][i] = disk[k][i]
  BY <1>1 DEF ChangedIsDirty
<1>3. CASE ~ Stores(k, n)
  BY <1>2, <1>3 DEF SetFats, Stores
<1>4. CASE Stores(k, n)
  <2>1. FirstSector(k, n) \in Dirtied(n)
    BY <1>4 DEF Stores, Dirtied
  <2>2. SectorOf(i) # SectorOf(Position(bits, n))
    BY <2>1 DEF FirstSector
  <2>3. \A j \in Bytes(bits, n) : SectorOf(j) = SectorOf(Position(bits, n))
    BY Sizes, TableAssumption
  <2>4. i \notin Bytes(bits, n)
    BY <2>2, <2>3
  <2>5. mem[k] \in Tables(FatBytes(bits))
    BY DEF TypeOK
  <2>6. Set(bits, mem[k], n, Encode(bits, next))[i] = mem[k][i]
    BY <2>4, <2>5, Sizes, SetOutside
  <2> QED BY <1>2, <1>4, <2>6 DEF SetFats, Stores
<1> QED BY <1>3, <1>4

LEMMA NextDirty == TypeOK /\ ChangedIsDirtyWide /\ [Next]_vars => ChangedIsDirtyWide'
<1> SUFFICES ASSUME TypeOK, ChangedIsDirtyWide, [Next]_vars, (bits # 12)'
             PROVE  ChangedIsDirty'
  BY DEF ChangedIsDirtyWide
<1>0. bits # 12 /\ bits' = bits
  BY DEF Next, vars, SetNextCluster, FreeChain, FreeCluster, CountFree, Flush,
         Open, Crash, Close, Quit
<1>a. ChangedIsDirty
  BY <1>0 DEF ChangedIsDirtyWide
<1>b. ASSUME NEW n \in Clusters, NEW next \in NextValues, Store(n, next),
             UNCHANGED disk
      PROVE  ChangedIsDirty'
  BY <1>0, <1>a, <1>b, StoreDirty DEF Store, ChangedIsDirty
<1>c. ASSUME mem' = mem, disk' = disk, dirty' = dirty
      PROVE  ChangedIsDirty'
  BY <1>0, <1>a, <1>c DEF ChangedIsDirty
<1>d. ASSUME Quit
      PROVE  ChangedIsDirty'
  BY <1>d DEF Quit, ChangedIsDirty
<1>1. ASSUME NEW n \in Clusters, NEW next \in Nexts, SetNextCluster(n, next)
      PROVE  ChangedIsDirty'
  <2>1. next \in NextValues
    BY TableAssumption
  <2> QED BY <1>1, <1>b, <2>1 DEF SetNextCluster
<1>2. ASSUME NEW n \in Clusters, FreeChain(n)
      PROVE  ChangedIsDirty'
  BY <1>2, <1>c DEF FreeChain
<1>3. CASE FreeCluster
  <2>1. current \in Clusters
    BY <1>3 DEF FreeCluster, TypeOK
  <2> QED BY <1>3, <1>b, <2>1, Unused DEF FreeCluster
<1>4. CASE CountFree
  BY <1>4, <1>c DEF CountFree
<1>5. ASSUME NEW written \in SUBSET dirty, Flush(written)
      PROVE  ChangedIsDirty'
  <2> SUFFICES ASSUME NEW k \in Copies, NEW i \in 0 .. FatBytes(bits) - 1,
                      <<k, SectorOf(i)>> \notin dirty'
               PROVE  mem'[k][i] = disk'[k][i]
    BY <1>0 DEF ChangedIsDirty
  <2>1. disk'[k][i] = IF <<k, SectorOf(i)>> \in written THEN mem[k][i]
                      ELSE disk[k][i]
    BY <1>5 DEF Flush, WrittenTo
  <2>2. <<k, SectorOf(i)>> \in written \/ <<k, SectorOf(i)>> \notin dirty
    BY <1>5 DEF Flush
  <2> QED BY <1>5, <1>a, <2>1, <2>2 DEF Flush, ChangedIsDirty
<1>6. ASSUME NEW k \in Copies \cup {FAT_ALL}, NEW broken, Open(k, broken)
      PROVE  ChangedIsDirty'
  BY <1>6, <1>c DEF Open
<1>7. CASE Crash
  BY <1>7, <1>d DEF Crash
<1>8. ASSUME NEW written \in SUBSET dirty, NEW info \in BOOLEAN,
             Close(written, info)
      PROVE  ChangedIsDirty'
  BY <1>8, <1>d DEF Close
<1>9. CASE UNCHANGED vars
  BY <1>9, <1>c DEF vars
<1> QED BY <1>1, <1>2, <1>3, <1>4, <1>5, <1>6, <1>7, <1>8, <1>9 DEF Next

(* On FAT16 and FAT32 what fatsetfat() changes and fatflush() has not yet  *)
(* written is in a sector marked as dirty, in any sequence of operations.  *)
THEOREM ChangesAreDirty == Spec => []ChangedIsDirtyWide
<1>1. Init => ChangedIsDirtyWide
  BY DEF Init, ChangedIsDirtyWide, ChangedIsDirty
<1> QED BY <1>1, InitType, NextTypeOK, NextDirty, PTL DEF Spec

-----------------------------------------------------------------------------
(* Copies that agree on every cluster still do after a step of a session   *)
(* that uses all copies and reads all sectors: the loop of                 *)
(* fatsetnextcluster() writes every copy.                                  *)
THEOREM CopiesAgree == Spec => CopiesStayAgreed
<1>1. ASSUME TypeOK, [Next]_vars, SameSession, nfat = FAT_ALL,
             unreadable = {}, Agree(mem)
      PROVE  Agree(mem')
  <2>1. ASSUME NEW n \in Clusters, NEW next \in NextValues, Store(n, next)
        PROVE  Agree(mem')
    <3>1. \A k \in Copies : Stores(k, n)
      BY <1>1 DEF Stores, Selected
    <3>2. \A k \in Copies, m \in Clusters :
             Get(bits, mem'[k], m) = IF m = n THEN Encode(bits, next)
                                     ELSE Get(bits, mem[k], m)
      BY <1>1, <2>1, <3>1, Sizes, StoreEntries DEF Store
    <3>3. 0 \in Copies
      BY TableAssumption, SMTT(30) DEF Copies
    <3> QED BY <1>1, <3>2, <3>3 DEF Agree
  <2>2. ASSUME mem' = mem
        PROVE  Agree(mem')
    BY <1>1, <2>2
  <2>3. ASSUME NEW n \in Clusters, NEW next \in Nexts, SetNextCluster(n, next)
        PROVE  Agree(mem')
    <3>1. next \in NextValues
      BY TableAssumption
    <3> QED BY <2>1, <2>3, <3>1 DEF SetNextCluster
  <2>4. CASE FreeCluster
    <3>1. current \in Clusters
      BY <1>1, <2>4 DEF FreeCluster, TypeOK
    <3> QED BY <2>1, <2>4, <3>1, Unused DEF FreeCluster
  <2>5. ~ Quit
    BY <1>1 DEF SameSession, Quit
  <2> QED BY <1>1, <2>2, <2>3, <2>4, <2>5
          DEF Next, vars, FreeChain, CountFree, Flush, Open, Crash, Close
<1> QED BY <1>1, TableTypes, PTL DEF Spec, CopiesStayAgreed

-----------------------------------------------------------------------------
(* fatsetnextcluster() changes one entry: the others are the same in every *)
(* copy, those that share a byte with it included, and it is read back.    *)
THEOREM SetsOnlyThat == Spec => SetOnlyThat
<1>1. ASSUME TypeOK, NEW n \in Clusters, NEW next \in Nexts,
             SetNextCluster(n, next)
      PROVE  /\ \A k \in Copies, m \in 0 .. Last : m # n =>
                   Get(bits, mem'[k], m) = Get(bits, mem[k], m)
             /\ GetNextCluster(mem, n) # FAT_ERR \/ unreadable = {}
                   => GetNextCluster(mem', n) = next
  <2>1. next \in NextValues
    BY TableAssumption
  <2>2. mem' = SetFats(n, next)
    BY <1>1 DEF SetNextCluster, Store
  <2>3. \A k \in Copies, m \in 0 .. Last : m # n =>
           Get(bits, mem'[k], m) = Get(bits, mem[k], m)
    BY <1>1, <2>1, <2>2, StoreEntries
  <2>4. ASSUME GetNextCluster(mem, n) # FAT_ERR \/ unreadable = {}
        PROVE  Good(n) # {}
    <3>1. CASE GetNextCluster(mem, n) # FAT_ERR
      BY <3>1, NextIs
    <3>2. CASE unreadable = {}
      <4>1. Selected # {}
        <5>1. 0 \in Copies
          BY TableAssumption, SMTT(30) DEF Copies
        <5> QED BY <5>1 DEF Selected
      <4> QED BY <3>2, <4>1 DEF Good, CanRead
    <3> QED BY <2>4, <3>1, <3>2
  <2>5. GetNextCluster(mem, n) # FAT_ERR \/ unreadable = {}
           => GetNextCluster(mem', n) = next
    BY <1>1, <2>1, <2>2, <2>4, StoreNexts
  <2> QED BY <2>3, <2>5
<1>2. TypeOK => \A n \in Clusters, next \in Nexts : SetNextCluster(n, next) =>
          /\ \A k \in Copies, m \in 0 .. Last : m # n =>
                Get(bits, mem'[k], m) = Get(bits, mem[k], m)
          /\ GetNextCluster(mem, n) # FAT_ERR \/ unreadable = {}
                => GetNextCluster(mem', n) = next
  BY <1>1
<1> QED BY <1>2, TableTypes, PTL DEF Spec, SetOnlyThat

-----------------------------------------------------------------------------
(* The counter of free clusters moves as the number of free clusters does. *)
LEMMA StoreFrees ==
    ASSUME TypeOK, NEW n \in Clusters, NEW next \in NextValues, Good(n) # {}
    PROVE  FreeClusters(SetFats(n, next)) =
              IF next = FAT_UNUSED THEN FreeClusters(mem) \cup {n}
              ELSE FreeClusters(mem) \ {n}
<1>1. \A m \in Clusters : GetNextCluster(SetFats(n, next), m) =
         IF m = n THEN next ELSE GetNextCluster(mem, m)
  BY StoreNexts
<1> QED BY <1>1 DEF FreeClusters

LEMMA StoreCounts ==
    ASSUME TypeOK, NEW n \in Clusters, NEW next \in NextValues, Good(n) # {},
           nfat = FAT_ALL, free # -1
    PROVE  Count(n, next) - NumFree(SetFats(n, next)) = free - NumFree(mem)
<1> DEFINE before == FreeClusters(mem)
           after == FreeClusters(SetFats(n, next))
<1>1. IsFiniteSet(before) /\ IsFiniteSet(after)
  BY FinitelyMany, FS_Subset DEF FreeClusters
<1>2. Cardinality(before) \in Nat /\ Cardinality(after) \in Nat /\ free \in Int
  BY <1>1, FS_CardinalityType DEF TypeOK
<1>3. after = IF next = FAT_UNUSED THEN before \cup {n} ELSE before \ {n}
  BY StoreFrees
<1>4. n \in before <=> GetNextCluster(mem, n) = FAT_UNUSED
  BY DEF FreeClusters
<1>5. Count(n, next) = IF n \notin before /\ next = FAT_UNUSED THEN free + 1
                       ELSE IF n \in before /\ next # FAT_UNUSED THEN free - 1
                       ELSE free
  BY <1>4 DEF Count
<1> HIDE DEF before, after
<1>6. CASE n \notin before /\ next = FAT_UNUSED
  <2>1. Cardinality(after) = Cardinality(before) + 1
    BY <1>1, <1>3, <1>6, FS_AddElement
  <2>2. Count(n, next) = free + 1
    BY <1>5, <1>6
  <2> QED BY <1>2, <2>1, <2>2, SMTT(30) DEF NumFree, before, after
<1>7. CASE n \in before /\ next # FAT_UNUSED
  <2>1. Cardinality(after) = Cardinality(before) - 1
    BY <1>1, <1>3, <1>7, FS_RemoveElement
  <2>2. Count(n, next) = free - 1
    BY <1>5, <1>7
  <2> QED BY <1>2, <2>1, <2>2, SMTT(30) DEF NumFree, before, after
<1>8. CASE (n \in before <=> next = FAT_UNUSED)
  <2>1. after = before
    BY <1>3, <1>8
  <2>2. Count(n, next) = free
    BY <1>5, <1>8
  <2> QED BY <2>1, <2>2 DEF NumFree, before, after
<1> QED BY <1>6, <1>7, <1>8

(* As long as each cluster can be read in some copy, f->free does not      *)
(* drift: any change of the table in a session moves it as much as the     *)
(* number of free clusters (fatsetnextcluster() and its loop over copies). *)
THEOREM CounterTracks == Spec => FreeTracks
<1>1. ASSUME TypeOK, [Next]_vars, nfat = FAT_ALL, AllReadable, free # -1,
             mem' # mem, SameSession
      PROVE  free' - NumFree(mem)' = free - NumFree(mem)
  <2>1. \A n \in Clusters : Good(n) # {}
    BY <1>1 DEF AllReadable, Good
  <2>2. ASSUME NEW n \in Clusters, NEW next \in NextValues, Store(n, next),
               UNCHANGED <<bits, nfat, unreadable>>
        PROVE  free' - NumFree(mem)' = free - NumFree(mem)
    <3>1. NumFree(mem)' = NumFree(mem')
      BY <2>2 DEF NumFree, FreeClusters, GetNextCluster, Selected, CanRead,
                  FirstSector, NextSector
    <3>2. free' = Count(n, next) /\ mem' = SetFats(n, next)
      BY <2>2 DEF Store
    <3> QED BY <1>1, <2>1, <3>1, <3>2, StoreCounts
  <2>3. ASSUME NEW n \in Clusters, NEW next \in Nexts, SetNextCluster(n, next)
        PROVE  free' - NumFree(mem)' = free - NumFree(mem)
    <3>1. next \in NextValues
      BY TableAssumption
    <3> QED BY <2>2, <2>3, <3>1 DEF SetNextCluster
  <2>4. CASE FreeCluster
    <3>1. current \in Clusters
      BY <1>1, <2>4 DEF FreeCluster, TypeOK
    <3> QED BY <2>2, <2>4, <3>1, Unused DEF FreeCluster
  <2>5. ~ Quit
    BY <1>1 DEF SameSession, Quit
  <2> QED BY <1>1, <2>3, <2>4, <2>5
          DEF Next, vars, FreeChain, CountFree, Flush, Open, Crash, Close
<1> QED BY <1>1, TableTypes, PTL DEF Spec, FreeTracks

-----------------------------------------------------------------------------
(* What fatclusterfreechain() has done when it is at a cluster: it freed   *)
(* clusters that follow from the first and is at one that follows too.     *)
Follow(n) == GetNextCluster(mem, n)
Freed == {n \in Clusters : Follow(n) # was[n]} \cup {begun}
Reached(n) == n # begun => \E m \in Freed : was[m] = n
Passed(n) == /\ Follow(n) = FAT_UNUSED
             /\ was[n] \in Clusters =>
                   Follow(was[n]) = FAT_UNUSED \/ was[n] = current

Chain ==
    begun # 0 =>
       /\ open
       /\ AllReadable =>
             /\ \A n \in Clusters : Follow(n) # was[n] => Passed(n) /\ Reached(n)
             /\ current = begun \/ Passed(begun)
             /\ current # 0 => Reached(current)

(* The step of the loop: the cluster it leaves is free, the one it comes   *)
(* to followed it.                                                         *)
LEMMA StepChain ==
    ASSUME TypeOK, Chain, FreeCluster, begun # 0, AllReadable,
           NEW CONSTANT c, c = current
    PROVE  /\ \A n \in Clusters : (Follow(n) # was[n] => Passed(n) /\ Reached(n))'
           /\ (current = begun \/ Passed(begun))'
           /\ (current # 0 => Reached(current))'
<1>1. c \in Clusters /\ begun \in Clusters
  BY DEF FreeCluster, TypeOK
<1>2. mem' = SetFats(c, FAT_UNUSED) /\ was' = was /\ begun' = begun
         /\ bits' = bits /\ nfat' = nfat /\ unreadable' = unreadable
  BY DEF FreeCluster, Store
<1>3. \A n \in Clusters : Follow(n)' = IF n = c THEN FAT_UNUSED ELSE Follow(n)
  <2> TAKE n \in Clusters
  <2>1. Follow(n)' = GetNextCluster(mem', n)
    BY <1>2 DEF Follow, GetNextCluster, Selected, CanRead, FirstSector, NextSector
  <2>2. Good(c) # {}
    BY <1>1 DEF AllReadable, Good
  <2> QED BY <1>1, <1>2, <2>1, <2>2, Unused, StoreNexts DEF Follow
<1>4. current' = AtOrAfter(Follow(c)) /\ AtOrAfter(Follow(c)) \in Clusters \cup {0}
  BY <1>1, NextType DEF FreeCluster, Follow, TypeOK
<1>5. 0 \notin Clusters /\ \A n \in Clusters : AtOrAfter(n) = n
  BY TableAssumption, SMTT(30) DEF Clusters, FAT_FIRST, AtOrAfter
<1>6. AtOrAfter(FAT_UNUSED) = 0 /\ FAT_UNUSED = 0
  BY SMTT(30) DEF FAT_UNUSED, AtOrAfter, FAT_FIRST
<1>7. /\ \A n \in Clusters : Follow(n) # was[n] => Passed(n) /\ Reached(n)
      /\ c = begun \/ Passed(begun)
      /\ Reached(c)
  BY <1>1, <1>5 DEF Chain
<1>8. Freed \subseteq Freed'
  <2>1. ASSUME NEW n \in Clusters, Follow(n) # was[n]
        PROVE  (Follow(n) # was[n])'
    BY <1>2, <1>3, <1>7, <2>1 DEF Passed
  <2> QED BY <1>2, <2>1 DEF Freed
<1>9. \A n : Reached(n) => Reached(n)'
  BY <1>2, <1>8 DEF Reached
<1>10. Passed(c)'
  <2>1. Follow(c)' = FAT_UNUSED
    BY <1>1, <1>3
  <2>2. ASSUME was[c] \in Clusters
        PROVE  (Follow(was[c]) = FAT_UNUSED \/ was[c] = current)'
    <3>1. CASE Follow(c) = was[c]
      BY <1>2, <1>4, <1>5, <2>2, <3>1
    <3>2. CASE Follow(c) # was[c]
      BY <1>1, <1>2, <1>3, <1>7, <2>2, <3>2 DEF Passed
    <3> QED BY <3>1, <3>2
  <2> QED BY <1>2, <2>1, <2>2 DEF Passed
<1>11. \A n \in Clusters : n # c /\ Passed(n) => Passed(n)'
  <2> TAKE n \in Clusters
  <2> SUFFICES ASSUME n # c, Passed(n)
               PROVE  Passed(n)'
    OBVIOUS
  <2>1. Follow(n)' = FAT_UNUSED
    BY <1>3 DEF Passed
  <2>2. ASSUME was[n] \in Clusters
        PROVE  (Follow(was[n]) = FAT_UNUSED \/ was[n] = current)'
    BY <1>1, <1>2, <1>3, <2>2 DEF Passed
  <2> QED BY <1>2, <2>1, <2>2 DEF Passed
<1>12. ASSUME NEW n \in Clusters, (Follow(n) # was[n])'
       PROVE  Passed(n)' /\ Reached(n)'
  <2>1. CASE n = c
    BY <1>7, <1>9, <1>10, <2>1 
  <2>2. CASE n # c
    BY <1>2, <1>3, <1>7, <1>9, <1>11, <1>12, <2>2
  <2> QED BY <2>1, <2>2
<1>13. (current = begun \/ Passed(begun))'
  BY <1>1, <1>2, <1>7, <1>10, <1>11 DEF Passed
<1>14. ASSUME current' # 0
       PROVE  Reached(current)'
  <2>1. current' \in Clusters
    BY <1>4, <1>14
  <2>2. Follow(c) = was[c]
    BY <1>1, <1>4, <1>6, <1>7, <1>14 DEF Passed
  <2>3. current' = was[c]
    BY <1>4, <1>14, <2>1, <2>2, SMTT(30) DEF AtOrAfter
  <2>4. c \in Freed'
    BY <1>1, <1>2, <1>3, <1>5, <1>6, <2>1, <2>3 DEF Freed
  <2> QED BY <1>2, <2>3, <2>4 DEF Reached
<1> QED BY <1>12, <1>13, <1>14

LEMMA NextChain == TypeOK /\ Chain /\ [Next]_vars => Chain'
<1> SUFFICES ASSUME TypeOK, Chain, [Next]_vars
             PROVE  Chain'
  OBVIOUS
<1>0. ASSUME UNCHANGED <<open, bits, nfat, mem, unreadable, loop>>
      PROVE  Chain'
  <2>1. \A n : Follow(n)' = Follow(n)
    BY <1>0 DEF Follow, GetNextCluster, Selected, CanRead, FirstSector, NextSector
  <2>2. AllReadable' <=> AllReadable
    BY <1>0 DEF AllReadable, Selected, CanRead, FirstSector, NextSector
  <2>3. Freed' = Freed
    BY <1>0, <2>1 DEF Freed, loop
  <2>4. \A n : (Passed(n)' <=> Passed(n)) /\ (Reached(n)' <=> Reached(n))
    BY <1>0, <2>1, <2>3 DEF Passed, Reached, loop
  <2> QED BY <1>0, <2>1, <2>2, <2>4 DEF Chain, loop
<1>1. ASSUME begun' = 0
      PROVE  Chain'
  BY <1>1 DEF Chain
<1>2. ASSUME NEW n \in Clusters, NEW next \in Nexts, SetNextCluster(n, next)
      PROVE  Chain'
  BY <1>1, <1>2 DEF SetNextCluster
<1>3. ASSUME NEW n \in Clusters, FreeChain(n)
      PROVE  Chain'
  <2>1. open' /\ begun' = n /\ current' = n
    BY <1>3 DEF FreeChain, Step, Idle
  <2>2. \A m \in Clusters : Follow(m)' = was'[m]
    BY <1>3 DEF FreeChain, Follow, GetNextCluster, Selected, CanRead, FirstSector,
                NextSector
  <2> QED BY <2>1, <2>2 DEF Chain, Reached
<1>4. CASE FreeCluster
  <2>1. begun' = begun /\ open' = open
    BY <1>4 DEF FreeCluster
  <2>2. AllReadable' <=> AllReadable
    BY <1>4 DEF FreeCluster, AllReadable, Selected, CanRead, FirstSector, NextSector
  <2> QED BY <1>4, <2>1, <2>2, StepChain DEF Chain
<1>5. CASE CountFree
  BY <1>0, <1>5 DEF CountFree
<1>6. ASSUME NEW written \in SUBSET dirty, Flush(written)
      PROVE  Chain'
  BY <1>0, <1>6 DEF Flush
<1>7. ASSUME NEW k \in Copies \cup {FAT_ALL}, NEW broken, Open(k, broken)
      PROVE  Chain'
  BY <1>1, <1>7 DEF Open, Chain, loop
<1>8. ASSUME Quit
      PROVE  Chain'
  BY <1>1, <1>8 DEF Quit
<1>9. CASE UNCHANGED vars
  BY <1>0, <1>9 DEF vars
<1> QED BY <1>2, <1>3, <1>4, <1>5, <1>6, <1>7, <1>8, <1>9 DEF Next, Crash, Close

(* fatclusterfreechain() frees the clusters that follow from the first,    *)
(* all of them and no other, in any table: even if the chain loops, or     *)
(* comes to a cluster that is free or is not one.                          *)
THEOREM ChainIsFreed == Spec => []FreesTheChain
<1>1. Init => Chain
  BY DEF Init, Chain
<1>2. TypeOK /\ Chain => FreesTheChain
  <2> SUFFICES ASSUME TypeOK, Chain, current = 0, begun # 0, AllReadable
               PROVE  \A n \in Freed :
                         /\ Follow(n) = FAT_UNUSED
                         /\ Reached(n)
                         /\ was[n] \in Clusters => Follow(was[n]) = FAT_UNUSED
    BY DEF FreesTheChain, Freed, Reached, Follow
  <2>1. \A n \in Freed : Passed(n) /\ Reached(n)
    BY DEF Chain, Freed, Reached
  <2>2. 0 \notin Clusters
    BY TableAssumption, SMTT(30) DEF Clusters, FAT_FIRST
  <2> QED BY <2>1, <2>2 DEF Passed
<1> QED BY <1>1, <1>2, TableTypes, NextChain, PTL DEF Spec
=============================================================================
