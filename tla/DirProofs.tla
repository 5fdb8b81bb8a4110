----------------------------- MODULE DirProofs ------------------------------
(***************************************************************************)
(* Proofs about DirEntries.                                                *)
(***************************************************************************)
EXTENDS DirEntries, FiniteSetTheorems, SequenceTheorems, WellFoundedInduction, TLAPS

LEMMA LeastNumber ==
    ASSUME NEW S \in SUBSET Nat, S # {}
    PROVE  First(S) \in S /\ \A j \in S : First(S) <= j
<1>1. PICK k \in S : \A j \in S : <<j, k>> \notin OpToRel(<, Nat)
  BY NatLessThanWellFounded, WFMin
<1>2. ASSUME NEW j \in S
      PROVE  k <= j
  <2>1. ~ (j < k)
    BY <1>1 DEF OpToRel
  <2> QED BY <2>1
<1> QED BY <1>2 DEF First

-----------------------------------------------------------------------------
(* Positions, and the cluster and the entry of each.                       *)
LEMMA SlotsAre == Slots \in Nat /\ Slots >= 1
  BY EntriesAssumption

LEMMA Divided ==
    ASSUME NEW p \in Nat
    PROVE  \E q \in Nat, r \in Indices :
              q = p \div Slots /\ r = p % Slots /\ p = q * Slots + r
<1>1. p \div Slots \in Int /\ p \div Slots >= 0
  BY SlotsAre, SMTT(30)
<1>2. p % Slots \in 0 .. Slots - 1
  BY SlotsAre, SMTT(30)
<1>3. PICK q \in Nat, r \in Nat : q = p \div Slots /\ r = p % Slots
  BY <1>1, <1>2, SlotsAre
<1>4. p = q * Slots + r
  BY <1>3, SlotsAre, SMTT(30)
<1>5. r \in Indices
  BY <1>2, <1>3 DEF Indices
<1> QED BY <1>3, <1>4, <1>5

LEMMA Blocks ==
    ASSUME NEW a \in Nat, NEW b \in Nat, a < b
    PROVE  a * Slots + Slots <= b * Slots /\ a * Slots \in Nat /\ b * Slots \in Nat
<1>1. PICK c \in Nat : b = a + 1 + c
  <2>1. b - a - 1 \in Nat /\ b = a + 1 + (b - a - 1)
    OBVIOUS
  <2> QED BY <2>1
<1>2. b * Slots = a * Slots + Slots + c * Slots
  BY <1>1, SlotsAre, SMTT(30)
<1>3. a * Slots \in Nat /\ c * Slots \in Nat
  BY SlotsAre, SMTT(30)
<1> QED BY <1>2, <1>3, SlotsAre

LEMMA OneSpot ==
    ASSUME NEW a \in Nat, NEW b \in Nat, NEW i \in Indices, NEW j \in Indices,
           a * Slots + i = b * Slots + j
    PROVE  a = b /\ i = j
<1>1. a * Slots \in Nat /\ b * Slots \in Nat /\ i \in Nat /\ j \in Nat /\ i < Slots /\ j < Slots
  BY SlotsAre, SMTT(30) DEF Indices
<1>2. ~ (a < b)
  <2>1. ASSUME a < b PROVE FALSE
    <3>1. a * Slots + Slots <= b * Slots
      BY <2>1, Blocks
    <3> QED BY <1>1, <3>1, SlotsAre
  <2> QED BY <2>1
<1>3. ~ (b < a)
  <2>1. ASSUME b < a PROVE FALSE
    <3>1. b * Slots + Slots <= a * Slots
      BY <2>1, Blocks
    <3> QED BY <1>1, <3>1, SlotsAre
  <2> QED BY <2>1
<1>4. a = b
  BY <1>2, <1>3
<1> QED BY <1>1, <1>4

(* The entry i of the cluster a is in the first n clusters.                *)
LEMMA InBlocks ==
    ASSUME NEW p \in Nat, NEW n \in Nat
    PROVE  p \in 0 .. n * Slots - 1 <=> p \div Slots < n
<1>1. PICK a \in Nat, i \in Nat : /\ a = p \div Slots /\ i = p % Slots /\ i < Slots
                                  /\ p = a * Slots + i
  BY Divided, SlotsAre DEF Indices
<1>2. a * Slots \in Nat /\ n * Slots \in Nat
  BY SlotsAre, SMTT(30)
<1>3. CASE a < n
  <2>1. a * Slots + Slots <= n * Slots
    BY <1>3, Blocks
  <2>2. p <= n * Slots - 1
    BY <1>1, <1>2, <2>1, SlotsAre
  <2> QED BY <1>1, <1>2, <1>3, <2>2
<1>4. CASE ~ (a < n)
  <2>1. n * Slots <= a * Slots
    <3>1. CASE a = n
      BY <1>2, <3>1
    <3>2. CASE n < a
      <4>1. n * Slots + Slots <= a * Slots
        BY <3>2, Blocks
      <4> QED BY <1>2, <4>1, SlotsAre
    <3> QED BY <1>4, <3>1, <3>2
  <2>2. ~ (p <= n * Slots - 1)
    BY <1>1, <1>2, <2>1
  <2> QED BY <1>1, <1>2, <1>4, <2>2
<1> QED BY <1>3, <1>4

LEMMA SpotOf ==
    ASSUME NEW a \in Nat, NEW i \in Indices
    PROVE  /\ a * Slots + i \in Nat
           /\ (a * Slots + i) \div Slots = a /\ (a * Slots + i) % Slots = i
<1>1. a * Slots \in Nat /\ i \in Nat
  BY SlotsAre, SMTT(30) DEF Indices
<1>2. PICK p \in Nat : p = a * Slots + i
  BY <1>1
<1>3. PICK b \in Nat, j \in Indices : /\ b = p \div Slots /\ j = p % Slots
                                     /\ p = b * Slots + j
  BY <1>2, Divided
<1>4. a = b /\ i = j
  <2>1. a * Slots + i = b * Slots + j
    BY <1>2, <1>3
  <2> QED BY <2>1, OneSpot
<1> QED BY <1>2, <1>3, <1>4

-----------------------------------------------------------------------------
(* The entries of a directory, by position.                                *)
Content(cl, e) ==
    [p \in 0 .. Len(cl) * Slots - 1 |-> e[cl[p \div Slots + 1]][p % Slots]]

Dir == Content(chain, entry)

Contents == [Clusters -> [Indices -> Entries]]

NoTwice(cl) == \A j \in DOMAIN cl, k \in DOMAIN cl : cl[j] = cl[k] => j = k

LEMMA LengthIs == ASSUME NEW cl \in Seq(Clusters) PROVE Len(cl) \in Nat /\ Len(cl) * Slots \in Nat
<1>1. Len(cl) \in Nat
  OBVIOUS
<1> QED BY <1>1, SlotsAre, SMTT(30)

LEMMA PlaceOf ==
    ASSUME NEW cl \in Seq(Clusters), NEW p \in 0 .. Len(cl) * Slots - 1
    PROVE  /\ p \in Nat /\ p \div Slots + 1 \in DOMAIN cl /\ p % Slots \in Indices
           /\ cl[p \div Slots + 1] \in Clusters
<1>1. p \in Nat /\ Len(cl) \in Nat
  BY LengthIs
<1>2. PICK q \in Nat, r \in Indices : q = p \div Slots /\ r = p % Slots
  BY <1>1, Divided
<1>3. q < Len(cl)
  BY <1>1, <1>2, InBlocks
<1>4. q + 1 \in DOMAIN cl /\ cl[q + 1] \in Clusters
  BY <1>1, <1>3
<1> QED BY <1>1, <1>2, <1>4

LEMMA ContentType ==
    ASSUME NEW cl \in Seq(Clusters), NEW e \in Contents
    PROVE  /\ Content(cl, e) \in [0 .. Len(cl) * Slots - 1 -> Entries]
           /\ \A p \in 0 .. Len(cl) * Slots - 1 :
                 Content(cl, e)[p] = e[cl[p \div Slots + 1]][p % Slots]
<1>1. ASSUME NEW p \in 0 .. Len(cl) * Slots - 1
      PROVE  e[cl[p \div Slots + 1]][p % Slots] \in Entries
  <2>1. cl[p \div Slots + 1] \in Clusters /\ p % Slots \in Indices
    BY PlaceOf
  <2> QED BY <2>1, Zenon DEF Contents
<1> QED BY <1>1, Zenon DEF Content

LEMMA SamePlace ==
    ASSUME NEW cl \in Seq(Clusters), NoTwice(cl),
           NEW p \in 0 .. Len(cl) * Slots - 1, NEW q \in 0 .. Len(cl) * Slots - 1,
           cl[p \div Slots + 1] = cl[q \div Slots + 1], p % Slots = q % Slots
    PROVE  p = q
<1>1. p \in Nat /\ q \in Nat
  BY PlaceOf
<1>2. PICK a \in Nat, i \in Indices :
         a = p \div Slots /\ i = p % Slots /\ p = a * Slots + i
  BY <1>1, Divided
<1>3. PICK b \in Nat, j \in Indices :
         b = q \div Slots /\ j = q % Slots /\ q = b * Slots + j
  BY <1>1, Divided
<1>4. a + 1 \in DOMAIN cl /\ b + 1 \in DOMAIN cl
  <2>1. p \div Slots + 1 \in DOMAIN cl /\ q \div Slots + 1 \in DOMAIN cl
    BY PlaceOf
  <2> QED BY <1>2, <1>3, <2>1
<1>5. cl[a + 1] = cl[b + 1] /\ i = j
  BY <1>2, <1>3
<1>6. a = b
  BY <1>4, <1>5 DEF NoTwice
<1>7. a * Slots + i = b * Slots + j
  BY <1>5, <1>6
<1> QED BY <1>2, <1>3, <1>7

LEMMA StoredType ==
    ASSUME entry \in Contents, NEW positions \in SUBSET Nat, NEW these,
           \A q \in positions : these[q] \in Entries
    PROVE  Stored(positions, these) \in Contents
<1>1. ASSUME NEW c \in Clusters, NEW i \in Indices, NEW here, here \subseteq positions
      PROVE  (IF here = {} THEN entry[c][i] ELSE these[First(here)]) \in Entries
  <2>1. entry[c][i] \in Entries
    BY Zenon DEF Contents
  <2>2. here # {} => First(here) \in here
    BY <1>1, LeastNumber
  <2> QED BY <1>1, <2>1, <2>2
<1>2. ASSUME NEW c \in Clusters, NEW i \in Indices
      PROVE  {q \in positions : chain[q \div Slots + 1] = c /\ q % Slots = i} \subseteq positions
  OBVIOUS
<1> QED BY <1>1, <1>2, Zenon DEF Stored, Contents

LEMMA StoredContent ==
    ASSUME chain \in Seq(Clusters), NoTwice(chain), entry \in Contents,
           NEW positions \in SUBSET Whole, NEW these,
           \A q \in positions : these[q] \in Entries
    PROVE  /\ Stored(positions, these) \in Contents
           /\ Content(chain, Stored(positions, these))
                 = [p \in Whole |-> IF p \in positions THEN these[p] ELSE Dir[p]]
<1>1. Whole = 0 .. Len(chain) * Slots - 1 /\ Whole \subseteq Nat
  BY LengthIs DEF Whole
<1>2. Stored(positions, these) \in Contents
  BY <1>1, StoredType
<1>3. ASSUME NEW p \in Whole
      PROVE  Stored(positions, these)[chain[p \div Slots + 1]][p % Slots]
                = IF p \in positions THEN these[p] ELSE Dir[p]
  <2>1. PICK c \in Clusters, i \in Indices : c = chain[p \div Slots + 1] /\ i = p % Slots
    BY <1>1, PlaceOf
  <2>2. PICK here : here = {q \in positions : chain[q \div Slots + 1] = c /\ q % Slots = i}
    OBVIOUS
  <2>3. Stored(positions, these)[c][i]
           = IF here = {} THEN entry[c][i] ELSE these[First(here)]
    BY <2>2, Zenon DEF Stored
  <2>4. \A q \in here : q = p
    BY <1>1, <2>1, <2>2, SamePlace
  <2>5. p \in positions => here = {p} /\ First(here) = p
    <3>1. ASSUME p \in positions PROVE here = {p}
      BY <2>1, <2>2, <2>4, <3>1
    <3>2. First({p}) = p
      <4>1. {p} \in SUBSET Nat
        BY <1>1
      <4> QED BY <4>1, LeastNumber
    <3> QED BY <3>1, <3>2
  <2>6. p \notin positions => here = {}
    BY <2>2, <2>4
  <2>7. Dir[p] = entry[c][i]
    BY <1>1, <2>1, ContentType DEF Dir
  <2> QED BY <2>1, <2>3, <2>5, <2>6, <2>7
<1>4. Content(chain, Stored(positions, these))
         = [p \in Whole |-> Stored(positions, these)[chain[p \div Slots + 1]][p % Slots]]
  BY <1>1, Zenon DEF Content
<1> QED BY <1>2, <1>3, <1>4, Zenon

(* A cluster is added at the end.                                          *)
LEMMA ExtendedContent ==
    ASSUME chain \in Seq(Clusters), entry \in Contents, NEW c \in Clusters,
           \A k \in DOMAIN chain : chain[k] # c,
           NEW longer, longer = Append(SubSeq(chain, 1, Len(chain)), c)
    PROVE  /\ longer \in Seq(Clusters) /\ Len(longer) = Len(chain) + 1
           /\ Zeroed(c) \in Contents
           /\ Whole \subseteq 0 .. Len(longer) * Slots - 1
           /\ Content(longer, Zeroed(c))
                 = [p \in 0 .. Len(longer) * Slots - 1 |->
                       IF p \in Whole THEN Dir[p] ELSE End]
<1>1. /\ longer \in Seq(Clusters) /\ Len(longer) = Len(chain) + 1
      /\ \A k \in DOMAIN chain : longer[k] = chain[k]
      /\ longer[Len(chain) + 1] = c
  <2>1. SubSeq(chain, 1, Len(chain)) = chain
    OBVIOUS
  <2>2. longer = Append(chain, c)
    BY <2>1
  <2>3. longer \in Seq(Clusters) /\ Len(longer) = Len(chain) + 1
    BY <2>2
  <2>4. \A k \in 1 .. Len(chain) : longer[k] = chain[k]
    BY <2>2
  <2>5. longer[Len(chain) + 1] = c
    BY <2>2
  <2>6. DOMAIN chain = 1 .. Len(chain)
    OBVIOUS
  <2> QED BY <2>3, <2>4, <2>5, <2>6
<1>2. Zeroed(c) \in Contents
  <2>1. [i \in Indices |-> End] \in [Indices -> Entries]
    BY DEF Entries
  <2> QED BY <2>1, Zenon DEF Zeroed, Contents
<1>3. Len(chain) \in Nat /\ Whole = 0 .. Len(chain) * Slots - 1
  BY LengthIs DEF Whole
<1>4. ASSUME NEW p \in 0 .. Len(longer) * Slots - 1
      PROVE  Zeroed(c)[longer[p \div Slots + 1]][p % Slots]
                = IF p \in Whole THEN Dir[p] ELSE End
  <2>1. p \in Nat
    BY <1>1, PlaceOf
  <2>2. PICK a \in Nat, i \in Indices : a = p \div Slots /\ i = p % Slots
    BY <2>1, Divided
  <2>3. a < Len(chain) + 1
    BY <1>1, <1>3, <2>1, <2>2, InBlocks
  <2>4. CASE a < Len(chain)
    <3>1. p \in Whole
      BY <1>3, <2>1, <2>2, <2>4, InBlocks
    <3>2. a + 1 \in DOMAIN chain /\ chain[a + 1] \in Clusters
      BY <1>3, <2>4
    <3>3. longer[a + 1] = chain[a + 1] /\ chain[a + 1] # c
      BY <1>1, <3>2
    <3>4. Dir[p] = entry[chain[a + 1]][i]
      BY <1>3, <2>2, <3>1, ContentType DEF Dir
    <3>5. Zeroed(c)[chain[a + 1]] = entry[chain[a + 1]]
      BY <3>2, <3>3, Zenon DEF Zeroed, Contents
    <3> QED BY <2>2, <3>1, <3>3, <3>4, <3>5
  <2>5. CASE a = Len(chain)
    <3>1. p \notin Whole
      <4>1. ~ (a < Len(chain))
        BY <1>3, <2>5
      <4> QED BY <1>3, <2>1, <2>2, <4>1, InBlocks
    <3>2. longer[a + 1] = c
      BY <1>1, <2>5
    <3>3. Zeroed(c)[c][i] = End
      BY Zenon DEF Zeroed, Contents
    <3> QED BY <2>2, <3>1, <3>2, <3>3
  <2>6. a < Len(chain) \/ a = Len(chain)
    BY <1>3, <2>3
  <2> QED BY <2>4, <2>5, <2>6
<1>5. Whole \subseteq 0 .. Len(longer) * Slots - 1
  <2>1. ASSUME NEW p \in Whole PROVE p \in 0 .. Len(longer) * Slots - 1
    <3>1. p \in Nat /\ p \div Slots < Len(chain)
      BY <1>3, InBlocks
    <3>2. PICK a \in Nat : a = p \div Slots
      BY <3>1, Divided
    <3>3. a < Len(longer) /\ Len(longer) \in Nat
      BY <1>1, <1>3, <3>1, <3>2
    <3> QED BY <3>1, <3>2, <3>3, InBlocks
  <2> QED BY <2>1
<1> QED BY <1>1, <1>2, <1>4, <1>5, Zenon DEF Content

(* A cluster is taken out.                                                 *)
LEMMA WithoutContent ==
    ASSUME chain \in Seq(Clusters), NoTwice(chain), entry \in Contents,
           NEW k \in 1 .. Len(chain) - 1,
           NEW rest, rest = Without(chain, k + 1)
    PROVE  /\ rest \in Seq(Clusters) /\ Len(rest) = Len(chain) - 1
           /\ rest[1] = chain[1] /\ NoTwice(rest)
           /\ \A j \in DOMAIN rest :
                 rest[j] # chain[k + 1] /\ \E i \in DOMAIN chain : rest[j] = chain[i]
           /\ \A i \in DOMAIN chain : i # k + 1 => \E j \in DOMAIN rest : rest[j] = chain[i]
           /\ Content(rest, entry)
                 = [p \in 0 .. (Len(chain) - 1) * Slots - 1 |->
                       IF p < k * Slots THEN Dir[p] ELSE Dir[p + Slots]]
<1>1. PICK n \in Nat : n = Len(chain) /\ k < n /\ k >= 1 /\ n - 1 \in Nat
  OBVIOUS
<1>2. /\ rest \in Seq(Clusters) /\ Len(rest) = n - 1
      /\ \A j \in 1 .. n - 1 : rest[j] = chain[IF j < k + 1 THEN j ELSE j + 1]
  <2>1. rest = [j \in 1 .. n - 1 |-> chain[IF j < k + 1 THEN j ELSE j + 1]]
    BY <1>1 DEF Without
  <2>2. ASSUME NEW j \in 1 .. n - 1
        PROVE  chain[IF j < k + 1 THEN j ELSE j + 1] \in Clusters
    BY <1>1
  <2>3. rest \in [1 .. n - 1 -> Clusters]
    BY <2>1, <2>2
  <2> QED BY <1>1, <2>1, <2>3
<1>3. NoTwice(rest)
  <2>1. ASSUME NEW i \in 1 .. n - 1, NEW j \in 1 .. n - 1, rest[i] = rest[j]
        PROVE  i = j
    <3>1. PICK x \in DOMAIN chain, y \in DOMAIN chain :
             /\ x = (IF i < k + 1 THEN i ELSE i + 1) /\ y = (IF j < k + 1 THEN j ELSE j + 1)
             /\ chain[x] = chain[y]
      BY <1>1, <1>2, <2>1
    <3>2. x = y
      BY <3>1 DEF NoTwice
    <3> QED BY <1>1, <3>1, <3>2
  <2>2. DOMAIN rest = 1 .. n - 1
    BY <1>1, <1>2
  <2> QED BY <2>1, <2>2 DEF NoTwice
<1>4. rest[1] = chain[1]
  BY <1>1, <1>2
<1>5. \A j \in DOMAIN rest :
         rest[j] # chain[k + 1] /\ \E i \in DOMAIN chain : rest[j] = chain[i]
  <2>1. ASSUME NEW j \in DOMAIN rest
        PROVE  rest[j] # chain[k + 1] /\ \E i \in DOMAIN chain : rest[j] = chain[i]
    <3>1. PICK i \in DOMAIN chain : rest[j] = chain[i] /\ i # k + 1
      BY <1>1, <1>2
    <3>2. k + 1 \in DOMAIN chain
      BY <1>1
    <3> QED BY <3>1, <3>2 DEF NoTwice
  <2> QED BY <2>1
<1>6. \A i \in DOMAIN chain : i # k + 1 => \E j \in DOMAIN rest : rest[j] = chain[i]
  <2>1. ASSUME NEW i \in DOMAIN chain, i # k + 1
        PROVE  \E j \in DOMAIN rest : rest[j] = chain[i]
    <3>1. CASE i < k + 1
      <4>1. i \in DOMAIN rest /\ rest[i] = chain[i]
        BY <1>1, <1>2, <3>1
      <4> QED BY <4>1
    <3>2. CASE ~ (i < k + 1)
      <4>1. i - 1 \in 1 .. n - 1 /\ ~ (i - 1 < k + 1)
        BY <1>1, <2>1, <3>2
      <4>2. rest[i - 1] = chain[i]
        BY <1>1, <1>2, <4>1
      <4>3. i - 1 \in DOMAIN rest
        BY <1>2, <4>1
      <4> QED BY <4>2, <4>3
    <3> QED BY <3>1, <3>2
  <2> QED BY <2>1
<1>7. ASSUME NEW p \in 0 .. (n - 1) * Slots - 1
      PROVE  entry[rest[p \div Slots + 1]][p % Slots]
                = IF p < k * Slots THEN Dir[p] ELSE Dir[p + Slots]
  <2>1. p \in Nat /\ p \in 0 .. Len(rest) * Slots - 1
    BY <1>2, PlaceOf
  <2>2. PICK a \in Nat, i \in Indices :
           a = p \div Slots /\ i = p % Slots /\ p = a * Slots + i
    BY <2>1, Divided
  <2>3. a < n - 1
    BY <1>1, <2>1, <2>2, InBlocks
  <2>4. p < k * Slots <=> a < k
    <3>1. p \in 0 .. k * Slots - 1 <=> a < k
      BY <1>1, <2>1, <2>2, InBlocks
    <3>2. k * Slots \in Nat
      BY SlotsAre, SMTT(30)
    <3> QED BY <2>1, <3>1, <3>2
  <2>5. CASE a < k
    <3>1. rest[a + 1] = chain[a + 1]
      BY <1>1, <1>2, <2>3, <2>5
    <3>2. p \in 0 .. Len(chain) * Slots - 1
      <4>1. a < n
        BY <1>1, <2>3
      <4> QED BY <1>1, <2>1, <2>2, <4>1, InBlocks
    <3>3. Dir[p] = entry[chain[a + 1]][i]
      BY <2>2, <3>2, ContentType DEF Dir
    <3> QED BY <2>2, <2>4, <2>5, <3>1, <3>3
  <2>6. CASE ~ (a < k)
    <3>1. rest[a + 1] = chain[a + 2]
      <4>1. a + 1 \in 1 .. n - 1 /\ ~ (a + 1 < k + 1) /\ a + 1 + 1 = a + 2
        BY <1>1, <2>3, <2>6
      <4> QED BY <1>2, <4>1
    <3>2. PICK b \in Nat : b = a + 1 /\ b < n
      BY <1>1, <2>3
    <3>3. p + Slots = b * Slots + i
      <4>1. b * Slots = a * Slots + Slots /\ a * Slots \in Nat /\ i \in Nat
        BY <3>2, SlotsAre, SMTT(30) DEF Indices
      <4> QED BY <2>2, <4>1, SlotsAre
    <3>4. PICK q \in Nat : q = p + Slots /\ q = b * Slots + i
      BY <2>1, <3>3, SlotsAre
    <3>5. q \div Slots = b /\ q % Slots = i
      BY <3>4, SpotOf
    <3>6. q \in 0 .. Len(chain) * Slots - 1
      BY <1>1, <3>2, <3>5, InBlocks
    <3>7. Dir[q] = entry[chain[b + 1]][i]
      BY <3>5, <3>6, ContentType DEF Dir
    <3>8. b + 1 = a + 2
      BY <3>2
    <3> QED BY <2>2, <2>4, <2>6, <3>1, <3>4, <3>7, <3>8
  <2> QED BY <2>5, <2>6
<1>8. Content(rest, entry)
         = [p \in 0 .. (n - 1) * Slots - 1 |-> entry[rest[p \div Slots + 1]][p % Slots]]
  BY <1>2 DEF Content
<1>9. Content(rest, entry)
         = [p \in 0 .. (n - 1) * Slots - 1 |->
               IF p < k * Slots THEN Dir[p] ELSE Dir[p + Slots]]
  BY <1>7, <1>8, Zenon
<1> QED BY <1>1, <1>2, <1>3, <1>4, <1>5, <1>6, <1>9

(* The clusters read before the first that cannot be.                      *)
LEMMA LastReadIs ==
    ASSUME chain \in Seq(Clusters), Len(chain) > 0, chain[1] \notin unreadable
    PROVE  /\ LastRead \in 1 .. Len(chain) /\ CanReadTo(LastRead)
           /\ LastRead < Len(chain) => ~ CanReadTo(LastRead + 1)
           /\ Readable \subseteq Whole /\ Whole \subseteq Nat
<1>1. PICK n \in Nat : n = Len(chain) /\ n >= 1
  BY LengthIs
<1>2. \E k \in 1 .. n : CanReadTo(k) /\ (k < n => ~ CanReadTo(k + 1))
  <2> DEFINE bad == {k \in 1 .. n : chain[k] \in unreadable}
  <2>1. CASE bad = {}
    <3>1. CanReadTo(n)
      BY <2>1 DEF CanReadTo
    <3> QED BY <1>1, <3>1
  <2>2. CASE bad # {}
    <3>1. bad \in SUBSET Nat
      OBVIOUS
    <3>2. PICK k \in bad : \A j \in bad : k <= j
      BY <2>2, <3>1, LeastNumber
    <3>3. k # 1 /\ k \in 1 .. n /\ k - 1 \in 1 .. n /\ k - 1 + 1 = k
      BY <1>1, <3>2
    <3>4. CanReadTo(k - 1)
      BY <1>1, <3>2, <3>3 DEF CanReadTo
    <3>5. ~ CanReadTo(k)
      BY <1>1, <3>2, <3>3 DEF CanReadTo
    <3> QED BY <3>3, <3>4, <3>5
  <2> QED BY <2>1, <2>2
<1>3. /\ LastRead \in 1 .. n /\ CanReadTo(LastRead)
      /\ LastRead < n => ~ CanReadTo(LastRead + 1)
  BY <1>1, <1>2, Zenon DEF LastRead
<1>4. Whole = 0 .. n * Slots - 1 /\ n * Slots \in Nat
  BY <1>1, LengthIs DEF Whole
<1>5. ASSUME NEW p \in Readable PROVE p \in Whole
  <2>1. PICK m \in Nat : m = LastRead /\ m <= n
    BY <1>1, <1>3
  <2>2. p \in 0 .. m * Slots - 1 /\ p \in Nat
    BY <2>1, SlotsAre DEF Readable
  <2>3. PICK a \in Nat : a = p \div Slots
    BY <2>2, Divided
  <2>4. a < n
    BY <1>1, <2>1, <2>2, <2>3, InBlocks
  <2> QED BY <1>4, <2>2, <2>3, <2>4, InBlocks
<1> QED BY <1>1, <1>3, <1>4, <1>5

-----------------------------------------------------------------------------
(* The contents of a directory, and what creating and deleting files does  *)
(* to them.                                                                *)
IsFree(x) == x.kind \in {"end", "deleted"}
IsShort(x) == x.kind = "short"

LEMMA EntryKinds ==
    ASSUME NEW x \in Entries
    PROVE  /\ x.kind \in {"end", "deleted", "short", "long"}
           /\ x.kind = "end" => x = End
           /\ x.kind = "short" => x.id \in 1 .. MaxFiles /\ x.alias \in Aliases
<1>1. CASE x \in {End, Deleted}
  BY <1>1 DEF End, Deleted
<1>2. CASE x \in {Short(a, id) : a \in Aliases, id \in 1 .. MaxFiles}
  BY <1>2 DEF Short
<1>3. CASE x \in {Long(n, p, b, a) : n \in Names, p \in 1 .. MaxParts, b \in BOOLEAN,
                                    a \in Aliases}
  BY <1>3 DEF Long
<1> QED BY <1>1, <1>2, <1>3 DEF Entries

(* All is end after an end.                                                *)
Quiet(d) ==
    \A q \in DOMAIN d, p \in DOMAIN d : q <= p /\ d[q].kind = "end" => d[p] = End

(* The short entries are those of these files.                             *)
Holds(d, fs) ==
    /\ \A p \in DOMAIN d : IsShort(d[p]) =>
          \E f \in fs : f.id = d[p].id /\ f.alias = d[p].alias
    /\ \A f \in fs : \E p \in DOMAIN d :
          IsShort(d[p]) /\ d[p].id = f.id /\ d[p].alias = f.alias
    /\ \A p \in DOMAIN d, q \in DOMAIN d :
          IsShort(d[p]) /\ IsShort(d[q]) /\ d[p].id = d[q].id => p = q

UniqueIds(fs) == \A f \in fs, g \in fs : f.id = g.id => f = g

(* The entry at p is the short one of the file f, with its parts before.   *)
IsAt(d, p, f) == IsShort(d[p]) /\ d[p].id = f.id

HasParts(d, p, f) ==
    /\ p - Parts[f.name] >= 0
    /\ \A q \in p - Parts[f.name] .. p - 1 :
          /\ d[q].kind = "long" /\ d[q].part = p - q
          /\ d[q].first = (q = p - Parts[f.name])
          /\ d[q].sum = d[p].alias /\ d[q].name = f.name
    /\ Parts[f.name] = 0 => f.alias = <<Stem[f.name], 0>>

(* Each file has its parts, and each part has its file.                    *)
Named(d, fs) ==
    /\ \A p \in DOMAIN d, f \in fs : IsAt(d, p, f) => HasParts(d, p, f)
    /\ \A q \in DOMAIN d : d[q].kind = "long" =>
          \E p \in DOMAIN d, f \in fs : IsAt(d, p, f) /\ q < p /\ p - Parts[f.name] <= q

LEMMA PartsAre == ASSUME NEW n \in Names PROVE Parts[n] \in Nat /\ Parts[n] <= MaxParts
  BY EntriesAssumption DEF MaxParts

(* The other entries change, and more may be added.                        *)
LEMMA OthersChange ==
    ASSUME NEW n \in Nat, NEW d \in [0 .. n - 1 -> Entries],
           NEW m \in Nat, NEW e \in [0 .. m - 1 -> Entries], n <= m, NEW fs,
           \A p \in 0 .. n - 1 : e[p] = d[p] \/ (~ IsShort(d[p]) /\ ~ IsShort(e[p])),
           \A p \in 0 .. m - 1 : p >= n => ~ IsShort(e[p])
    PROVE  Holds(d, fs) => Holds(e, fs)
<1>1. ASSUME NEW p \in 0 .. m - 1, IsShort(e[p])
      PROVE  p \in 0 .. n - 1 /\ e[p] = d[p] /\ IsShort(d[p])
  BY <1>1
<1>2. ASSUME NEW p \in 0 .. n - 1, IsShort(d[p])
      PROVE  p \in 0 .. m - 1 /\ e[p] = d[p] /\ IsShort(e[p])
  BY <1>2
<1>3. DOMAIN d = 0 .. n - 1 /\ DOMAIN e = 0 .. m - 1
  OBVIOUS
<1>4. SUFFICES ASSUME Holds(d, fs) PROVE Holds(e, fs)
  OBVIOUS
<1>5. \A p \in DOMAIN e : IsShort(e[p]) => \E f \in fs : f.id = e[p].id /\ f.alias = e[p].alias
  BY <1>1, <1>3, <1>4 DEF Holds
<1>6. ASSUME NEW f \in fs
      PROVE  \E p \in DOMAIN e : IsShort(e[p]) /\ e[p].id = f.id /\ e[p].alias = f.alias
  <2>1. PICK p \in DOMAIN d : IsShort(d[p]) /\ d[p].id = f.id /\ d[p].alias = f.alias
    BY <1>4 DEF Holds
  <2> QED BY <1>2, <1>3, <2>1
<1>7. \A p \in DOMAIN e, q \in DOMAIN e :
         IsShort(e[p]) /\ IsShort(e[q]) /\ e[p].id = e[q].id => p = q
  BY <1>1, <1>3, <1>4 DEF Holds
<1> QED BY <1>5, <1>6, <1>7 DEF Holds

(* Free entries become others that are free, and more may be added.        *)
LEMMA FreeChange ==
    ASSUME NEW n \in Nat, NEW d \in [0 .. n - 1 -> Entries],
           NEW m \in Nat, NEW e \in [0 .. m - 1 -> Entries], n <= m,
           NEW fs, \A f \in fs : f.name \in Names,
           \A p \in 0 .. n - 1 : e[p] = d[p] \/ (IsFree(d[p]) /\ IsFree(e[p])),
           \A p \in 0 .. m - 1 : p >= n => IsFree(e[p])
    PROVE  Named(d, fs) => Named(e, fs)
<1>1. ASSUME NEW p \in 0 .. m - 1, e[p].kind \in {"short", "long"}
      PROVE  p \in 0 .. n - 1 /\ e[p] = d[p]
  BY <1>1 DEF IsFree
<1>2. ASSUME NEW p \in 0 .. n - 1, d[p].kind \in {"short", "long"}
      PROVE  p \in 0 .. m - 1 /\ e[p] = d[p]
  BY <1>2 DEF IsFree
<1>3. DOMAIN d = 0 .. n - 1 /\ DOMAIN e = 0 .. m - 1
  OBVIOUS
<1>4. SUFFICES ASSUME Named(d, fs) PROVE Named(e, fs)
  OBVIOUS
<1>5. ASSUME NEW p \in DOMAIN e, NEW f \in fs, IsAt(e, p, f)
      PROVE  HasParts(e, p, f)
  <2>1. p \in 0 .. n - 1 /\ e[p] = d[p] /\ IsAt(d, p, f)
    BY <1>1, <1>3, <1>5 DEF IsAt, IsShort
  <2>2. HasParts(d, p, f)
    BY <1>3, <1>4, <2>1 DEF Named
  <2>3. Parts[f.name] \in Nat
    BY PartsAre
  <2>4. ASSUME NEW q \in p - Parts[f.name] .. p - 1
        PROVE  e[q] = d[q]
    <3>1. q \in 0 .. n - 1 /\ d[q].kind = "long"
      BY <2>1, <2>2, <2>3 DEF HasParts
    <3> QED BY <1>2, <3>1
  <2> QED BY <2>1, <2>2, <2>4 DEF HasParts
<1>6. ASSUME NEW q \in DOMAIN e, e[q].kind = "long"
      PROVE  \E p \in DOMAIN e, f \in fs : IsAt(e, p, f) /\ q < p /\ p - Parts[f.name] <= q
  <2>1. q \in DOMAIN d /\ d[q].kind = "long"
    BY <1>1, <1>3, <1>6
  <2>2. PICK p \in DOMAIN d, f \in fs : IsAt(d, p, f) /\ q < p /\ p - Parts[f.name] <= q
    BY <1>4, <2>1 DEF Named
  <2>3. p \in DOMAIN e /\ IsAt(e, p, f)
    BY <1>2, <1>3, <2>2 DEF IsAt, IsShort
  <2> QED BY <2>2, <2>3
<1> QED BY <1>5, <1>6 DEF Named

LEMMA SameParts ==
    ASSUME NEW d, NEW e, NEW p, NEW f, HasParts(d, p, f), e[p] = d[p],
           \A q \in p - Parts[f.name] .. p - 1 : e[q] = d[q]
    PROVE  HasParts(e, p, f)
  BY DEF HasParts

(* The entries before s and after t are the same.                          *)
SameBut(d, e, s, t) == \A p \in DOMAIN d : p \in s .. t \/ e[p] = d[p]

(* The files other than the one at t.                                      *)
Remaining(fs, d, t) == {f \in fs : f.id # d[t].id}

AllDeleted(e, s, t) == \A p \in s .. t : e[p] = Deleted

(* A file is deleted: its short entry and, before it, parts.               *)
LEMMA ErasedHolds ==
    ASSUME NEW n \in Nat, NEW d \in [0 .. n - 1 -> Entries], NEW fs,
           Quiet(d), Holds(d, fs),
           NEW t \in 0 .. n - 1, IsShort(d[t]), NEW s \in 0 .. t,
           \A q \in s .. t - 1 : d[q].kind = "long",
           NEW e \in [0 .. n - 1 -> Entries], SameBut(d, e, s, t), AllDeleted(e, s, t),
           NEW gs, gs = Remaining(fs, d, t)
    PROVE  Quiet(e) /\ Holds(e, gs)
<1>1. DOMAIN d = 0 .. n - 1 /\ DOMAIN e = 0 .. n - 1
  OBVIOUS
<1>2. ASSUME NEW p \in 0 .. n - 1, p \in s .. t PROVE e[p] = Deleted /\ d[p].kind \in {"short", "long"}
  BY <1>2 DEF AllDeleted, IsShort
<1>3. ASSUME NEW p \in 0 .. n - 1, p \notin s .. t PROVE e[p] = d[p] /\ p # t
  BY <1>1, <1>3 DEF SameBut
<1>4. ASSUME NEW q \in 0 .. n - 1, NEW p \in 0 .. n - 1, q <= p, e[q].kind = "end"
      PROVE  e[p] = End
  <2>1. q \notin s .. t
    BY <1>2, <1>4 DEF Deleted
  <2>2. d[p] = End
    BY <1>1, <1>3, <1>4, <2>1 DEF Quiet
  <2>3. p \notin s .. t
    BY <1>2, <2>2 DEF End
  <2> QED BY <1>3, <2>2, <2>3
<1>5. Quiet(e)
  BY <1>1, <1>4 DEF Quiet
<1>6. ASSUME NEW p \in 0 .. n - 1, IsShort(e[p])
      PROVE  p \notin s .. t /\ e[p] = d[p] /\ IsShort(d[p])
  <2>1. p \notin s .. t
    BY <1>2, <1>6 DEF IsShort, Deleted
  <2> QED BY <1>3, <1>6, <2>1
<1>7. ASSUME NEW p \in 0 .. n - 1, IsShort(d[p]), p # t
      PROVE  e[p] = d[p]
  <2>1. p \notin s .. t
    BY <1>7 DEF IsShort
  <2> QED BY <1>3, <2>1
<1>8. ASSUME NEW p \in 0 .. n - 1, IsShort(e[p])
      PROVE  \E f \in gs : f.id = e[p].id /\ f.alias = e[p].alias
  <2>1. PICK f \in fs : f.id = d[p].id /\ f.alias = d[p].alias
    BY <1>1, <1>6, <1>8 DEF Holds
  <2>2. d[p].id # d[t].id
    BY <1>1, <1>3, <1>6, <1>8 DEF Holds
  <2> QED BY <1>6, <1>8, <2>1, <2>2 DEF Remaining
<1>9. ASSUME NEW f \in gs
      PROVE  \E p \in 0 .. n - 1 : IsShort(e[p]) /\ e[p].id = f.id /\ e[p].alias = f.alias
  <2>1. PICK p \in 0 .. n - 1 : IsShort(d[p]) /\ d[p].id = f.id /\ d[p].alias = f.alias
    BY <1>1 DEF Holds, Remaining
  <2>2. p # t
    BY <2>1 DEF Remaining
  <2> QED BY <1>7, <2>1, <2>2
<1>10. \A p \in 0 .. n - 1, q \in 0 .. n - 1 :
          IsShort(e[p]) /\ IsShort(e[q]) /\ e[p].id = e[q].id => p = q
  BY <1>1, <1>6 DEF Holds
<1> QED BY <1>1, <1>5, <1>8, <1>9, <1>10 DEF Holds

LEMMA ErasedNamed ==
    ASSUME NEW n \in Nat, NEW d \in [0 .. n - 1 -> Entries], NEW fs,
           \A f \in fs : f.name \in Names, UniqueIds(fs), Holds(d, fs), Named(d, fs),
           NEW t \in 0 .. n - 1, NEW g \in fs, IsAt(d, t, g),
           NEW s, s = t - Parts[g.name],
           NEW e \in [0 .. n - 1 -> Entries], SameBut(d, e, s, t), AllDeleted(e, s, t),
           NEW gs, gs = Remaining(fs, d, t)
    PROVE  Named(e, gs)
<1>1. DOMAIN d = 0 .. n - 1 /\ DOMAIN e = 0 .. n - 1
  OBVIOUS
<1>2. Parts[g.name] \in Nat /\ s \in 0 .. t /\ \A q \in s .. t - 1 : d[q].kind = "long"
  BY <1>1, PartsAre DEF Named, HasParts
<1>3. IsShort(d[t])
  BY DEF IsAt
<1>4. ASSUME NEW p \in 0 .. n - 1, NEW f \in fs, IsAt(d, p, f), p # t
      PROVE  \A q \in p - Parts[f.name] .. p : q \in 0 .. n - 1 /\ e[q] = d[q]
  <2>1. Parts[f.name] \in Nat /\ HasParts(d, p, f) /\ d[p].kind = "short"
    BY <1>1, <1>4, PartsAre DEF Named, IsAt, IsShort
  <2>2. ASSUME NEW q \in p - Parts[f.name] .. p PROVE q \in 0 .. n - 1 /\ q \notin s .. t
    <3>1. q \in 0 .. n - 1
      BY <2>1 DEF HasParts
    <3>2. CASE p < t
      <4>1. p \notin s .. t - 1
        BY <1>2, <2>1
      <4>2. p < s
        BY <1>2, <3>2, <4>1
      <4> QED BY <1>2, <2>1, <3>1, <4>2
    <3>3. CASE t < p
      <4>1. t \notin p - Parts[f.name] .. p - 1
        BY <1>3, <2>1 DEF HasParts, IsShort
      <4>2. t < p - Parts[f.name]
        BY <2>1, <3>3, <4>1
      <4> QED BY <1>2, <2>1, <3>1, <4>2
    <3> QED BY <1>4, <3>2, <3>3
  <2> QED BY <1>1, <2>2 DEF SameBut
<1>5. ASSUME NEW p \in 0 .. n - 1, e[p].kind \in {"short", "long"}
      PROVE  p \notin s .. t /\ e[p] = d[p]
  BY <1>1, <1>5 DEF Deleted, SameBut, AllDeleted
<1>6. ASSUME NEW p \in 0 .. n - 1, NEW f \in gs, IsAt(e, p, f)
      PROVE  HasParts(e, p, f)
  <2>1. p \notin s .. t /\ e[p] = d[p] /\ IsAt(d, p, f) /\ f \in fs
    BY <1>5, <1>6 DEF IsAt, IsShort, Remaining
  <2>2. p # t
    BY <1>2, <2>1
  <2>3. HasParts(d, p, f) /\ Parts[f.name] \in Nat
    BY <1>1, <2>1, PartsAre DEF Named
  <2>4. ASSUME NEW q \in p - Parts[f.name] .. p - 1 PROVE e[q] = d[q]
    <3>1. q \in p - Parts[f.name] .. p
      BY <2>3
    <3> QED BY <1>4, <2>1, <2>2, <3>1
  <2> QED BY <2>1, <2>3, <2>4, SameParts
<1>7. ASSUME NEW q \in 0 .. n - 1, e[q].kind = "long"
      PROVE  \E p \in 0 .. n - 1, f \in gs : IsAt(e, p, f) /\ q < p /\ p - Parts[f.name] <= q
  <2>1. q \notin s .. t /\ d[q].kind = "long"
    BY <1>5, <1>7
  <2>2. PICK p \in 0 .. n - 1, f \in fs : IsAt(d, p, f) /\ q < p /\ p - Parts[f.name] <= q
    BY <1>1, <2>1 DEF Named
  <2>3. p # t
    <3>1. ASSUME p = t PROVE FALSE
      <4>1. f = g
        BY <2>2, <3>1 DEF IsAt, UniqueIds
      <4>2. q \in s .. t
        BY <1>2, <2>2, <3>1, <4>1
      <4> QED BY <2>1, <4>2
    <3> QED BY <3>1
  <2>4. e[p] = d[p]
    <3>1. p \in p - Parts[f.name] .. p
      BY PartsAre
    <3> QED BY <1>4, <2>2, <2>3, <3>1
  <2>5. f \in gs
    <3>1. d[p].id # d[t].id
      BY <1>1, <1>3, <2>2, <2>3 DEF Holds, IsAt
    <3> QED BY <2>2, <3>1 DEF IsAt, Remaining
  <2> QED BY <2>2, <2>4, <2>5 DEF IsAt
<1> QED BY <1>1, <1>6, <1>7 DEF Named

(* The parts of the file g are before t, from s on.                        *)
PartsAt(e, s, t, g) == \A p \in s .. t - 1 : e[p] = Long(g.name, t - p, p = s, g.alias)

(* A file is written over free entries, that follow one that is not free.  *)
LEMMA WrittenHolds ==
    ASSUME NEW n \in Nat, NEW d \in [0 .. n - 1 -> Entries], NEW fs,
           Quiet(d), Holds(d, fs),
           NEW t \in 0 .. n - 1, NEW s \in 0 .. t, \A q \in s .. t : IsFree(d[q]),
           s = 0 \/ ~ IsFree(d[s - 1]),
           NEW g, \A f \in fs : f.id # g.id,
           NEW gs, gs = fs \cup {g}, NEW e \in [0 .. n - 1 -> Entries],
           SameBut(d, e, s, t),
           e[t] = Short(g.alias, g.id), \A q \in s .. t - 1 : e[q].kind = "long"
    PROVE  Quiet(e) /\ Holds(e, gs)
<1>1. DOMAIN d = 0 .. n - 1 /\ DOMAIN e = 0 .. n - 1
  OBVIOUS
<1>2. /\ IsShort(e[t]) /\ e[t].id = g.id /\ e[t].alias = g.alias
      /\ \A p \in s .. t - 1 : p \in 0 .. n - 1 /\ e[p].kind = "long"
  BY DEF Short, IsShort
<1>3. ASSUME NEW p \in 0 .. n - 1, p \notin s .. t PROVE e[p] = d[p]
  BY <1>1, <1>3 DEF SameBut
<1>4. ASSUME NEW p \in 0 .. n - 1 PROVE p \in s .. t => p = t \/ p \in s .. t - 1
  OBVIOUS
<1>5. ASSUME NEW q \in 0 .. n - 1, NEW p \in 0 .. n - 1, q <= p, e[q].kind = "end"
      PROVE  e[p] = End
  <2>1. q \notin s .. t
    BY <1>2, <1>4, <1>5 DEF IsShort
  <2>2. d[q].kind = "end" /\ d[p] = End
    BY <1>1, <1>3, <1>5, <2>1 DEF Quiet
  <2>3. p \notin s .. t
    <3>1. ASSUME p \in s .. t PROVE FALSE
      <4>1. q < s /\ s - 1 \in 0 .. n - 1 /\ q <= s - 1
        BY <1>5, <2>1, <3>1
      <4>2. d[s - 1] = End
        BY <1>1, <2>2, <4>1 DEF Quiet
      <4> QED BY <4>1, <4>2 DEF IsFree, End
    <3> QED BY <3>1
  <2> QED BY <1>3, <2>2, <2>3
<1>6. Quiet(e)
  BY <1>1, <1>5 DEF Quiet
<1>7. ASSUME NEW p \in 0 .. n - 1, IsShort(e[p]), p # t
      PROVE  e[p] = d[p] /\ IsShort(d[p])
  <2>1. p \notin s .. t
    BY <1>2, <1>4, <1>7 DEF IsShort
  <2> QED BY <1>3, <1>7, <2>1
<1>8. ASSUME NEW p \in 0 .. n - 1, IsShort(d[p])
      PROVE  p # t /\ e[p] = d[p]
  <2>1. p \notin s .. t
    BY <1>8 DEF IsShort, IsFree
  <2> QED BY <1>3, <2>1
<1>9. ASSUME NEW p \in 0 .. n - 1, IsShort(e[p])
      PROVE  \E f \in gs : f.id = e[p].id /\ f.alias = e[p].alias
  <2>1. CASE p = t
    BY <1>2, <2>1
  <2>2. CASE p # t
    BY <1>1, <1>7, <1>9, <2>2 DEF Holds
  <2> QED BY <2>1, <2>2
<1>10. ASSUME NEW f \in gs
       PROVE  \E p \in 0 .. n - 1 : IsShort(e[p]) /\ e[p].id = f.id /\ e[p].alias = f.alias
  <2>1. CASE f = g
    BY <1>2, <2>1
  <2>2. CASE f \in fs
    <3>1. PICK p \in 0 .. n - 1 : IsShort(d[p]) /\ d[p].id = f.id /\ d[p].alias = f.alias
      BY <1>1, <2>2 DEF Holds
    <3> QED BY <1>8, <3>1
  <2> QED BY <2>1, <2>2
<1>11. ASSUME NEW p \in 0 .. n - 1, IsShort(e[p]), p # t
       PROVE  e[p].id # g.id
  BY <1>1, <1>7, <1>11 DEF Holds
<1>12. ASSUME NEW p \in 0 .. n - 1, NEW q \in 0 .. n - 1,
              IsShort(e[p]), IsShort(e[q]), e[p].id = e[q].id
       PROVE  p = q
  <2>1. CASE p = t \/ q = t
    BY <1>2, <1>11, <1>12, <2>1
  <2>2. CASE p # t /\ q # t
    BY <1>1, <1>7, <1>12, <2>2 DEF Holds
  <2> QED BY <2>1, <2>2
<1> QED BY <1>1, <1>6, <1>9, <1>10, <1>12 DEF Holds

LEMMA WrittenNamed ==
    ASSUME NEW n \in Nat, NEW d \in [0 .. n - 1 -> Entries], NEW fs,
           \A f \in fs : f.name \in Names, Holds(d, fs), Named(d, fs),
           NEW t \in 0 .. n - 1, NEW s \in 0 .. t, \A q \in s .. t : IsFree(d[q]),
           NEW g, NEW gs, gs = fs \cup {g}, g.name \in Names, \A f \in fs : f.id # g.id,
           t = s + Parts[g.name], Parts[g.name] = 0 => g.alias = <<Stem[g.name], 0>>,
           NEW e \in [0 .. n - 1 -> Entries],
           SameBut(d, e, s, t),
           e[t] = Short(g.alias, g.id),
           PartsAt(e, s, t, g)
    PROVE  Named(e, gs)
<1>1. /\ DOMAIN d = 0 .. n - 1 /\ DOMAIN e = 0 .. n - 1
      /\ Parts[g.name] \in Nat /\ t - Parts[g.name] = s /\ s \in Nat
  BY PartsAre
<1>2. IsShort(e[t]) /\ e[t].id = g.id /\ e[t].alias = g.alias
  BY DEF Short, IsShort
<1>3. ASSUME NEW p \in 0 .. n - 1, p \notin s .. t PROVE e[p] = d[p]
  BY <1>1, <1>3 DEF SameBut
<1>4. ASSUME NEW p \in s .. t - 1
      PROVE  /\ p \in 0 .. n - 1 /\ e[p].kind = "long" /\ e[p].part = t - p
             /\ e[p].first = (p = s) /\ e[p].sum = g.alias /\ e[p].name = g.name
  <2>1. p \in 0 .. n - 1 /\ e[p] = Long(g.name, t - p, p = s, g.alias)
    BY DEF PartsAt
  <2>4. PICK x, b : x = t - p /\ b = (p = s)
    OBVIOUS
  <2>5. e[p] = Long(g.name, x, b, g.alias)
    BY <2>1, <2>4
  <2>6. /\ e[p].kind = "long" /\ e[p].part = x /\ e[p].sum = g.alias
        /\ e[p].name = g.name /\ e[p].first = b
    BY <2>5 DEF Long
  <2> QED BY <2>1, <2>4, <2>6
<1>5. HasParts(e, t, g)
  <2>1. ASSUME NEW q \in t - Parts[g.name] .. t - 1
        PROVE  /\ e[q].kind = "long" /\ e[q].part = t - q /\ e[q].sum = e[t].alias
               /\ e[q].first = (q = t - Parts[g.name]) /\ e[q].name = g.name
    <3>1. q \in s .. t - 1
      BY <1>1
    <3>2. (q = s) = (q = t - Parts[g.name])
      BY <1>1, Zenon
    <3> QED BY <1>2, <1>4, <3>1, <3>2, Zenon
  <2>2. t - Parts[g.name] >= 0 /\ (Parts[g.name] = 0 => g.alias = <<Stem[g.name], 0>>)
    BY <1>1
  <2> QED BY <2>1, <2>2, Zenon DEF HasParts
<1>6. ASSUME NEW p \in 0 .. n - 1, NEW f \in fs, IsAt(d, p, f)
      PROVE  HasParts(e, p, f) /\ p # t /\ e[p] = d[p]
  <2>1. HasParts(d, p, f) /\ Parts[f.name] \in Nat
    BY <1>1, <1>6, PartsAre DEF Named
  <2>2. p \notin s .. t /\ e[p] = d[p]
    BY <1>3, <1>6 DEF IsAt, IsShort, IsFree
  <2>3. ASSUME NEW q \in p - Parts[f.name] .. p - 1
        PROVE  e[q] = d[q]
    <3>1. q \in 0 .. n - 1 /\ d[q].kind = "long"
      BY <2>1 DEF HasParts
    <3>2. q \notin s .. t
      BY <3>1 DEF IsFree
    <3> QED BY <1>3, <3>1, <3>2
  <2>4. p # t
    BY <2>2
  <2>5. HasParts(e, p, f)
    BY <2>1, <2>2, <2>3, SameParts
  <2> QED BY <2>2, <2>4, <2>5
<1>7. ASSUME NEW p \in 0 .. n - 1, NEW f \in gs, IsAt(e, p, f)
      PROVE  HasParts(e, p, f)
  <2>1. CASE p = t
    <3>1. f = g
      BY <1>2, <1>7, <2>1 DEF IsAt
    <3> QED BY <1>5, <2>1, <3>1
  <2>2. CASE p # t
    <3>1. p \notin s .. t
      <4>1. p \notin s .. t - 1
        BY <1>4, <1>7 DEF IsAt, IsShort
      <4> QED BY <2>2, <4>1
    <3>2. IsAt(d, p, f)
      BY <1>3, <1>7, <3>1 DEF IsAt
    <3>3. f \in fs
      <4>1. \E h \in fs : h.id = d[p].id
        BY <1>1, <3>2 DEF Holds, IsAt
      <4> QED BY <3>2, <4>1 DEF IsAt
    <3> QED BY <1>6, <3>2, <3>3
  <2> QED BY <2>1, <2>2
<1>8. ASSUME NEW q \in 0 .. n - 1, e[q].kind = "long"
      PROVE  \E p \in 0 .. n - 1, f \in gs :
                IsAt(e, p, f) /\ q < p /\ p - Parts[f.name] <= q
  <2>1. CASE q \in s .. t
    <3>1. q # t
      BY <1>2, <1>8 DEF IsShort
    <3>2. IsAt(e, t, g) /\ q < t /\ t - Parts[g.name] <= q
      BY <1>1, <1>2, <2>1, <3>1 DEF IsAt
    <3> QED BY <3>2
  <2>2. CASE q \notin s .. t
    <3>1. d[q].kind = "long"
      BY <1>3, <1>8, <2>2
    <3>2. PICK p \in 0 .. n - 1, f \in fs : IsAt(d, p, f) /\ q < p /\ p - Parts[f.name] <= q
      BY <1>1, <3>1 DEF Named
    <3>3. IsAt(e, p, f)
      BY <1>6, <3>2 DEF IsAt
    <3> QED BY <3>2, <3>3
  <2> QED BY <2>1, <2>2
<1> QED BY <1>1, <1>7, <1>8 DEF Named

(* The entries of e are those of d but the w from a on.                    *)
Closed(d, e, a, w) == \A p \in DOMAIN e : e[p] = d[IF p < a THEN p ELSE p + w]

(* Free entries, w of them from a on, are taken out.                       *)
LEMMA TakenOut ==
    ASSUME NEW n \in Nat, NEW d \in [0 .. n - 1 -> Entries],
           NEW a \in Nat, NEW w \in Nat, w >= 1, a + w <= n,
           \A q \in a .. a + w - 1 : IsFree(d[q]),
           NEW m \in Nat, m = n - w, NEW e \in [0 .. m - 1 -> Entries],
           Closed(d, e, a, w), NEW fs, \A f \in fs : f.name \in Names
    PROVE  /\ Quiet(d) => Quiet(e)
           /\ Holds(d, fs) => Holds(e, fs)
           /\ Named(d, fs) => Named(e, fs)
<1> DEFINE Was(p) == IF p < a THEN p ELSE p + w
           New(q) == IF q < a THEN q ELSE q - w
<1>1. DOMAIN d = 0 .. n - 1 /\ DOMAIN e = 0 .. m - 1
  OBVIOUS
<1>9. \A p \in 0 .. m - 1 : e[p] = d[IF p < a THEN p ELSE p + w]
  BY <1>1 DEF Closed
<1>2. ASSUME NEW p \in 0 .. m - 1
      PROVE  Was(p) \in 0 .. n - 1 /\ e[p] = d[Was(p)] /\ New(Was(p)) = p
  BY <1>9
<1>3. ASSUME NEW q \in 0 .. n - 1, ~ IsFree(d[q])
      PROVE  New(q) \in 0 .. m - 1 /\ Was(New(q)) = q /\ e[New(q)] = d[q]
  <2>1. q < a \/ q >= a + w
    BY <1>3
  <2>2. New(q) \in 0 .. m - 1 /\ Was(New(q)) = q
    BY <2>1
  <2> QED BY <1>9, <2>2
<1>4. \A p \in 0 .. m - 1, q \in 0 .. m - 1 : (p <= q => Was(p) <= Was(q)) /\ (Was(p) = Was(q) => p = q)
  OBVIOUS
<1>5. \A x : IsShort(x) \/ x.kind = "long" => ~ IsFree(x)
  BY DEF IsShort, IsFree
<1> HIDE DEF Was, New
<1>6. ASSUME Quiet(d) PROVE Quiet(e)
  BY <1>1, <1>2, <1>4, <1>6 DEF Quiet
<1>7. ASSUME Holds(d, fs) PROVE Holds(e, fs)
  <2>1. ASSUME NEW p \in 0 .. m - 1, IsShort(e[p])
        PROVE  \E f \in fs : f.id = e[p].id /\ f.alias = e[p].alias
    BY <1>1, <1>2, <1>7, <2>1 DEF Holds
  <2>2. ASSUME NEW f \in fs
        PROVE  \E p \in 0 .. m - 1 : IsShort(e[p]) /\ e[p].id = f.id /\ e[p].alias = f.alias
    <3>1. PICK q \in 0 .. n - 1 : IsShort(d[q]) /\ d[q].id = f.id /\ d[q].alias = f.alias
      BY <1>1, <1>7 DEF Holds
    <3>2. New(q) \in 0 .. m - 1 /\ e[New(q)] = d[q]
      BY <1>3, <1>5, <3>1
    <3> QED BY <3>1, <3>2
  <2>3. ASSUME NEW p \in 0 .. m - 1, NEW q \in 0 .. m - 1,
               IsShort(e[p]), IsShort(e[q]), e[p].id = e[q].id
        PROVE  p = q
    <3>1. Was(p) = Was(q)
      BY <1>1, <1>2, <1>7, <2>3 DEF Holds
    <3> QED BY <1>4, <3>1
  <2> QED BY <1>1, <2>1, <2>2, <2>3 DEF Holds
<1>8. ASSUME Named(d, fs) PROVE Named(e, fs)
  <2>1. ASSUME NEW p \in 0 .. m - 1, NEW f \in fs, IsAt(e, p, f)
        PROVE  HasParts(e, p, f)
    <3>1. PICK x \in 0 .. n - 1 : x = Was(p) /\ e[p] = d[x] /\ IsAt(d, x, f)
      BY <1>2, <2>1 DEF IsAt
    <3>2. HasParts(d, x, f) /\ Parts[f.name] \in Nat
      BY <1>1, <1>8, <3>1, PartsAre DEF Named
    <3>3. CASE p < a
      <4>1. x = p
        BY <3>1, <3>3 DEF Was
      <4>2. ASSUME NEW q \in p - Parts[f.name] .. p - 1 PROVE e[q] = d[q]
        <5>1. q \in 0 .. m - 1 /\ q < a
          BY <3>2, <3>3, <4>1 DEF HasParts
        <5> QED BY <1>9, <5>1
      <4> QED BY <3>1, <3>2, <4>1, <4>2, SameParts
    <3>4. CASE ~ (p < a)
      <4>1. x = p + w
        BY <3>1, <3>4 DEF Was
      <4>2. x - Parts[f.name] >= a + w
        <5>1. ASSUME ~ (x - Parts[f.name] >= a + w) PROVE FALSE
          <6>1. a + w - 1 \in x - Parts[f.name] .. x - 1
            BY <3>2, <3>4, <4>1, <5>1
          <6>2. d[a + w - 1].kind = "long"
            BY <3>2, <6>1 DEF HasParts
          <6>3. IsFree(d[a + w - 1])
            OBVIOUS
          <6> QED BY <6>2, <6>3 DEF IsFree
        <5> QED BY <5>1
      <4>3. ASSUME NEW q \in p - Parts[f.name] .. p - 1
            PROVE  /\ e[q].kind = "long" /\ e[q].part = p - q /\ e[q].sum = e[p].alias
                   /\ e[q].first = (q = p - Parts[f.name]) /\ e[q].name = f.name
        <5>1. PICK y : y = q + w
          OBVIOUS
        <5>2. /\ q \in 0 .. m - 1 /\ ~ (q < a) /\ y \in x - Parts[f.name] .. x - 1
              /\ x - y = p - q
          BY <3>2, <4>1, <4>2, <5>1
        <5>5. (y = x - Parts[f.name]) <=> (q = p - Parts[f.name])
          <6>1. PICK r \in Nat : r = Parts[f.name]
            BY <3>2
          <6>2. q + w = p + w - r <=> q = p - r
            OBVIOUS
          <6>3. x - Parts[f.name] = p + w - r /\ p - Parts[f.name] = p - r
            BY <4>1, <6>1
          <6> QED BY <5>1, <6>2, <6>3, Zenon
        <5>3. e[q] = d[y]
          BY <1>9, <5>1, <5>2
        <5>4. /\ d[y].kind = "long" /\ d[y].part = x - y /\ d[y].sum = d[x].alias
              /\ d[y].first = (y = x - Parts[f.name]) /\ d[y].name = f.name
          BY <3>2, <5>2, Zenon DEF HasParts
        <5> QED BY <3>1, <5>2, <5>3, <5>4, <5>5, Zenon
      <4>4. p - Parts[f.name] >= 0 /\ (Parts[f.name] = 0 => f.alias = <<Stem[f.name], 0>>)
        BY <3>2, <4>1, <4>2 DEF HasParts
      <4> QED BY <4>3, <4>4, Zenon DEF HasParts
    <3> QED BY <3>3, <3>4
  <2>2. ASSUME NEW q \in 0 .. m - 1, e[q].kind = "long"
        PROVE  \E p \in 0 .. m - 1, f \in fs : IsAt(e, p, f) /\ q < p /\ p - Parts[f.name] <= q
    <3>1. PICK y \in 0 .. n - 1 : y = Was(q) /\ d[y].kind = "long"
      BY <1>2, <2>2
    <3>2. PICK x \in 0 .. n - 1, f \in fs : IsAt(d, x, f) /\ y < x /\ x - Parts[f.name] <= y
      BY <1>1, <1>8, <3>1 DEF Named
    <3>3. ~ IsFree(d[x])
      BY <1>5, <3>2 DEF IsAt
    <3>4. PICK p \in 0 .. m - 1 : p = New(x) /\ e[p] = d[x] /\ x = Was(p)
      BY <1>3, <3>3
    <3>5. IsAt(e, p, f)
      BY <3>2, <3>4 DEF IsAt
    <3>6. q < p
      BY <1>4, <3>1, <3>2, <3>4
    <3>7. p - Parts[f.name] <= q
      <4>1. HasParts(e, p, f) /\ HasParts(d, x, f) /\ Parts[f.name] \in Nat
        BY <1>1, <1>8, <2>1, <3>2, <3>5, PartsAre DEF Named
      <4>2. CASE q < a /\ ~ (p < a)
        <5>1. y = q /\ x = p + w
          BY <3>1, <3>4, <4>2 DEF Was
        <5>2. a \in x - Parts[f.name] .. x - 1
          BY <3>2, <4>1, <4>2, <5>1
        <5>3. d[a].kind = "long"
          BY <4>1, <5>2 DEF HasParts
        <5>4. IsFree(d[a])
          OBVIOUS
        <5> QED BY <5>3, <5>4 DEF IsFree
      <4>3. CASE ~ (q < a /\ ~ (p < a))
        BY <3>1, <3>2, <3>4, <3>6, <4>1, <4>3 DEF Was
      <4> QED BY <4>2, <4>3
    <3> QED BY <3>5, <3>6, <3>7
  <2> QED BY <1>1, <2>1, <2>2 DEF Named
<1> QED BY <1>6, <1>7, <1>8

-----------------------------------------------------------------------------
(* The invariant.  The search of free entries, in a damaged directory too. *)
Counted ==
    search.state \in {"search", "found"} =>
       /\ Ids # {}
       /\ search.state = "search" => search.consecutive <= Parts[search.name]
       /\ search.state = "found" => search.consecutive = Parts[search.name] + 1
       /\ search.consecutive > 0 =>
             search.start = search.pos - search.consecutive + 1 /\ search.start >= 0

Shaped ==
    /\ TypeOK /\ chain[1] \notin unreadable
    /\ UniqueIds(files) /\ Counted
    /\ ~ cut => \A c \in Clusters : c \in free \/ \E k \in DOMAIN chain : chain[k] = c

(* The entries found are free, and the one before them is not.             *)
SearchRight ==
    search.state \in {"search", "found"} =>
       /\ search.consecutive = 0 => search.pos = -1
       /\ search.consecutive > 0 =>
             /\ search.pos \in Whole
             /\ \A q \in search.start .. search.pos : IsFree(Dir[q])
             /\ search.start = 0 \/ ~ IsFree(Dir[search.start - 1])
       /\ Parts[search.name] = 0 => search.alias = <<Stem[search.name], 0>>

Sound == /\ Quiet(Dir) /\ Holds(Dir, files) /\ (~ orphaned => Named(Dir, files))
         /\ SearchRight

Inv == Shaped /\ (~ misplaced /\ ~ cut => Sound)

LEMMA DirIs ==
    ASSUME TypeOK
    PROVE  /\ Len(chain) * Slots \in Nat /\ Whole = 0 .. Len(chain) * Slots - 1
           /\ Dir \in [Whole -> Entries] /\ DOMAIN Dir = Whole
           /\ \A p \in Whole : At(p) = Dir[p]
           /\ NoTwice(chain) /\ chain \in Seq(Clusters) /\ entry \in Contents
           /\ \A f \in files : f \in Files /\ f.name \in Names /\ f.id \in 1 .. MaxFiles
<1>1. chain \in Seq(Clusters) /\ entry \in Contents /\ NoTwice(chain)
  BY DEF TypeOK, Contents, NoTwice
<1>2. Len(chain) * Slots \in Nat /\ Whole = 0 .. Len(chain) * Slots - 1
  BY <1>1, LengthIs DEF Whole
<1>3. Dir \in [Whole -> Entries] /\ \A p \in Whole : At(p) = Dir[p]
  BY <1>1, <1>2, ContentType DEF Dir, At
<1>4. \A f \in files : f \in Files /\ f.name \in Names /\ f.id \in 1 .. MaxFiles
  BY DEF TypeOK, Files
<1> QED BY <1>1, <1>2, <1>3, <1>4

LEMMA ReadableIs ==
    ASSUME TypeOK, chain[1] \notin unreadable
    PROVE  /\ Readable \subseteq Whole /\ Whole \subseteq Nat
           /\ \A p \in Readable, q \in Whole : q <= p => q \in Readable
           /\ LastRead \in Nat /\ LastRead >= 1 /\ LastRead <= Len(chain)
           /\ LastRead * Slots \in Nat
           /\ ~ (LastRead < Len(chain)) => Readable = Whole
<1>1. chain \in Seq(Clusters) /\ Len(chain) > 0
  BY DEF TypeOK
<1>2. LastRead \in 1 .. Len(chain) /\ Readable \subseteq Whole /\ Whole \subseteq Nat
  BY <1>1, LastReadIs
<1>3. LastRead \in Nat /\ LastRead >= 1 /\ LastRead <= Len(chain) /\ Len(chain) \in Nat
  BY <1>1, <1>2
<1>4. LastRead * Slots \in Nat
  BY <1>3, SlotsAre, SMTT(30)
<1>5. \A p \in Readable, q \in Whole : q <= p => q \in Readable
  BY <1>2, <1>4 DEF Readable
<1>6. ~ (LastRead < Len(chain)) => Readable = Whole
  BY <1>3 DEF Readable, Whole
<1> QED BY <1>2, <1>3, <1>4, <1>5, <1>6

(* Nothing is hidden behind an end.                                        *)
LEMMA AllSeen ==
    ASSUME TypeOK, chain[1] \notin unreadable, Quiet(Dir)
    PROVE  /\ \A p \in Whole : p \in ShortsIn(Whole) <=> IsShort(Dir[p])
           /\ \A p : p \in ShortsIn(Readable) <=> p \in Readable /\ IsShort(Dir[p])
           /\ ShortsIn(Readable) \subseteq ShortsIn(Whole) /\ ShortsIn(Whole) \subseteq Whole
<1>1. /\ DOMAIN Dir = Whole /\ Whole \subseteq Nat /\ Readable \subseteq Whole
      /\ \A p \in Whole : At(p) = Dir[p]
  BY DirIs, ReadableIs
<1>2. ASSUME NEW P \in SUBSET Whole, NEW p \in P, IsShort(Dir[p])
      PROVE  p \in ShortsIn(P)
  <2>1. ASSUME NEW q \in P, q < p + 1, At(q).kind = "end"
        PROVE  FALSE
    <3>1. q \in Nat /\ p \in Nat /\ q <= p /\ Dir[q].kind = "end"
      BY <1>1, <2>1
    <3>2. Dir[p] = End
      BY <1>1, <3>1 DEF Quiet
    <3> QED BY <1>2, <3>2 DEF IsShort, End
  <2> QED BY <1>1, <1>2, <2>1 DEF ShortsIn, Scanned, Before, IsShort
<1>3. ASSUME NEW P \in SUBSET Whole, NEW p \in ShortsIn(P)
      PROVE  p \in P /\ IsShort(Dir[p])
  BY <1>1 DEF ShortsIn, Scanned, IsShort
<1> QED BY <1>1, <1>2, <1>3

-----------------------------------------------------------------------------
(* The parts before a short entry.                                         *)
LEMMA LongStartIs ==
    ASSUME TypeOK, NEW p \in Whole
    PROVE  /\ LongStart(p) \in 0 .. p
           /\ \A q \in LongStart(p) .. p - 1 : q \in Whole /\ Dir[q].kind = "long"
           /\ LongStart(p) # p => LongStart(p) \in Before(p, Whole) /\ IsRun(LongStart(p), p)
<1>1. /\ Len(chain) * Slots \in Nat /\ Whole = 0 .. Len(chain) * Slots - 1
      /\ \A q \in Whole : At(q) = Dir[q]
  BY DirIs
<1>2. CASE ~ \E s \in Before(p, Whole) : IsRun(s, p)
  <2>1. LongStart(p) = p
    BY <1>2, Zenon DEF LongStart
  <2> QED BY <1>1, <2>1
<1>3. CASE \E s \in Before(p, Whole) : IsRun(s, p)
  <2>1. LongStart(p) \in Before(p, Whole) /\ IsRun(LongStart(p), p)
    BY <1>3, Zenon DEF LongStart
  <2>2. PICK s \in Whole : s = LongStart(p) /\ s < p
    BY <2>1 DEF Before
  <2>3. \A q \in s .. p - 1 : q \in Whole /\ At(q).kind = "long"
    BY <1>1, <2>1, <2>2 DEF IsRun
  <2> QED BY <1>1, <2>1, <2>2, <2>3
<1> QED BY <1>2, <1>3

LEMMA NamedStart ==
    ASSUME TypeOK, UniqueIds(files), Holds(Dir, files), Named(Dir, files),
           NEW p \in Whole, NEW f \in files, IsAt(Dir, p, f)
    PROVE  /\ LongStart(p) = p - Parts[f.name]
           /\ Listed(p) = NameOf(f.name)
<1>1. /\ Len(chain) * Slots \in Nat /\ Whole = 0 .. Len(chain) * Slots - 1
      /\ \A q \in Whole : At(q) = Dir[q]
      /\ DOMAIN Dir = Whole /\ f.name \in Names
  BY DirIs
<1>2. PICK w \in Nat : w = Parts[f.name]
  BY <1>1, PartsAre
<1>3. /\ p - w >= 0
      /\ \A q \in p - w .. p - 1 :
            /\ Dir[q].kind = "long" /\ Dir[q].part = p - q
            /\ Dir[q].first = (q = p - w)
            /\ Dir[q].sum = Dir[p].alias /\ Dir[q].name = f.name
      /\ w = 0 => f.alias = <<Stem[f.name], 0>>
  <2>1. HasParts(Dir, p, f)
    BY <1>1 DEF Named
  <2> QED BY <1>2, <2>1, Zenon DEF HasParts
<1>4. Dir[p].alias = f.alias
  <2>1. PICK g \in files : g.id = Dir[p].id /\ g.alias = Dir[p].alias
    BY <1>1 DEF Holds, IsAt
  <2>2. g = f
    BY <2>1 DEF IsAt, UniqueIds
  <2> QED BY <2>1, <2>2
<1>5. CASE w = 0
  <2>1. ASSUME NEW s \in Before(p, Whole), IsRun(s, p)
        PROVE  FALSE
    <3>1. s \in Whole /\ s < p
      BY DEF Before
    <3>2. PICK q \in Whole : q = p - 1 /\ q \in s .. p - 1
      BY <1>1, <3>1
    <3>3. Dir[q].kind = "long"
      BY <1>1, <2>1, <3>2 DEF IsRun
    <3>4. PICK x \in Whole, g \in files : IsAt(Dir, x, g) /\ q < x /\ x - Parts[g.name] <= q
      BY <1>1, <3>2, <3>3 DEF Named
    <3>5. HasParts(Dir, x, g) /\ g.name \in Names
      BY <1>1, <3>4, DirIs DEF Named
    <3>6. Parts[g.name] \in Nat
      BY <3>5, PartsAre
    <3>7. CASE x = p
      <4>1. g = f
        BY <3>4, <3>7 DEF IsAt, UniqueIds
      <4>2. Parts[g.name] = 0
        BY <1>2, <1>5, <4>1
      <4>3. p \in Nat /\ q = p - 1 /\ p - 0 <= q
        BY <1>1, <3>2, <3>4, <3>7, <4>2
      <4> QED BY <4>3
    <3>8. CASE x # p
      <4>1. p \in x - Parts[g.name] .. x - 1
        BY <1>1, <3>2, <3>4, <3>6, <3>8
      <4>2. Dir[p].kind = "long"
        BY <3>5, <4>1 DEF HasParts
      <4> QED BY <4>2 DEF IsAt, IsShort
    <3> QED BY <3>7, <3>8
  <2>2. LongStart(p) = p
    BY <2>1, Zenon DEF LongStart
  <2>3. Listed(p) = {f.alias} /\ NameOf(f.name) = {<<Stem[f.name], 0>>}
    BY <1>1, <1>2, <1>4, <1>5, <2>2, Zenon DEF Listed, NameOf
  <2>4. p - Parts[f.name] = p
    BY <1>1, <1>2, <1>5
  <2>5. f.alias = <<Stem[f.name], 0>>
    BY <1>3, <1>5
  <2> QED BY <2>2, <2>3, <2>4, <2>5, Zenon
<1>6. CASE w # 0
  <2>1. PICK t \in Whole : t = p - w
    BY <1>1, <1>2, <1>3
  <2>2. t < p /\ t \in Before(p, Whole)
    BY <1>1, <1>2, <1>6, <2>1 DEF Before
  <2>3. IsRun(t, p)
    <3>1. ASSUME NEW q \in t .. p - 1
          PROVE  /\ At(q).kind = "long" /\ At(q).part = p - q
                 /\ At(q).first = (q = t) /\ At(q).sum = At(p).alias
      <4>1. q \in Whole /\ At(q) = Dir[q] /\ At(p) = Dir[p]
        BY <1>1
      <4> QED BY <1>3, <2>1, <4>1, Zenon
    <3> QED BY <3>1, Zenon DEF IsRun
  <2>4. LongStart(p) \in Before(p, Whole) /\ IsRun(LongStart(p), p)
    BY <2>2, <2>3, Zenon DEF LongStart
  <2>5. PICK s \in Whole : s = LongStart(p) /\ s < p
    BY <2>4 DEF Before
  <2>6. s = t
    <3>1. ASSUME s # t PROVE FALSE
      <4>1. CASE s < t
        <5>1. t \in s .. p - 1 /\ t \in t .. p - 1
          BY <1>1, <2>2, <4>1
        <5>2. At(t).first = (t = s)
          BY <2>4, <2>5, <5>1, Zenon DEF IsRun
        <5>3. At(t).first = (t = t)
          BY <2>3, <5>1, Zenon DEF IsRun
        <5> QED BY <3>1, <5>2, <5>3, Zenon
      <4>2. CASE t < s
        <5>1. s \in s .. p - 1 /\ s \in t .. p - 1
          BY <1>1, <2>5, <4>2
        <5>2. At(s).first = (s = s)
          BY <2>4, <2>5, <5>1, Zenon DEF IsRun
        <5>3. At(s).first = (s = t)
          BY <2>3, <5>1, Zenon DEF IsRun
        <5> QED BY <3>1, <5>2, <5>3, Zenon
      <4> QED BY <1>1, <3>1, <4>1, <4>2
    <3> QED BY <3>1
  <2>7. Listed(p) = {f.name}
    <3>4. LongStart(p) = t /\ t # p
      BY <1>1, <2>2, <2>5, <2>6
    <3>1. Listed(p) = {At(q).name : q \in t .. p - 1}
      BY <3>4, Zenon DEF Listed
    <3>2. \A q \in t .. p - 1 : At(q).name = f.name
      BY <1>1, <1>3, <2>1
    <3>3. t \in t .. p - 1
      BY <1>1, <2>2
    <3> QED BY <3>1, <3>2, <3>3
  <2>8. NameOf(f.name) = {f.name}
    BY <1>2, <1>6 DEF NameOf
  <2> QED BY <1>2, <2>1, <2>5, <2>6, <2>7, <2>8
<1> QED BY <1>5, <1>6

-----------------------------------------------------------------------------
(* What the invariant says.                                                *)
LEMMA InvClusters == Inv => ClustersKept
<1> SUFFICES ASSUME Inv PROVE ClustersKept
  OBVIOUS
<1>1. TypeOK /\ (~ cut => \A c \in Clusters : c \in free \/ \E k \in DOMAIN chain : chain[k] = c)
  BY DEF Inv, Shaped
<1>2. /\ \A k \in DOMAIN chain : chain[k] \notin free /\ chain[k] \in Clusters
      /\ free \subseteq Clusters
  BY <1>1 DEF TypeOK
<1> QED BY <1>1, <1>2 DEF ClustersKept

LEMMA InvEnd == Inv => NothingAfterEnd
<1> SUFFICES ASSUME Inv, ~ misplaced, ~ cut, NEW p \in Whole, p \notin Scanned(Whole)
             PROVE  At(p) = End
  BY DEF NothingAfterEnd
<1>1. TypeOK /\ Quiet(Dir)
  BY DEF Inv, Shaped, Sound
<1>2. /\ Len(chain) * Slots \in Nat /\ Whole = 0 .. Len(chain) * Slots - 1
      /\ DOMAIN Dir = Whole /\ \A q \in Whole : At(q) = Dir[q]
  BY <1>1, DirIs
<1>3. PICK q \in Whole : q < p + 1 /\ At(q).kind = "end"
  BY DEF Scanned, Before
<1>4. q <= p
  BY <1>2, <1>3
<1> QED BY <1>1, <1>2, <1>3, <1>4 DEF Quiet

LEMMA InvFiles == Inv => FilesKept
<1> SUFFICES ASSUME Inv, ~ misplaced, ~ cut PROVE FilesKept
  BY DEF FilesKept, EntriesKept, NamesKept
<1>1. /\ TypeOK /\ chain[1] \notin unreadable /\ UniqueIds(files)
      /\ Quiet(Dir) /\ Holds(Dir, files) /\ (~ orphaned => Named(Dir, files))
  BY DEF Inv, Shaped, Sound
<1>2. DOMAIN Dir = Whole /\ \A p \in Whole : At(p) = Dir[p]
  BY <1>1, DirIs
<1>3. /\ \A p \in Whole : p \in ShortsIn(Whole) <=> IsShort(Dir[p])
      /\ ShortsIn(Whole) \subseteq Whole
  BY <1>1, AllSeen
<1>4. ASSUME NEW p \in ShortsIn(Whole)
      PROVE  \E f \in files : f.id = At(p).id /\ f.alias = At(p).alias
  BY <1>1, <1>2, <1>3 DEF Holds
<1>5. ASSUME NEW f \in files
      PROVE  \E p \in ShortsIn(Whole) : At(p).id = f.id /\ At(p).alias = f.alias
  BY <1>1, <1>2, <1>3 DEF Holds
<1>6. {[id |-> At(p).id, alias |-> At(p).alias] : p \in ShortsIn(Whole)}
         = {[id |-> f.id, alias |-> f.alias] : f \in files}
  <2> DEFINE listed == {[id |-> At(p).id, alias |-> At(p).alias] : p \in ShortsIn(Whole)}
             created == {[id |-> f.id, alias |-> f.alias] : f \in files}
  <2>1. ASSUME NEW x \in listed PROVE x \in created
    <3>1. PICK p \in ShortsIn(Whole) : x = [id |-> At(p).id, alias |-> At(p).alias]
      OBVIOUS
    <3>2. PICK f \in files : f.id = At(p).id /\ f.alias = At(p).alias
      BY <1>4
    <3> QED BY <3>1, <3>2
  <2>2. ASSUME NEW x \in created PROVE x \in listed
    <3>1. PICK f \in files : x = [id |-> f.id, alias |-> f.alias]
      OBVIOUS
    <3>2. PICK p \in ShortsIn(Whole) : At(p).id = f.id /\ At(p).alias = f.alias
      BY <1>5
    <3> QED BY <3>1, <3>2
  <2> QED BY <2>1, <2>2
<1>7. \A p \in ShortsIn(Whole), q \in ShortsIn(Whole) : At(p).id = At(q).id => p = q
  BY <1>1, <1>2, <1>3 DEF Holds
<1>8. EntriesKept
  BY <1>6, <1>7 DEF EntriesKept
<1>9. ASSUME ~ orphaned, NEW p \in ShortsIn(Whole), NEW f \in files, At(p).id = f.id
      PROVE  Listed(p) = NameOf(f.name)
  <2>1. p \in Whole /\ IsAt(Dir, p, f)
    BY <1>2, <1>3, <1>9 DEF IsAt
  <2> QED BY <1>1, <1>9, <2>1, NamedStart
<1> QED BY <1>8, <1>9 DEF FilesKept, NamesKept

-----------------------------------------------------------------------------
(* A directory is empty at first.                                          *)
LEMMA Starts == Init => Inv
<1> SUFFICES ASSUME Init PROVE Inv
  OBVIOUS
<1>1. First(Clusters) \in Clusters
  BY EntriesAssumption, LeastNumber
<1>2. PICK c \in Clusters : c = First(Clusters)
  BY <1>1
<1>3. /\ chain = <<c>> /\ chain \in Seq(Clusters) /\ Len(chain) = 1 /\ chain[1] = c
      /\ DOMAIN chain = {1} /\ free = Clusters \ {c}
  BY <1>2 DEF Init
<1>4. \E a \in Aliases : TRUE
  <2>1. PICK n \in Names : TRUE
    BY EntriesAssumption
  <2>2. 0 \in Numbers
    BY EntriesAssumption DEF Numbers
  <2>3. <<Stem[n], 0>> \in Aliases
    BY <2>2 DEF Aliases
  <2> QED BY <2>3
<1>5. Old \in Entries /\ End \in Entries
  <2>1. PICK a \in Aliases : a = (CHOOSE b \in Aliases : TRUE)
    BY <1>4, Zenon
  <2>2. 1 \in 1 .. MaxFiles
    BY EntriesAssumption
  <2>3. Old = Short(a, 1)
    BY <2>1, Zenon DEF Old, Short
  <2>4. Old \in {Short(x, id) : x \in Aliases, id \in 1 .. MaxFiles}
    BY <2>2, <2>3
  <2> QED BY <2>4 DEF Entries
<1>6. entry = [d \in Clusters |-> [i \in Indices |-> IF d = c THEN End ELSE Old]]
  BY <1>3 DEF Init
<1>7. entry \in [Clusters -> [Indices -> Entries]]
  <2>1. \A d \in Clusters : [i \in Indices |-> IF d = c THEN End ELSE Old] \in [Indices -> Entries]
    BY <1>5
  <2> QED BY <1>6, <2>1
<1>8. search = Idle /\ files = {} /\ chain[1] \notin unreadable
  BY DEF Init
<1>9. TypeOK
  <2>1. \A k \in DOMAIN chain : /\ chain[k] \notin free
                                /\ \A j \in DOMAIN chain : chain[j] = chain[k] => j = k
    BY <1>3
  <2> QED BY <1>3, <1>7, <1>8, <2>1 DEF TypeOK
<1>10. search.state \notin {"search", "found"}
  BY <1>8 DEF Idle
<1>11. Shaped
  BY <1>3, <1>8, <1>9, <1>10 DEF Shaped, UniqueIds, Counted
<1>12. ASSUME NEW p \in Whole PROVE Dir[p] = End
  <2>1. p \in 0 .. Len(chain) * Slots - 1
    BY DEF Whole
  <2>2. PICK j \in DOMAIN chain, i \in Indices : j = p \div Slots + 1 /\ i = p % Slots
    BY <1>3, <2>1, PlaceOf
  <2>3. Dir[p] = entry[c][i]
    <3>1. chain[j] = c
      BY <1>3, <2>2
    <3> QED BY <1>9, <2>2, <3>1, DirIs DEF At
  <2> QED BY <1>6, <2>3
<1>13. Sound
  <2>1. DOMAIN Dir = Whole
    BY <1>9, DirIs
  <2>2. \A p \in Whole : ~ IsShort(Dir[p]) /\ Dir[p].kind # "long" /\ Dir[p] = End
    BY <1>12 DEF End, IsShort
  <2>3. Quiet(Dir) /\ Holds(Dir, files) /\ Named(Dir, files)
    BY <1>8, <2>1, <2>2 DEF Quiet, Holds, Named
  <2> QED BY <1>10, <2>3 DEF Sound, SearchRight
<1> QED BY <1>11, <1>13 DEF Inv

-----------------------------------------------------------------------------
(* Other work, and what leaves the entries alone.                          *)
LEMMA NotSearching ==
    ASSUME Inv, TypeOK', search'.state \notin {"search", "found"},
           UNCHANGED <<chain, entry, free, files, misplaced, cut, orphaned>>,
           chain[1] \notin unreadable'
    PROVE  Inv'
<1>1. Shaped'
  BY DEF Inv, Shaped, UniqueIds, Counted
<1>2. Dir' = Dir
  BY DEF Dir, Content
<1>3. ~ misplaced /\ ~ cut => Sound'
  BY <1>2 DEF Inv, Sound, SearchRight
<1> QED BY <1>1, <1>3 DEF Inv

LEMMA Resting ==
    ASSUME Inv, search' = Idle \/ (search' = Cleaning(1)),
           UNCHANGED <<chain, entry, free, files, misplaced, cut, orphaned>>,
           chain[1] \notin unreadable'
    PROVE  Inv'
<1>1. TypeOK
  BY DEF Inv, Shaped
<1>2. TypeOK'
  BY <1>1 DEF TypeOK, Cleaning
<1>3. search'.state \notin {"search", "found"}
  BY DEF Idle, Cleaning
<1> QED BY <1>2, <1>3, NotSearching

LEMMA LookingSound ==
    ASSUME Inv, NEW n \in Names, NEW alias \in Aliases, Ids # {},
           Parts[n] = 0 => alias = <<Stem[n], 0>>,
           Looking(n, alias)
    PROVE  Inv'
<1>1. /\ search' = Search("search", n, alias, -1, -1, 0)
      /\ UNCHANGED <<chain, entry, free, fixed, unreadable, files, misplaced, cut, orphaned>>
  BY DEF Looking, ghosts
<1>2. PICK s : s = search' /\ s = Search("search", n, alias, -1, -1, 0)
  BY <1>1
<1>3. /\ s.state = "search" /\ s.name = n /\ s.alias = alias /\ s.pos = -1 /\ s.start = -1
      /\ s.consecutive = 0
  BY <1>2 DEF Search
<1>4. TypeOK'
  <2>1. s \in [state : {"search", "found"}, name : Names, alias : Aliases,
               pos : Int, start : Int, consecutive : Nat]
    BY <1>2 DEF Search
  <2> QED BY <1>1, <1>2, <2>1 DEF Inv, Shaped, TypeOK
<1>5. Ids' = Ids /\ Dir' = Dir
  BY <1>1 DEF Ids, Dir, Content
<1>6. Counted'
  BY <1>2, <1>3, <1>5, PartsAre DEF Counted
<1>7. Shaped'
  BY <1>1, <1>4, <1>6 DEF Inv, Shaped, UniqueIds
<1>8. SearchRight'
  BY <1>2, <1>3 DEF SearchRight
<1>9. ~ misplaced /\ ~ cut => Sound'
  BY <1>1, <1>5, <1>8 DEF Inv, Sound
<1> QED BY <1>1, <1>7, <1>9 DEF Inv

(* There are more numbers than files, so one is left for the short name.   *)
LEMMA AliasIs ==
    ASSUME Inv, ~ misplaced, ~ cut, NEW n \in Names
    PROVE  Alias(n) \in Aliases /\ (Parts[n] = 0 => Alias(n) = <<Stem[n], 0>>)
<1>1. /\ TypeOK /\ chain[1] \notin unreadable /\ Quiet(Dir) /\ Holds(Dir, files)
  BY DEF Inv, Shaped, Sound
<1>2. /\ DOMAIN Dir = Whole /\ Readable \subseteq Whole /\ \A p \in Whole : At(p) = Dir[p]
      /\ \A p : p \in ShortsIn(Readable) <=> p \in Readable /\ IsShort(Dir[p])
  BY <1>1, DirIs, ReadableIs, AllSeen
<1>3. MaxFiles \in Nat /\ MaxFiles >= 1 /\ Numbers = 0 .. MaxFiles
  BY EntriesAssumption DEF Numbers
<1>4. \A k \in Numbers : <<Stem[n], k>> \in Aliases
  BY DEF Aliases
<1>5. CASE Parts[n] = 0
  BY <1>3, <1>4, <1>5 DEF Alias
<1>6. CASE Parts[n] # 0
  <2> DEFINE used(k) == FoundShort(<<Stem[n], k>>)
             left == {k \in Numbers : used(k) = {}}
  <2>1. ASSUME NEW k \in Numbers, NEW p \in used(k)
        PROVE  /\ p \in Whole /\ IsShort(Dir[p]) /\ Dir[p].alias = <<Stem[n], k>>
               /\ Dir[p].id \in 1 .. MaxFiles
    <3>1. p \in Whole /\ IsShort(Dir[p]) /\ Dir[p].alias = <<Stem[n], k>>
      BY <1>2 DEF FoundShort
    <3>2. PICK f \in files : f.id = Dir[p].id
      BY <1>1, <1>2, <3>1 DEF Holds
    <3> QED BY <1>1, <3>1, <3>2, DirIs
  <2>2. left # {}
    <3>1. ASSUME left = {} PROVE FALSE
      <4> DEFINE F == [k \in Numbers |-> Dir[CHOOSE p \in used(k) : TRUE].id]
      <4>1. ASSUME NEW k \in Numbers PROVE (CHOOSE p \in used(k) : TRUE) \in used(k)
        <5>1. used(k) # {}
          BY <3>1
        <5> QED BY <5>1
      <4> HIDE DEF used
      <4>2. F \in [Numbers -> 1 .. MaxFiles]
        BY <2>1, <4>1
      <4>3. /\ IsFiniteSet(Numbers) /\ Cardinality(Numbers) = MaxFiles + 1
            /\ IsFiniteSet(1 .. MaxFiles) /\ Cardinality(1 .. MaxFiles) = MaxFiles
        BY <1>3, FS_Interval
      <4>4. PICK k \in Numbers, l \in Numbers : k # l /\ F[k] = F[l]
        <5>1. Cardinality(1 .. MaxFiles) < Cardinality(Numbers)
          BY <1>3, <4>3
        <5> HIDE DEF F
        <5> QED BY <4>2, <4>3, <5>1, FS_PigeonHole
      <4>5. PICK p \in used(k), q \in used(l) : Dir[p].id = Dir[q].id
        BY <4>1, <4>4
      <4>6. p = q
        BY <1>1, <1>2, <2>1, <4>5 DEF Holds
      <4>7. <<Stem[n], k>> = <<Stem[n], l>>
        BY <2>1, <4>5, <4>6
      <4> QED BY <4>4, <4>7
    <3> QED BY <3>1
  <2>3. PICK k \in left : \A j \in left : k <= j
    <3>1. left \in SUBSET Nat
      BY <1>3
    <3> QED BY <2>2, <3>1, LeastNumber
  <2>4. PICK a \in Aliases : a = <<Stem[n], k>> /\ a[1] = Stem[n] /\ a[2] = k
    BY <1>4, <2>3
  <2>5. \A j \in Numbers : j < a[2] => FoundShort(<<Stem[n], j>>) # {}
    BY <1>3, <2>3, <2>4
  <2>6. FoundShort(a) = {}
    BY <2>3, <2>4
  <2>7. \E b \in Aliases :
           /\ b[1] = Stem[n] /\ FoundShort(b) = {}
           /\ \A j \in Numbers : j < b[2] => FoundShort(<<Stem[n], j>>) # {}
    BY <2>4, <2>5, <2>6
  <2> QED BY <1>6, <2>7, Zenon DEF Alias
<1> QED BY <1>5, <1>6

-----------------------------------------------------------------------------
(* A free entry was found, or added.                                       *)
LEMMA SearchIs ==
    ASSUME TypeOK, search.state \in {"search", "found"}
    PROVE  /\ search \in [state : {"search", "found"}, name : Names, alias : Aliases,
                          pos : Int, start : Int, consecutive : Nat]
           /\ search.name \in Names /\ search.alias \in Aliases /\ search.pos \in Int
           /\ search.start \in Int /\ search.consecutive \in Nat
           /\ Parts[search.name] \in Nat /\ Parts[search.name] <= MaxParts
<1>1. PICK s : s = search /\ s \in {Idle} \cup [state : {"cleaning"}, at : Nat \ {0}]
                   \cup [state : {"search", "found"}, name : Names, alias : Aliases,
                         pos : Int, start : Int, consecutive : Nat]
  BY DEF TypeOK
<1>2. s \in [state : {"search", "found"}, name : Names, alias : Aliases,
             pos : Int, start : Int, consecutive : Nat]
  BY <1>1 DEF Idle
<1>3. /\ s.name \in Names /\ s.alias \in Aliases /\ s.pos \in Int
      /\ s.start \in Int /\ s.consecutive \in Nat
  BY <1>2
<1> QED BY <1>1, <1>2, <1>3, PartsAre

LEMMA Continued ==
    ASSUME TypeOK, Counted, search.state = "search", NEW p \in Nat, Continue(p)
    PROVE  /\ search' \in [state : {"search", "found"}, name : Names, alias : Aliases,
                           pos : Int, start : Int, consecutive : Nat]
           /\ search'.name = search.name /\ search'.alias = search.alias
           /\ search'.pos = p /\ search'.consecutive > 0
           /\ search'.start = p - search'.consecutive + 1 /\ search'.start >= 0
           /\ search'.state = "search" => search'.consecutive <= Parts[search.name]
           /\ search'.state = "found" => search'.consecutive = Parts[search.name] + 1
           /\ IF search.consecutive > 0 /\ search.pos + 1 = p
              THEN search'.start = search.start ELSE search'.start = p
<1>1. PICK w \in Nat : w = Parts[search.name]
  BY SearchIs
<1>2. PICK s : s = search
  OBVIOUS
<1>3. /\ s \in [state : {"search", "found"}, name : Names, alias : Aliases,
                pos : Int, start : Int, consecutive : Nat]
      /\ s.name \in Names /\ s.alias \in Aliases /\ s.pos \in Int
      /\ s.start \in Int /\ s.consecutive \in Nat
  BY <1>2, SearchIs
<1>4. /\ s.consecutive <= w
      /\ s.consecutive > 0 => s.start = s.pos - s.consecutive + 1 /\ s.start >= 0
  BY <1>1, <1>2 DEF Counted
<1>5. PICK next \in BOOLEAN : next = (s.consecutive > 0 /\ s.pos + 1 = p)
  OBVIOUS
<1>6. PICK c \in Nat : c = IF next THEN s.consecutive + 1 ELSE 1
  BY <1>3
<1>7. PICK x, y : x = (IF c > w THEN "found" ELSE "search") /\ y = (IF next THEN s.start ELSE p)
  OBVIOUS
<1>12. PICK t : /\ t = search'
                /\ t = [s EXCEPT !.state = x, !.pos = p, !.start = y, !.consecutive = c]
  <2>2. search' = [s EXCEPT !.state = x, !.pos = p, !.start = y, !.consecutive = c]
    <3>1. CASE next
      <4>1. search.consecutive > 0 /\ search.pos + 1 = p
        BY <1>2, <1>5, <3>1, Zenon
      <4>2. c = search.consecutive + 1 /\ y = search.start
        BY <1>2, <1>6, <1>7, <3>1, Zenon
      <4> QED BY <1>1, <1>2, <1>7, <4>1, <4>2, Zenon DEF Continue
    <3>2. CASE ~ next
      <4>1. ~ (search.consecutive > 0 /\ search.pos + 1 = p)
        BY <1>2, <1>5, <3>2, Zenon
      <4>2. c = 1 /\ y = p
        BY <1>2, <1>6, <1>7, <3>2, Zenon
      <4> QED BY <1>1, <1>2, <1>7, <4>1, <4>2, Zenon DEF Continue
    <3> QED BY <3>1, <3>2
  <2> QED BY <2>2
<1>8. y \in Int /\ x \in {"search", "found"}
  BY <1>3, <1>7
<1>9. /\ t \in [state : {"search", "found"}, name : Names, alias : Aliases,
                pos : Int, start : Int, consecutive : Nat]
      /\ t.state = x /\ t.name = s.name /\ t.alias = s.alias /\ t.pos = p /\ t.start = y
      /\ t.consecutive = c
  <2>1. t = [state |-> x, name |-> s.name, alias |-> s.alias, pos |-> p, start |-> y,
             consecutive |-> c]
    BY <1>3, <1>12
  <2> QED BY <1>3, <1>8, <2>1
<1>10. c > 0 /\ y = p - c + 1 /\ y >= 0
  <2>1. CASE next
    <3>1. s.consecutive > 0 /\ s.pos + 1 = p
      BY <1>5, <2>1, Zenon
    <3>2. c = s.consecutive + 1 /\ y = s.start
      BY <1>6, <1>7, <2>1, Zenon
    <3> QED BY <1>3, <1>4, <3>1, <3>2
  <2>2. CASE ~ next
    BY <1>6, <1>7, <2>2
  <2> QED BY <2>1, <2>2
<1>11. /\ x = "search" => c <= w
       /\ x = "found" => c = w + 1
  <2>1. c <= w + 1
    BY <1>3, <1>4, <1>6
  <2> QED BY <1>7, <2>1
<1> QED BY <1>1, <1>2, <1>5, <1>7, <1>9, <1>10, <1>11, <1>12

LEMMA ContinuedRight ==
    ASSUME TypeOK, Counted, SearchRight, search.state = "search",
           NEW p \in Nat, Continue(p), search.pos < p,
           NEW e, \A q \in Whole : e[q] = Dir[q], IsFree(e[p]),
           \A q \in 0 .. p - 1 : search.pos < q => ~ IsFree(e[q])
    PROVE  /\ \A q \in search'.start .. search'.pos : IsFree(e[q])
           /\ search'.start = 0 \/ ~ IsFree(e[search'.start - 1])
           /\ Parts[search'.name] = 0 => search'.alias = <<Stem[search'.name], 0>>
<1>1. Len(chain) * Slots \in Nat /\ Whole = 0 .. Len(chain) * Slots - 1
  BY DirIs
<1>2. PICK x \in Int, a \in Int, c \in Nat :
         x = search.pos /\ a = search.start /\ c = search.consecutive
  BY SearchIs
<1>3. /\ c = 0 => x = -1
      /\ c > 0 => /\ x \in Whole /\ a = x - c + 1 /\ a >= 0
                  /\ \A q \in a .. x : IsFree(Dir[q])
                  /\ a = 0 \/ ~ IsFree(Dir[a - 1])
  BY <1>2 DEF SearchRight, Counted
<1>4. PICK t : t = search'
  OBVIOUS
<1>5. /\ t.name = search.name /\ t.alias = search.alias /\ t.pos = p
      /\ IF c > 0 /\ x + 1 = p THEN t.start = a ELSE t.start = p
  BY <1>2, <1>4, Continued
<1>6. Parts[t.name] = 0 => t.alias = <<Stem[t.name], 0>>
  BY <1>5 DEF SearchRight
<1>7. CASE c > 0 /\ x + 1 = p
  <2>1. t.start = a
    BY <1>5, <1>7
  <2>2. ASSUME NEW q \in a .. p PROVE IsFree(e[q])
    <3>1. CASE q = p
      BY <3>1
    <3>2. CASE q # p
      <4>1. q \in Whole /\ q \in a .. x
        BY <1>1, <1>3, <1>7, <3>2
      <4> QED BY <1>3, <1>7, <4>1
    <3> QED BY <3>1, <3>2
  <2>3. a = 0 \/ ~ IsFree(e[a - 1])
    <3>1. ASSUME a # 0 PROVE a - 1 \in Whole
      BY <1>1, <1>3, <1>7, <3>1
    <3> QED BY <1>3, <1>7, <3>1
  <2> QED BY <1>4, <1>5, <1>6, <2>1, <2>2, <2>3
<1>8. CASE ~ (c > 0 /\ x + 1 = p)
  <2>1. t.start = p
    BY <1>5, <1>8
  <2>2. \A q \in p .. p : IsFree(e[q])
    OBVIOUS
  <2>3. p = 0 \/ ~ IsFree(e[p - 1])
    <3>1. ASSUME p # 0 PROVE p - 1 \in 0 .. p - 1 /\ x < p - 1
      <4>1. x # p - 1
        BY <1>3, <1>8, <3>1
      <4>2. x < p
        BY <1>2
      <4> QED BY <3>1, <4>1, <4>2
    <3> QED BY <1>2, <3>1
  <2> QED BY <1>4, <1>5, <1>6, <2>1, <2>2, <2>3
<1> QED BY <1>7, <1>8

LEMMA GivenIs ==
    ASSUME NEW q \in Nat
    PROVE  Given(q) \in Nat
<1>1. CASE q > 0 /\ q % Slots = 0
  <2>1. PICK a \in Nat, i \in Indices : i = q % Slots /\ q = a * Slots + i
    BY Divided
  <2>2. a > 0
    <3>1. ASSUME a = 0 PROVE q = 0
      <4>1. 0 * Slots = 0
        BY SlotsAre, SMTT(30)
      <4> QED BY <1>1, <2>1, <3>1, <4>1
    <3> QED BY <1>1, <2>1, <3>1
  <2>3. 0 * Slots + Slots <= a * Slots /\ 0 * Slots \in Nat /\ a * Slots \in Nat
    BY <2>2, Blocks
  <2>4. q - Slots \in Nat
    BY <1>1, <2>1, <2>3, SlotsAre
  <2> QED BY <1>1, <2>4 DEF Given
<1>2. CASE ~ (q > 0 /\ q % Slots = 0)
  BY <1>2 DEF Given
<1> QED BY <1>1, <1>2

LEMMA FindFreeSound == ASSUME Inv, FindFree PROVE Inv'
<1>1. /\ TypeOK /\ chain[1] \notin unreadable /\ Counted /\ search.state = "search"
      /\ FreeAfter(search.pos) # {}
      /\ UNCHANGED <<chain, entry, free, fixed, unreadable, files, cut, orphaned>>
  BY DEF Inv, Shaped, FindFree
<1>2. /\ Len(chain) * Slots \in Nat /\ Whole = 0 .. Len(chain) * Slots - 1
      /\ DOMAIN Dir = Whole /\ \A q \in Whole : At(q) = Dir[q]
  BY <1>1, DirIs
<1>3. /\ Readable \subseteq Whole /\ Whole \subseteq Nat
      /\ \A p \in Readable, q \in Whole : q <= p => q \in Readable
  BY <1>1, ReadableIs
<1>4. PICK q \in FreeAfter(search.pos) : /\ q = First(FreeAfter(search.pos))
                                        /\ \A j \in FreeAfter(search.pos) : q <= j
  <2>1. FreeAfter(search.pos) \in SUBSET Nat
    BY <1>3 DEF FreeAfter
  <2> QED BY <1>1, <2>1, LeastNumber
<1>5. /\ q \in Nat /\ q \in Whole /\ q \in Readable /\ search.pos < q /\ IsFree(Dir[q])
  BY <1>2, <1>3, <1>1, SearchIs DEF FreeAfter, Exists, IsFree
<1>6. Continue(Given(q)) /\ misplaced' = (misplaced \/ Given(q) # q)
  BY <1>4 DEF FindFree
<1>7. PICK p \in Nat : p = Given(q)
  BY <1>5, GivenIs
<1>8. Continue(p)
  BY <1>6, <1>7
<1>9. /\ search' \in [state : {"search", "found"}, name : Names, alias : Aliases,
                      pos : Int, start : Int, consecutive : Nat]
      /\ search'.name = search.name
      /\ search'.pos = p /\ search'.consecutive > 0
      /\ search'.start = p - search'.consecutive + 1 /\ search'.start >= 0
      /\ search'.state = "search" => search'.consecutive <= Parts[search.name]
      /\ search'.state = "found" => search'.consecutive = Parts[search.name] + 1
  BY <1>1, <1>8, Continued
<1>10. TypeOK'
  BY <1>1, <1>9 DEF TypeOK
<1>11. Ids' = Ids /\ Dir' = Dir /\ Whole' = Whole
  BY <1>1 DEF Ids, Dir, Content, Whole
<1>12. Counted'
  BY <1>1, <1>9, <1>11 DEF Counted
<1>13. Shaped'
  BY <1>1, <1>10, <1>12 DEF Inv, Shaped, UniqueIds
<1>14. ASSUME ~ misplaced', ~ cut' PROVE Sound'
  <2>1. Sound /\ p = q
    BY <1>1, <1>6, <1>7, <1>14 DEF Inv
  <2>2. ASSUME NEW r \in 0 .. p - 1, search.pos < r PROVE ~ IsFree(Dir[r])
    <3>1. r \in Whole /\ r \in Readable /\ r < q
      BY <1>2, <1>3, <1>5, <2>1
    <3>2. r \notin FreeAfter(search.pos)
      <4>1. ~ (q <= r)
        BY <1>5, <3>1
      <4> QED BY <1>4, <4>1
    <3> QED BY <1>1, <1>2, <2>2, <3>1, <3>2, SearchIs DEF FreeAfter, Exists, IsFree
  <2>3. /\ \A r \in search'.start .. search'.pos : IsFree(Dir[r])
        /\ search'.start = 0 \/ ~ IsFree(Dir[search'.start - 1])
        /\ Parts[search'.name] = 0 => search'.alias = <<Stem[search'.name], 0>>
    BY <1>1, <1>5, <1>8, <2>1, <2>2, ContinuedRight DEF Sound
  <2>4. SearchRight'
    BY <1>5, <1>9, <1>11, <2>1, <2>3 DEF SearchRight
  <2> QED BY <1>1, <1>11, <2>1, <2>4 DEF Sound
<1> QED BY <1>13, <1>14 DEF Inv

LEMMA ExtendedChain ==
    ASSUME TypeOK, chain[1] \notin unreadable, NEW c \in free,
           NEW longer, longer = Append(SubSeq(chain, 1, LastRead), c)
    PROVE  /\ longer \in Seq(Clusters) /\ Len(longer) = LastRead + 1
           /\ longer[1] = chain[1] /\ NoTwice(longer)
           /\ \A k \in DOMAIN longer : longer[k] \notin free \ {c}
           /\ \A k \in 1 .. LastRead : longer[k] = chain[k]
           /\ longer[LastRead + 1] = c
<1>1. /\ chain \in Seq(Clusters) /\ NoTwice(chain) /\ c \in Clusters
      /\ \A k \in DOMAIN chain : chain[k] \notin free
  BY DirIs DEF TypeOK
<1>2. PICK m \in Nat : m = LastRead /\ m >= 1 /\ m <= Len(chain)
  BY ReadableIs
<1>3. PICK s \in Seq(Clusters) : /\ s = SubSeq(chain, 1, m) /\ Len(s) = m
                                 /\ \A k \in 1 .. m : s[k] = chain[k]
  <2>1. \A k \in 1 .. m : chain[k] \in Clusters
    BY <1>1, <1>2
  <2>2. /\ SubSeq(chain, 1, m) \in Seq(Clusters)
        /\ Len(SubSeq(chain, 1, m)) = m
        /\ \A k \in 1 .. m : SubSeq(chain, 1, m)[k] = chain[k]
    <3>1. /\ SubSeq(chain, 1, m) \in Seq(Clusters)
          /\ Len(SubSeq(chain, 1, m)) = IF 1 <= m THEN m - 1 + 1 ELSE 0
          /\ \A k \in 1 .. m - 1 + 1 : SubSeq(chain, 1, m)[k] = chain[1 + k - 1]
      <4>1. 1 \in Int /\ m \in Int
        OBVIOUS
      <4> QED BY <2>1, <4>1, SubSeqProperties
    <3>2. m - 1 + 1 = m /\ \A k \in 1 .. m : 1 + k - 1 = k
      OBVIOUS
    <3> QED BY <1>2, <3>1, <3>2
  <2> QED BY <2>2, Zenon
<1>4. longer = Append(s, c)
  BY <1>2, <1>3
<1>5. /\ longer \in Seq(Clusters) /\ Len(longer) = m + 1 /\ longer[m + 1] = c
      /\ \A k \in 1 .. m : longer[k] = s[k]
  <2>1. /\ Append(s, c) \in Seq(Clusters) /\ Len(Append(s, c)) = Len(s) + 1
        /\ \A k \in 1 .. Len(s) : Append(s, c)[k] = s[k]
        /\ Append(s, c)[Len(s) + 1] = c
    BY <1>1, AppendProperties
  <2> QED BY <1>3, <1>4, <2>1, Zenon
<1>6. DOMAIN longer = 1 .. m + 1 /\ DOMAIN chain = 1 .. Len(chain) /\ Len(chain) \in Nat
  BY <1>1, <1>2, <1>5
<1>7. \A k \in 1 .. m : k \in DOMAIN chain /\ longer[k] = chain[k] /\ longer[k] \notin free
  BY <1>1, <1>2, <1>3, <1>5, <1>6
<1>8. ASSUME NEW j \in 1 .. m + 1, NEW k \in 1 .. m + 1, longer[j] = longer[k]
      PROVE  j = k
  <2>1. CASE j = m + 1 /\ k \in 1 .. m
    BY <1>5, <1>7, <1>8, <2>1
  <2>2. CASE k = m + 1 /\ j \in 1 .. m
    BY <1>5, <1>7, <1>8, <2>2
  <2>3. CASE j \in 1 .. m /\ k \in 1 .. m
    BY <1>1, <1>7, <1>8, <2>3 DEF NoTwice
  <2> QED BY <1>2, <2>1, <2>2, <2>3
<1>9. \A k \in DOMAIN longer : longer[k] \notin free \ {c}
  <2>1. ASSUME NEW k \in 1 .. m + 1 PROVE k = m + 1 \/ k \in 1 .. m
    BY <1>2
  <2> QED BY <1>5, <1>6, <1>7, <2>1
<1>10. longer[1] = chain[1]
  BY <1>2, <1>7
<1> QED BY <1>2, <1>5, <1>6, <1>7, <1>8, <1>9, <1>10 DEF NoTwice

LEMMA ExtendSound == ASSUME Inv, NEW c \in Clusters, Extend(c) PROVE Inv'
<1>1. /\ TypeOK /\ chain[1] \notin unreadable /\ Counted /\ search.state = "search"
      /\ UniqueIds(files) /\ FreeAfter(search.pos) = {} /\ c \in free
      /\ chain' = Append(SubSeq(chain, 1, LastRead), c)
      /\ free' = free \ {c} /\ entry' = Zeroed(c)
      /\ Continue(LastRead * Slots) /\ unreadable' = unreadable \ {c}
      /\ cut' = (cut \/ LastRead < Len(chain))
      /\ UNCHANGED <<fixed, files, misplaced, orphaned>>
  BY DEF Inv, Shaped, Extend, Taken
<1>2. /\ Len(chain) * Slots \in Nat /\ Whole = 0 .. Len(chain) * Slots - 1
      /\ DOMAIN Dir = Whole /\ \A q \in Whole : At(q) = Dir[q]
      /\ chain \in Seq(Clusters) /\ entry \in Contents
      /\ Dir \in [Whole -> Entries] /\ \A f \in files : f.name \in Names
      /\ \A k \in DOMAIN chain : chain[k] # c
  BY <1>1, DirIs DEF TypeOK
<1>3. /\ Readable \subseteq Whole /\ Whole \subseteq Nat /\ LastRead \in Nat /\ LastRead >= 1
      /\ LastRead <= Len(chain) /\ LastRead * Slots \in Nat /\ Len(chain) \in Nat
      /\ ~ (LastRead < Len(chain)) => Readable = Whole
  BY <1>1, <1>2, LengthIs, ReadableIs
<1>4. /\ chain' \in Seq(Clusters) /\ Len(chain') = LastRead + 1
      /\ chain'[1] = chain[1] /\ NoTwice(chain')
      /\ \A k \in DOMAIN chain' : chain'[k] \notin free'
      /\ \A k \in 1 .. LastRead : chain'[k] = chain[k]
      /\ chain'[LastRead + 1] = c
  <2>1. PICK longer : longer = chain' /\ longer = Append(SubSeq(chain, 1, LastRead), c)
    BY <1>1
  <2>2. /\ longer \in Seq(Clusters) /\ Len(longer) = LastRead + 1
        /\ longer[1] = chain[1] /\ NoTwice(longer)
        /\ \A k \in DOMAIN longer : longer[k] \notin free \ {c}
        /\ \A k \in 1 .. LastRead : longer[k] = chain[k]
        /\ longer[LastRead + 1] = c
    BY <1>1, <2>1, ExtendedChain
  <2> QED BY <1>1, <2>1, <2>2
<1>5. PICK p \in Nat : p = LastRead * Slots
  BY <1>3
<1>6. Continue(p)
  BY <1>1, <1>5
<1>7. /\ search' \in [state : {"search", "found"}, name : Names, alias : Aliases,
                      pos : Int, start : Int, consecutive : Nat]
      /\ search'.name = search.name
      /\ search'.pos = p /\ search'.consecutive > 0
      /\ search'.start = p - search'.consecutive + 1 /\ search'.start >= 0
      /\ search'.state = "search" => search'.consecutive <= Parts[search.name]
      /\ search'.state = "found" => search'.consecutive = Parts[search.name] + 1
  BY <1>1, <1>6, Continued
<1>8. entry' \in Contents
  <2>1. [i \in Indices |-> End] \in [Indices -> Entries]
    BY DEF Entries
  <2> QED BY <1>1, <1>2, <2>1, Zenon DEF Zeroed, Contents
<1>9. TypeOK'
  <2>1. Len(chain') > 0
    BY <1>3, <1>4
  <2>2. free' \subseteq Clusters /\ files' \subseteq Files
    BY <1>1 DEF TypeOK
  <2> QED BY <1>4, <1>7, <1>8, <2>1, <2>2 DEF TypeOK, Contents, NoTwice
<1>10. Counted'
  <2>1. Ids' = Ids
    BY <1>1 DEF Ids
  <2> QED BY <1>1, <1>7, <2>1 DEF Counted
<1>11. ASSUME ~ cut', NEW d \in Clusters
       PROVE  d \in free' \/ \E k \in DOMAIN chain' : chain'[k] = d
  <2>1. ~ cut /\ LastRead = Len(chain)
    <3>1. ~ cut /\ ~ (LastRead < Len(chain))
      BY <1>1, <1>11, Zenon
    <3> QED BY <1>3, <3>1
  <2>2. DOMAIN chain = 1 .. LastRead /\ DOMAIN chain' = 1 .. LastRead + 1
    BY <1>2, <1>3, <1>4, <2>1
  <2>3. CASE d = c
    <3>1. LastRead + 1 \in DOMAIN chain'
      BY <1>3, <2>2
    <3> QED BY <1>4, <2>3, <3>1
  <2>4. CASE d # c
    <3>1. d \in free \/ \E k \in DOMAIN chain : chain[k] = d
      BY <2>1 DEF Inv, Shaped
    <3>2. \A k \in DOMAIN chain : k \in DOMAIN chain' /\ chain'[k] = chain[k]
      BY <1>3, <1>4, <2>2
    <3> QED BY <1>1, <2>4, <3>1, <3>2
  <2> QED BY <2>3, <2>4
<1>12. Shaped'
  <2>1. chain'[1] \notin unreadable' /\ UniqueIds(files)'
    BY <1>1, <1>4 DEF UniqueIds
  <2> QED BY <1>9, <1>10, <1>11, <2>1 DEF Shaped
<1>13. ASSUME ~ misplaced', ~ cut' PROVE Sound'
  <2>1. Sound /\ LastRead = Len(chain) /\ Readable = Whole
    <3>1. ~ cut /\ ~ misplaced /\ ~ (LastRead < Len(chain))
      BY <1>1, <1>13, Zenon
    <3> QED BY <1>3, <3>1 DEF Inv
  <2>2. PICK n \in Nat : n = Len(chain) * Slots /\ n = p /\ Whole = 0 .. n - 1
    BY <1>2, <1>5, <2>1
  <2>3. PICK m \in Nat : m = Len(chain') * Slots /\ n < m
    <3>1. Len(chain) * Slots + Slots <= Len(chain') * Slots /\ Len(chain') * Slots \in Nat
      BY <1>3, <1>4, <2>1, Blocks
    <3> QED BY <2>2, <3>1, SlotsAre
  <2>4. /\ DOMAIN Dir' = 0 .. m - 1 /\ Whole' = 0 .. m - 1
        /\ \A q \in 0 .. m - 1 : Dir'[q] = IF q \in Whole THEN Dir[q] ELSE End
    <3>1. Content(chain', Zeroed(c))
             = [q \in 0 .. Len(chain') * Slots - 1 |-> IF q \in Whole THEN Dir[q] ELSE End]
      BY <1>1, <1>2, <2>1, ExtendedContent
    <3>2. Dir' = [q \in 0 .. m - 1 |-> IF q \in Whole THEN Dir[q] ELSE End]
      BY <1>1, <2>3, <3>1 DEF Dir, Content
    <3> QED BY <2>3, <3>2 DEF Whole
  <2>5. PICK e : e = Dir' /\ e \in [0 .. m - 1 -> Entries]
    <3>1. \A q \in 0 .. m - 1 : Dir'[q] \in Entries
      BY <1>2, <2>4 DEF Entries
    <3> QED BY <1>9, <2>3, <2>4, DirIs
  <2>6. PICK d : d = Dir /\ d \in [0 .. n - 1 -> Entries]
    BY <1>2, <2>2
  <2>7. /\ \A q \in 0 .. n - 1 : q \in 0 .. m - 1 /\ e[q] = d[q]
        /\ \A q \in 0 .. m - 1 : q >= n => e[q] = End
    BY <2>2, <2>3, <2>4, <2>5, <2>6
  <2>8. \A q \in 0 .. m - 1 : q >= n => ~ IsShort(e[q]) /\ IsFree(e[q])
    BY <2>7 DEF End, IsShort, IsFree
  <2>9. Holds(e, files)
    BY <2>1, <2>3, <2>5, <2>6, <2>7, <2>8, OthersChange DEF Sound
  <2>10. ~ orphaned => Named(e, files)
    <3>1. Named(d, files) => Named(e, files)
      <4>1. /\ \A f \in files : f.name \in Names
            /\ \A q \in 0 .. n - 1 : e[q] = d[q] \/ (IsFree(d[q]) /\ IsFree(e[q]))
            /\ \A q \in 0 .. m - 1 : q >= n => IsFree(e[q])
        BY <1>2, <2>7, <2>8
      <4>2. n \in Nat /\ m \in Nat /\ n <= m
        BY <2>2, <2>3
      <4> QED BY <2>5, <2>6, <4>1, <4>2, FreeChange
    <3> QED BY <2>1, <2>6, <3>1 DEF Sound
  <2>11. Quiet(e)
    <3>1. ASSUME NEW q \in 0 .. m - 1, NEW r \in 0 .. m - 1, q <= r, e[q].kind = "end"
          PROVE  e[r] = End
      <4>1. CASE r >= n
        BY <2>7, <4>1
      <4>2. CASE r < n
        <5>1. q \in 0 .. n - 1 /\ r \in 0 .. n - 1
          BY <3>1, <4>2
        <5> QED BY <2>1, <2>6, <2>7, <3>1, <5>1 DEF Sound, Quiet
      <4> QED BY <4>1, <4>2
    <3> QED BY <2>5, <3>1 DEF Quiet
  <2>12. search.pos < p /\ search.pos \in Int
    BY <1>1, <2>1, <2>2, SearchIs DEF Sound, SearchRight
  <2>13. ASSUME NEW r \in 0 .. p - 1, search.pos < r PROVE ~ IsFree(e[r])
    <3>1. r \in Whole /\ r \in Readable /\ r \notin FreeAfter(search.pos)
      BY <1>1, <2>1, <2>2
    <3>2. Exists(r)
      BY <2>12, <2>13, <3>1 DEF FreeAfter
    <3> QED BY <1>2, <2>2, <2>6, <2>7, <3>1, <3>2 DEF Exists, IsFree
  <2>14. p \in 0 .. m - 1 /\ IsFree(e[p])
    BY <2>2, <2>3, <2>8
  <2>15. \A q \in Whole : e[q] = Dir[q]
    BY <2>2, <2>6, <2>7
  <2>16. /\ \A r \in search'.start .. search'.pos : IsFree(e[r])
         /\ search'.start = 0 \/ ~ IsFree(e[search'.start - 1])
         /\ Parts[search'.name] = 0 => search'.alias = <<Stem[search'.name], 0>>
    BY <1>1, <1>6, <2>1, <2>12, <2>13, <2>14, <2>15, ContinuedRight DEF Sound
  <2>17. SearchRight'
    BY <1>7, <2>4, <2>5, <2>14, <2>16 DEF SearchRight
  <2> QED BY <1>1, <2>5, <2>9, <2>10, <2>11, <2>17 DEF Sound
<1> QED BY <1>12, <1>13 DEF Inv

-----------------------------------------------------------------------------
(* A file is created.                                                      *)
LEMMA WhatIsWritten ==
    ASSUME NEW n \in Names, NEW alias \in Aliases, NEW id \in 1 .. MaxFiles,
           NEW s \in Nat, NEW p, p = s + Parts[n],
           NEW these, these = [q \in s .. p |->
                                  IF q = p THEN Short(alias, id)
                                  ELSE Long(n, Parts[n] - (q - s), q = s, alias)]
    PROVE  /\ \A q \in s .. p : these[q] \in Entries
           /\ these[p] = Short(alias, id)
           /\ \A q \in s .. p - 1 : these[q] = Long(n, p - q, q = s, alias)
<1>1. PICK w \in Nat : w = Parts[n] /\ w <= MaxParts
  BY PartsAre
<1>2. p = s + w /\ p \in Nat
  BY <1>1
<1>3. these[p] = Short(alias, id)
  BY <1>2
<1>4. ASSUME NEW q \in s .. p - 1
      PROVE  /\ these[q] = Long(n, p - q, q = s, alias)
             /\ p - q \in 1 .. MaxParts
  <2>1. q \in s .. p /\ q # p /\ w - (q - s) = p - q
    BY <1>2
  <2>2. these[q] = Long(n, w - (q - s), q = s, alias)
    BY <1>1, <2>1, Zenon
  <2>3. p - q \in 1 .. MaxParts
    <3>1. p - q >= 1 /\ p - q <= w /\ p - q \in Int
      BY <1>2
    <3>2. MaxParts \in Nat
      BY DEF MaxParts
    <3> QED BY <1>1, <3>1, <3>2
  <2> QED BY <2>1, <2>2, <2>3, Zenon
<1>5. ASSUME NEW q \in s .. p PROVE these[q] \in Entries
  <2>1. CASE q = p
    <3>1. Short(alias, id) \in {Short(a, i) : a \in Aliases, i \in 1 .. MaxFiles}
      OBVIOUS
    <3> QED BY <1>3, <2>1, <3>1 DEF Entries
  <2>2. CASE q # p
    <3>1. q \in s .. p - 1
      BY <1>2, <2>2
    <3>2. PICK x \in 1 .. MaxParts, b \in BOOLEAN : x = p - q /\ b = (q = s)
      BY <1>4, <3>1, Zenon
    <3>3. these[q] = Long(n, x, b, alias)
      BY <1>4, <3>1, <3>2, Zenon
    <3>4. Long(n, x, b, alias)
             \in {Long(m, y, c, a) : m \in Names, y \in 1 .. MaxParts, c \in BOOLEAN, a \in Aliases}
      OBVIOUS
    <3> QED BY <3>3, <3>4 DEF Entries
  <2> QED BY <2>1, <2>2
<1> QED BY <1>3, <1>4, <1>5

LEMMA CreateSound == ASSUME Inv, Create PROVE Inv'
<1>1. /\ TypeOK /\ chain[1] \notin unreadable /\ Counted /\ search.state = "found"
      /\ UniqueIds(files) /\ search' = Idle
      /\ UNCHANGED <<chain, free, fixed, unreadable, misplaced, cut, orphaned>>
  BY DEF Inv, Shaped, Create
<1>2. PICK id \in 1 .. MaxFiles : id = First(Ids) /\ \A f \in files : f.id # id
  <2>1. Ids # {} /\ Ids \in SUBSET Nat
    BY <1>1 DEF Counted, Ids
  <2>2. First(Ids) \in Ids
    BY <2>1, LeastNumber
  <2> QED BY <2>2 DEF Ids
<1>3. PICK n \in Names, alias \in Aliases, s \in Nat, p \in Nat, w \in Nat :
         /\ n = search.name /\ alias = search.alias /\ s = search.start /\ p = search.pos
         /\ w = Parts[n] /\ p = s + w
  <2>1. PICK x \in Int, a \in Int, c \in Nat, w \in Nat :
           /\ x = search.pos /\ a = search.start /\ c = search.consecutive
           /\ w = Parts[search.name]
    BY <1>1, SearchIs
  <2>2. c = w + 1 /\ a = x - c + 1 /\ a >= 0
    BY <1>1, <2>1 DEF Counted
  <2>3. x = a + w /\ x \in Nat /\ a \in Nat
    BY <2>1, <2>2
  <2> QED BY <1>1, <2>1, <2>3, SearchIs
<1>4. PICK these : these = [q \in s .. p |->
                               IF q = p THEN Short(alias, id)
                               ELSE Long(n, Parts[n] - (q - s), q = s, alias)]
  OBVIOUS
<1>5. /\ entry' = Stored(s .. p, these)
      /\ files' = files \cup {[id |-> id, name |-> n, alias |-> alias]}
  BY <1>2, <1>3, <1>4, Zenon DEF Create, Written
<1>6. /\ \A q \in s .. p : these[q] \in Entries
      /\ these[p] = Short(alias, id)
      /\ \A q \in s .. p - 1 : these[q] = Long(n, p - q, q = s, alias)
  <2>1. p = s + Parts[n]
    BY <1>3
  <2> QED BY <1>4, <2>1, WhatIsWritten, SMTT(60)
<1>7. PICK g : g = [id |-> id, name |-> n, alias |-> alias]
  OBVIOUS
<1>8. g \in Files /\ g.id = id /\ g.name = n /\ g.alias = alias /\ files' = files \cup {g}
  BY <1>5, <1>7 DEF Files
<1>9. entry' \in Contents
  <2>1. s .. p \in SUBSET Nat
    BY <1>3
  <2> QED BY <1>1, <1>5, <1>6, <2>1, DirIs, StoredType
<1>10. Shaped'
  <2>1. files' \subseteq Files
    BY <1>8, <1>1 DEF TypeOK
  <2>2. TypeOK'
    BY <1>1, <1>9, <2>1 DEF TypeOK, Contents
  <2>3. UniqueIds(files')
    BY <1>1, <1>2, <1>8 DEF UniqueIds
  <2> QED BY <1>1, <2>2, <2>3 DEF Inv, Shaped, Counted, Idle
<1>11. ASSUME ~ misplaced', ~ cut' PROVE Sound'
  <2>1. Sound
    BY <1>1, <1>11 DEF Inv
  <2>2. /\ p \in Whole /\ \A q \in s .. p : IsFree(Dir[q])
        /\ s = 0 \/ ~ IsFree(Dir[s - 1])
        /\ w = 0 => alias = <<Stem[n], 0>>
    <3>1. search.consecutive > 0
      BY <1>1, <1>3, SearchIs DEF Counted
    <3> QED BY <1>1, <1>3, <2>1, <3>1 DEF Sound, SearchRight
  <2>3. PICK m \in Nat : m = Len(chain) * Slots /\ Whole = 0 .. m - 1
    BY <1>1, DirIs
  <2>4. PICK d : d = Dir /\ d \in [0 .. m - 1 -> Entries]
    BY <1>1, <2>3, DirIs
  <2>5. /\ s .. p \in SUBSET Whole
        /\ s \in 0 .. p /\ p \in 0 .. m - 1
    BY <1>3, <2>2, <2>3
  <2>6. Dir' = [q \in Whole |-> IF q \in s .. p THEN these[q] ELSE Dir[q]]
    <3>1. Content(chain, Stored(s .. p, these))
             = [q \in Whole |-> IF q \in s .. p THEN these[q] ELSE Dir[q]]
      <4>1. chain \in Seq(Clusters) /\ NoTwice(chain) /\ entry \in Contents
        BY <1>1, DirIs
      <4> QED BY <1>6, <2>5, <4>1, StoredContent
    <3> QED BY <1>1, <1>5, <3>1 DEF Dir, Content
  <2>7. PICK e : e = Dir' /\ e \in [0 .. m - 1 -> Entries]
    <3>1. \A q \in 0 .. m - 1 : (IF q \in s .. p THEN these[q] ELSE Dir[q]) \in Entries
      BY <1>6, <2>4
    <3> QED BY <2>3, <2>6, <3>1
  <2>8. /\ \A q \in 0 .. m - 1 : q \notin s .. p => e[q] = d[q]
        /\ \A q \in s .. p : e[q] = these[q]
    BY <2>3, <2>4, <2>5, <2>6, <2>7
  <2>9. e[p] = Short(g.alias, g.id)
    BY <1>3, <1>6, <1>8, <2>8
  <2>10. PartsAt(e, s, p, g)
    <3>1. \A q \in s .. p - 1 : q \in s .. p
      BY <1>3
    <3> QED BY <1>6, <1>8, <2>8, <3>1, Zenon DEF PartsAt
  <2>11. \A q \in s .. p - 1 : e[q].kind = "long"
    <3>1. ASSUME NEW q \in s .. p - 1 PROVE e[q].kind = "long"
      <4>1. PICK x, b : x = p - q /\ b = (q = s)
        OBVIOUS
      <4>2. e[q] = Long(g.name, x, b, g.alias)
        BY <2>10, <4>1 DEF PartsAt
      <4> QED BY <4>2 DEF Long
    <3> QED BY <3>1
  <2>12. /\ \A q \in s .. p : IsFree(d[q])
         /\ s = 0 \/ ~ IsFree(d[s - 1])
         /\ \A f \in files : f.id # g.id
         /\ \A f \in files : f.name \in Names
    BY <1>1, <1>2, <1>8, <2>2, <2>4, DirIs
  <2>13. PICK gs : gs = files \cup {g} /\ gs = files'
    BY <1>8
  <2>14. Quiet(e) /\ Holds(e, gs)
    <3>1. Quiet(d) /\ Holds(d, files)
      BY <2>1, <2>4 DEF Sound
    <3>2. /\ m \in Nat /\ d \in [0 .. m - 1 -> Entries] /\ e \in [0 .. m - 1 -> Entries]
          /\ SameBut(d, e, s, p)
      BY <2>3, <2>4, <2>7, <2>8 DEF SameBut
    <3> QED BY <2>5, <2>9, <2>11, <2>12, <2>13, <3>1, <3>2, WrittenHolds
  <2>15. ASSUME ~ orphaned PROVE Named(e, gs)
    <3>1. Named(d, files) /\ Holds(d, files)
      BY <2>1, <2>4, <2>15 DEF Sound
    <3>2. g.name \in Names /\ p = s + Parts[g.name]
          /\ (Parts[g.name] = 0 => g.alias = <<Stem[g.name], 0>>)
      BY <1>3, <1>8, <2>2
    <3>3. /\ m \in Nat /\ d \in [0 .. m - 1 -> Entries] /\ e \in [0 .. m - 1 -> Entries]
          /\ SameBut(d, e, s, p)
      BY <2>3, <2>4, <2>7, <2>8 DEF SameBut
    <3> QED BY <2>5, <2>9, <2>10, <2>12, <2>13, <3>1, <3>2, <3>3, WrittenNamed
  <2>16. SearchRight'
    BY <1>1 DEF SearchRight, Idle
  <2> QED BY <1>1, <2>7, <2>13, <2>14, <2>15, <2>16 DEF Sound
<1> QED BY <1>10, <1>11 DEF Inv

-----------------------------------------------------------------------------
(* A file is deleted.                                                      *)
LEMMA ErasedSound ==
    ASSUME Inv, search = Idle, ~ misplaced, ~ cut,
           NEW t \in Whole, IsShort(Dir[t]), NEW s \in 0 .. t,
           \A q \in s .. t - 1 : Dir[q].kind = "long",
           entry' = Erased(s, t), files' = Forgotten(t),
           UNCHANGED <<chain, free, fixed, unreadable, search, misplaced, cut>>,
           ~ orphaned' => /\ ~ orphaned
                          /\ \A f \in files : IsAt(Dir, t, f) => s = t - Parts[f.name]
    PROVE  Inv'
<1>1. /\ TypeOK /\ chain[1] \notin unreadable /\ UniqueIds(files) /\ Sound
      /\ UNCHANGED <<chain, free, fixed, unreadable, search, misplaced, cut>>
      /\ search = Idle /\ ~ misplaced /\ ~ cut
  BY DEF Inv, Shaped
<1>2. PICK m \in Nat : m = Len(chain) * Slots /\ Whole = 0 .. m - 1
  BY <1>1, DirIs
<1>3. /\ chain \in Seq(Clusters) /\ NoTwice(chain) /\ entry \in Contents
      /\ Dir \in [Whole -> Entries] /\ \A q \in Whole : At(q) = Dir[q]
      /\ \A f \in files : f \in Files /\ f.name \in Names
  BY <1>1, DirIs
<1>4. PICK d : d = Dir /\ d \in [0 .. m - 1 -> Entries]
  BY <1>2, <1>3
<1>5. s .. t \in SUBSET Whole /\ t \in 0 .. m - 1
  BY <1>2
<1>6. PICK these : these = [q \in s .. t |-> Deleted]
  OBVIOUS
<1>7. /\ \A q \in s .. t : these[q] \in Entries /\ these[q] = Deleted
      /\ entry' = Stored(s .. t, these)
  BY <1>6 DEF Entries, Erased, Filled
<1>8. /\ entry' \in Contents
      /\ Dir' = [p \in Whole |-> IF p \in s .. t THEN these[p] ELSE Dir[p]]
  <2>1. /\ Stored(s .. t, these) \in Contents
        /\ Content(chain, Stored(s .. t, these))
              = [p \in Whole |-> IF p \in s .. t THEN these[p] ELSE Dir[p]]
    BY <1>3, <1>5, <1>7, StoredContent
  <2>2. Dir' = Content(chain, Stored(s .. t, these))
    BY <1>1, <1>7 DEF Dir, Content
  <2> QED BY <1>7, <2>1, <2>2, Zenon
<1>9. \A p \in 0 .. m - 1 : Dir'[p] \in Entries
  BY <1>2, <1>3, <1>7, <1>8
<1>10. PICK e : /\ e = Dir' /\ e \in [0 .. m - 1 -> Entries]
                /\ SameBut(d, e, s, t) /\ AllDeleted(e, s, t)
  <2>1. Dir' \in [0 .. m - 1 -> Entries]
    BY <1>2, <1>8, <1>9
  <2>2. SameBut(d, Dir', s, t) /\ AllDeleted(Dir', s, t)
    BY <1>2, <1>4, <1>5, <1>7, <1>8 DEF SameBut, AllDeleted
  <2> QED BY <2>1, <2>2
<1>11. PICK gs : gs = files' /\ gs = Remaining(files, d, t)
  BY <1>3, <1>4 DEF Forgotten, Remaining
<1>12. gs \subseteq files
  BY <1>11 DEF Remaining
<1>13. Shaped'
  <2>1. TypeOK'
    BY <1>1, <1>8, <1>11, <1>12 DEF TypeOK, Contents
  <2>2. UniqueIds(files')
    BY <1>1, <1>11, <1>12 DEF UniqueIds
  <2> QED BY <1>1, <2>1, <2>2 DEF Inv, Shaped, Counted, Idle
<1>14. Quiet(e) /\ Holds(e, gs)
  <2>1. Quiet(d) /\ Holds(d, files) /\ IsShort(d[t]) /\ \A q \in s .. t - 1 : d[q].kind = "long"
    BY <1>1, <1>4 DEF Sound
  <2>2. m \in Nat /\ d \in [0 .. m - 1 -> Entries]
    BY <1>2, <1>4
  <2> QED BY <1>5, <1>10, <1>11, <2>1, <2>2, ErasedHolds
<1>15. ASSUME ~ orphaned' PROVE Named(e, gs)
  <2>1. Holds(d, files) /\ Named(d, files)
    BY <1>1, <1>4, <1>15 DEF Sound
  <2>2. PICK g \in files : IsAt(d, t, g)
    BY <1>4, <1>5, <2>1 DEF Holds, IsAt
  <2>3. s = t - Parts[g.name]
    BY <1>4, <1>15, <2>2
  <2>4. \A f \in files : f.name \in Names
    BY <1>3
  <2>5. m \in Nat /\ d \in [0 .. m - 1 -> Entries] /\ UniqueIds(files)
    BY <1>1, <1>2, <1>4
  <2> QED BY <1>5, <1>10, <1>11, <2>1, <2>2, <2>3, <2>4, <2>5, ErasedNamed
<1>16. SearchRight'
  BY <1>1 DEF SearchRight, Idle
<1>17. Sound'
  BY <1>10, <1>11, <1>14, <1>15, <1>16 DEF Sound
<1> QED BY <1>13, <1>17 DEF Inv

LEMMA DeleteLongSound == ASSUME Inv, ~ misplaced, ~ cut, NEW n \in Names, DeleteLong(n) PROVE Inv'
<1>1. /\ TypeOK /\ chain[1] \notin unreadable /\ UniqueIds(files) /\ Sound
      /\ search = Idle /\ FoundLong(n) # {}
      /\ UNCHANGED <<chain, free, fixed, unreadable, search, misplaced, cut, orphaned>>
  BY DEF Inv, Shaped, DeleteLong
<1>2. /\ Whole \subseteq Nat
      /\ \A p : p \in ShortsIn(Readable) <=> p \in Readable /\ IsShort(Dir[p])
      /\ ShortsIn(Readable) \subseteq Whole
  BY <1>1, ReadableIs, AllSeen DEF Sound
<1>3. PICK t \in FoundLong(n) : t = First(FoundLong(n))
  <2>1. FoundLong(n) \in SUBSET Nat
    BY <1>2 DEF FoundLong
  <2> QED BY <1>1, <2>1, LeastNumber
<1>4. t \in Whole /\ IsShort(Dir[t])
  BY <1>2 DEF FoundLong
<1>5. entry' = Erased(LongStart(t), t) /\ files' = Forgotten(t)
  BY <1>3, Zenon DEF DeleteLong
<1>6. /\ LongStart(t) \in 0 .. t
      /\ \A q \in LongStart(t) .. t - 1 : Dir[q].kind = "long"
  BY <1>1, <1>4, LongStartIs
<1>7. ASSUME ~ orphaned, NEW f \in files, IsAt(Dir, t, f)
      PROVE  LongStart(t) = t - Parts[f.name]
  BY <1>1, <1>4, <1>7, NamedStart DEF Sound
<1> QED BY <1>1, <1>4, <1>5, <1>6, <1>7, ErasedSound

LEMMA DeleteShortSound ==
    ASSUME Inv, ~ misplaced, ~ cut, NEW a \in Aliases, DeleteShort(a) PROVE Inv'
<1>1. /\ TypeOK /\ chain[1] \notin unreadable /\ UniqueIds(files) /\ Sound
      /\ search = Idle /\ FoundShort(a) # {}
      /\ UNCHANGED <<chain, free, fixed, unreadable, search, misplaced, cut>>
  BY DEF Inv, Shaped, DeleteShort
<1>2. /\ Whole \subseteq Nat
      /\ \A p : p \in ShortsIn(Readable) <=> p \in Readable /\ IsShort(Dir[p])
      /\ ShortsIn(Readable) \subseteq Whole
  BY <1>1, ReadableIs, AllSeen DEF Sound
<1>3. PICK t \in FoundShort(a) : t = First(FoundShort(a))
  <2>1. FoundShort(a) \in SUBSET Nat
    BY <1>2 DEF FoundShort
  <2> QED BY <1>1, <2>1, LeastNumber
<1>4. t \in Whole /\ IsShort(Dir[t]) /\ t \in 0 .. t /\ \A q \in t .. t - 1 : Dir[q].kind = "long"
  <2>1. t \in Whole /\ IsShort(Dir[t]) /\ t \in Nat
    BY <1>2 DEF FoundShort
  <2>2. t \in 0 .. t /\ \A q \in t .. t - 1 : FALSE
    BY <2>1
  <2> QED BY <2>1, <2>2
<1>5. /\ entry' = Erased(t, t) /\ files' = Forgotten(t)
      /\ orphaned' = (orphaned \/ LongStart(t) # t)
  BY <1>3, Zenon DEF DeleteShort
<1>6. ASSUME ~ orphaned'
      PROVE  ~ orphaned /\ \A f \in files : IsAt(Dir, t, f) => t = t - Parts[f.name]
  <2>1. ~ orphaned /\ LongStart(t) = t
    BY <1>5, <1>6, Zenon
  <2>2. ASSUME NEW f \in files, IsAt(Dir, t, f) PROVE t = t - Parts[f.name]
    BY <1>1, <1>4, <2>1, <2>2, NamedStart DEF Sound
  <2> QED BY <2>1, <2>2
<1> QED BY <1>1, <1>4, <1>5, <1>6, ErasedSound

-----------------------------------------------------------------------------
(* directoryclean and filldeleted.                                         *)
LEMMA CleanNextSound == ASSUME Inv, CleanNext PROVE Inv'
<1>1. /\ TypeOK /\ chain[1] \notin unreadable /\ UniqueIds(files)
      /\ search.state = "cleaning" /\ GoesOn(search.at) /\ search' = Cleaning(search.at + 1)
      /\ UNCHANGED <<entry, fixed, unreadable, files, misplaced, cut, orphaned>>
      /\ ~ cut => \A c \in Clusters : c \in free \/ \E j \in DOMAIN chain : chain[j] = c
      /\ IF Unused(chain[search.at + 1])
         THEN chain' = Without(chain, search.at + 1) /\ free' = Returned(chain[search.at + 1])
         ELSE UNCHANGED <<chain, free>>
  BY DEF Inv, Shaped, CleanNext, ghosts
<1>2. search.at \in Nat \ {0}
  <2>1. PICK s : s = search /\ s \in {Idle} \cup [state : {"cleaning"}, at : Nat \ {0}]
                   \cup [state : {"search", "found"}, name : Names, alias : Aliases,
                         pos : Int, start : Int, consecutive : Nat]
    BY <1>1 DEF TypeOK
  <2>2. s \in [state : {"cleaning"}, at : Nat \ {0}]
    BY <1>1, <2>1 DEF Idle
  <2>3. s.at \in Nat \ {0}
    BY <2>2
  <2> QED BY <2>1, <2>3
<1>3. /\ chain \in Seq(Clusters) /\ NoTwice(chain) /\ entry \in Contents
      /\ \A q \in Whole : At(q) = Dir[q]
      /\ DOMAIN Dir = Whole /\ Dir \in [Whole -> Entries] /\ \A f \in files : f.name \in Names
  BY <1>1, DirIs
<1>4. PICK n \in Nat : n = Len(chain) /\ n * Slots \in Nat /\ Whole = 0 .. n * Slots - 1
  BY <1>3, LengthIs DEF Whole
<1>5. PICK k \in Nat : k = search.at /\ k >= 1 /\ k < n /\ k \in 1 .. Len(chain) - 1
  BY <1>1, <1>2, <1>4 DEF GoesOn
<1>6. search' \in [state : {"cleaning"}, at : Nat \ {0}] /\ search'.state = "cleaning"
  BY <1>1, <1>2 DEF Cleaning
<1>7. CASE ~ Unused(chain[k + 1])
  <2>1. UNCHANGED <<chain, free>>
    BY <1>1, <1>5, <1>7
  <2>2. TypeOK'
    BY <1>1, <1>6, <2>1 DEF TypeOK
  <2> QED BY <1>1, <1>6, <2>1, <2>2, NotSearching
<1>8. CASE Unused(chain[k + 1])
  <2>1. PICK c \in Clusters : /\ c = chain[k + 1] /\ k + 1 \in DOMAIN chain
                              /\ free' = free \cup {c}
                              /\ \A i \in Indices : IsFree(entry[c][i])
    <3>1. k + 1 \in DOMAIN chain /\ chain[k + 1] \in Clusters
      BY <1>3, <1>4, <1>5
    <3> QED BY <1>1, <1>5, <1>8, <3>1 DEF Unused, Returned, IsFree
  <2>2. PICK rest : rest = chain' /\ rest = Without(chain, k + 1)
    BY <1>1, <1>5, <1>8
  <2>3. /\ rest \in Seq(Clusters) /\ Len(rest) = Len(chain) - 1
        /\ rest[1] = chain[1] /\ NoTwice(rest)
        /\ \A j \in DOMAIN rest :
              rest[j] # chain[k + 1] /\ \E i \in DOMAIN chain : rest[j] = chain[i]
        /\ \A i \in DOMAIN chain : i # k + 1 => \E j \in DOMAIN rest : rest[j] = chain[i]
        /\ Content(rest, entry)
              = [p \in 0 .. (Len(chain) - 1) * Slots - 1 |->
                    IF p < k * Slots THEN Dir[p] ELSE Dir[p + Slots]]
    BY <1>3, <1>5, <2>2, WithoutContent
  <2>4. TypeOK'
    <3>1. Len(chain') > 0 /\ chain' \in Seq(Clusters)
      BY <1>4, <1>5, <2>2, <2>3
    <3>2. free' \subseteq Clusters /\ entry' \in [Clusters -> [Indices -> Entries]]
          /\ files' \subseteq Files
      BY <1>1, <2>1 DEF TypeOK
    <3>3. \A j \in DOMAIN chain' : chain'[j] \notin free'
      BY <1>1, <2>1, <2>2, <2>3 DEF TypeOK
    <3> QED BY <1>6, <2>2, <2>3, <3>1, <3>2, <3>3 DEF TypeOK, NoTwice
  <2>5. ASSUME ~ cut, NEW x \in Clusters
        PROVE  x \in free' \/ \E j \in DOMAIN chain' : chain'[j] = x
    BY <1>1, <2>1, <2>2, <2>3, <2>5
  <2>6. Shaped'
    <3>1. chain'[1] \notin unreadable' /\ UniqueIds(files')
      BY <1>1, <2>2, <2>3
    <3> QED BY <1>1, <1>6, <2>4, <2>5, <3>1 DEF Shaped, Counted
  <2>7. ASSUME ~ misplaced, ~ cut PROVE Sound'
    <3>1. Sound
      BY <2>7 DEF Inv
    <3>2. PICK a \in Nat, w \in Nat, x \in Nat, m \in Nat :
             /\ a = k * Slots /\ w = Slots /\ w >= 1 /\ x = n * Slots /\ m = (n - 1) * Slots
             /\ m = x - w /\ a + w <= x
      <4>1. k * Slots + Slots <= n * Slots /\ k * Slots \in Nat /\ n * Slots \in Nat
        BY <1>5, Blocks
      <4>2. (n - 1) * Slots = n * Slots - Slots
        BY <1>4, SlotsAre, SMTT(30)
      <4> QED BY <4>1, <4>2, SlotsAre
    <3>3. PICK d : d = Dir /\ d \in [0 .. x - 1 -> Entries]
      BY <1>3, <1>4, <3>2
    <3>4. Dir' = [p \in 0 .. m - 1 |-> IF p < a THEN d[p] ELSE d[p + w]]
      <4>1. Content(rest, entry)
               = [p \in 0 .. m - 1 |-> IF p < a THEN d[p] ELSE d[p + w]]
        BY <1>4, <2>3, <3>2, <3>3
      <4> QED BY <1>1, <2>2, <4>1 DEF Dir, Content
    <3>5. PICK e : /\ e = Dir' /\ e \in [0 .. m - 1 -> Entries]
                   /\ Closed(d, e, a, w)
      <4>1. ASSUME NEW p \in 0 .. m - 1 PROVE (IF p < a THEN d[p] ELSE d[p + w]) \in Entries
        <5>1. p \in 0 .. x - 1 /\ p + w \in 0 .. x - 1
          BY <3>2
        <5> QED BY <3>3, <5>1
      <4>2. Dir' \in [0 .. m - 1 -> Entries]
        BY <3>4, <4>1
      <4>3. Closed(d, Dir', a, w)
        BY <3>2, <3>4 DEF Closed
      <4> QED BY <4>2, <4>3
    <3>6. ASSUME NEW q \in a .. a + w - 1 PROVE IsFree(d[q])
      <4>1. PICK i \in Indices : q = a + i
        <5>1. q - a \in 0 .. Slots - 1 /\ q = a + (q - a)
          BY <3>2
        <5> QED BY <5>1 DEF Indices
      <4>2. PICK r \in Nat : r = k * Slots + i /\ r = q
        BY <3>2, <4>1
      <4>3. r \div Slots = k /\ r % Slots = i
        BY <1>5, <4>2, SpotOf
      <4>4. r \in Whole
        BY <1>4, <1>5, <4>3, InBlocks
      <4>5. Dir[r] = entry[chain[k + 1]][i]
        BY <1>3, <4>3, <4>4 DEF At
      <4> QED BY <2>1, <3>3, <4>2, <4>5
    <3>7. /\ Quiet(d) => Quiet(e)
          /\ Holds(d, files) => Holds(e, files)
          /\ Named(d, files) => Named(e, files)
      BY <1>3, <3>2, <3>3, <3>5, <3>6, TakenOut
    <3>8. SearchRight'
      BY <1>6 DEF SearchRight
    <3> QED BY <1>1, <3>1, <3>3, <3>5, <3>7, <3>8 DEF Sound
  <2> QED BY <1>1, <2>6, <2>7 DEF Inv
<1> QED BY <1>7, <1>8

(* Free entries at some positions become others that are free.             *)
LEMMA FilledSound ==
    ASSUME Inv, NEW positions \in SUBSET Readable, NEW value \in {End, Deleted},
           entry' = Filled(positions, value), search' = Idle,
           cut => cut', UNCHANGED <<chain, free, fixed, unreadable, files, misplaced, orphaned>>,
           ~ misplaced /\ ~ cut' => \A q \in positions : ~ IsShort(Dir[q]),
           ~ misplaced /\ ~ cut' /\ ~ orphaned => \A q \in positions : IsFree(Dir[q]),
           NEW e, e = [p \in Whole |-> IF p \in positions THEN value ELSE Dir[p]],
           ~ misplaced /\ ~ cut' => Quiet(e)
    PROVE  Inv'
<1>1. /\ TypeOK /\ chain[1] \notin unreadable /\ UniqueIds(files)
      /\ ~ cut => \A c \in Clusters : c \in free \/ \E k \in DOMAIN chain : chain[k] = c
  BY DEF Inv, Shaped
<1>2. /\ chain \in Seq(Clusters) /\ NoTwice(chain) /\ entry \in Contents
      /\ DOMAIN Dir = Whole /\ Dir \in [Whole -> Entries] /\ \A f \in files : f.name \in Names
  BY <1>1, DirIs
<1>3. PICK n \in Nat : n = Len(chain) * Slots /\ Whole = 0 .. n - 1
  BY <1>1, DirIs
<1>4. positions \in SUBSET Whole
  BY <1>1, ReadableIs
<1>5. value \in Entries /\ IsFree(value) /\ ~ IsShort(value)
  BY DEF Entries, IsFree, IsShort, End, Deleted
<1>6. PICK these : these = [q \in positions |-> value]
  OBVIOUS
<1>13. \A q \in positions : these[q] = value
  BY <1>6
<1>14. \A q \in positions : these[q] \in Entries
  BY <1>5, <1>13
<1>7. entry' = Stored(positions, these)
  BY <1>6 DEF Filled
<1>8. /\ Stored(positions, these) \in Contents
      /\ Content(chain, Stored(positions, these))
            = [p \in Whole |-> IF p \in positions THEN these[p] ELSE Dir[p]]
  BY <1>2, <1>4, <1>14, StoredContent
<1>9. Dir' = e
  <2>1. Dir' = Content(chain, Stored(positions, these))
    BY <1>7 DEF Dir, Content
  <2>2. Dir' = [p \in Whole |-> IF p \in positions THEN these[p] ELSE Dir[p]]
    BY <1>8, <2>1
  <2> QED BY <1>13, <2>2
<1>10. TypeOK'
  <2>1. entry' \in Contents
    BY <1>7, <1>8
  <2> QED BY <1>1, <2>1 DEF TypeOK, Contents
<1>11. Shaped'
  BY <1>1, <1>10 DEF Shaped, Counted, Idle
<1>12. ASSUME ~ misplaced, ~ cut' PROVE Sound'
  <2>1. Sound
    BY <1>12 DEF Inv
  <2>2. PICK d : d = Dir /\ d \in [0 .. n - 1 -> Entries]
    BY <1>2, <1>3
  <2>3. e \in [0 .. n - 1 -> Entries]
    BY <1>2, <1>3, <1>5
  <2>4. \A p \in 0 .. n - 1 : e[p] = IF p \in positions THEN value ELSE d[p]
    BY <1>3, <2>2
  <2>5. Holds(e, files)
    <3>1. \A p \in 0 .. n - 1 : e[p] = d[p] \/ (~ IsShort(d[p]) /\ ~ IsShort(e[p]))
      BY <1>5, <1>12, <2>2, <2>4
    <3>2. Holds(d, files) /\ n <= n /\ \A p \in 0 .. n - 1 : p >= n => ~ IsShort(e[p])
      BY <2>1, <2>2 DEF Sound
    <3> QED BY <2>2, <2>3, <3>1, <3>2, OthersChange
  <2>6. ASSUME ~ orphaned PROVE Named(e, files)
    <3>1. \A p \in 0 .. n - 1 : e[p] = d[p] \/ (IsFree(d[p]) /\ IsFree(e[p]))
      BY <1>5, <1>12, <2>2, <2>4, <2>6
    <3>2. /\ Named(d, files) /\ n <= n /\ \A p \in 0 .. n - 1 : p >= n => IsFree(e[p])
          /\ \A f \in files : f.name \in Names
      BY <1>2, <2>1, <2>2, <2>6 DEF Sound
    <3> QED BY <2>2, <2>3, <3>1, <3>2, FreeChange
  <2>7. SearchRight'
    BY DEF SearchRight, Idle
  <2> QED BY <1>9, <1>12, <2>5, <2>6, <2>7 DEF Sound
<1> QED BY <1>11, <1>12 DEF Inv

LEMMA CleanLastSound == ASSUME Inv, CleanLast PROVE Inv'
<1>1. /\ TypeOK /\ chain[1] \notin unreadable /\ search' = Idle
      /\ UNCHANGED <<chain, free, fixed, unreadable, files, misplaced, orphaned>>
  BY DEF Inv, Shaped, CleanLast
<1>2. PICK shorts, after : /\ shorts = ShortsIn(Readable)
                           /\ after = {q \in Readable : \A p \in shorts : q > p}
  OBVIOUS
<1>3. IF shorts = {} THEN UNCHANGED <<entry, cut>>
      ELSE /\ entry' = Filled(after, End)
           /\ cut' = (cut \/ (after # {} /\ LastRead < Len(chain)))
  BY <1>2, Zenon DEF CleanLast
<1>4. CASE shorts = {}
  BY <1>1, <1>3, <1>4, Resting
<1>5. CASE shorts # {}
  <2>1. /\ DOMAIN Dir = Whole /\ Dir \in [Whole -> Entries] /\ Readable \subseteq Whole
        /\ Whole \subseteq Nat /\ (~ (LastRead < Len(chain)) => Readable = Whole)
    BY <1>1, DirIs, ReadableIs
  <2>2. PICK e : e = [p \in Whole |-> IF p \in after THEN End ELSE Dir[p]]
    OBVIOUS
  <2>3. entry' = Filled(after, End) /\ (cut => cut') /\ after \in SUBSET Readable
    BY <1>2, <1>3, <1>5
  <2>4. ASSUME ~ misplaced, ~ cut'
        PROVE  /\ Sound
               /\ \A p : p \in shorts <=> p \in Readable /\ IsShort(Dir[p])
               /\ after # {} => Readable = Whole
    <3>1. ~ cut /\ (after # {} => ~ (LastRead < Len(chain)))
      BY <1>3, <1>5, <2>4
    <3>2. Sound
      BY <2>4, <3>1 DEF Inv
    <3> QED BY <1>1, <1>2, <2>1, <3>1, <3>2, AllSeen DEF Sound
  <2>5. ASSUME ~ misplaced, ~ cut', NEW q \in after PROVE ~ IsShort(Dir[q])
    <3>1. q \in Nat /\ q \in Readable /\ \A p \in shorts : q > p
      BY <1>2, <2>1, <2>3
    <3>2. q \notin shorts
      BY <3>1
    <3> QED BY <2>4, <2>5, <3>1, <3>2
  <2>6. ASSUME ~ misplaced, ~ cut', ~ orphaned, NEW q \in after PROVE IsFree(Dir[q])
    <3>1. q \in Nat /\ q \in Whole /\ \A p \in shorts : q > p
      BY <1>2, <2>1, <2>3
    <3>2. Dir[q].kind # "long"
      <4>1. ASSUME Dir[q].kind = "long" PROVE FALSE
        <5>1. PICK p \in Whole, f \in files : IsAt(Dir, p, f) /\ q < p
          BY <2>1, <2>4, <2>6, <3>1, <4>1 DEF Sound, Named
        <5>2. p \in shorts /\ p \in Nat
          BY <2>1, <2>4, <2>6, <5>1 DEF IsAt
        <5>3. q > p
          BY <3>1, <5>2
        <5> QED BY <3>1, <5>1, <5>2, <5>3
      <4> QED BY <4>1
    <3>3. Dir[q].kind \in {"end", "deleted", "short", "long"}
      BY <2>1, <3>1, EntryKinds
    <3> QED BY <2>5, <2>6, <3>2, <3>3 DEF IsShort, IsFree
  <2>7. ASSUME ~ misplaced, ~ cut' PROVE Quiet(e)
    <3>1. ASSUME NEW x \in Whole, NEW y \in Whole, x <= y, e[x].kind = "end"
          PROVE  e[y] = End
      <4>1. CASE y \in after
        BY <2>2, <4>1
      <4>2. CASE y \notin after
        <5>1. x \notin after
          <6>1. ASSUME x \in after PROVE y \in after
            <7>1. y \in Readable /\ \A p \in shorts : x > p /\ p \in Nat
              BY <1>2, <2>1, <2>4, <2>7, <6>1
            <7>2. x \in Nat /\ y \in Nat
              BY <2>1
            <7>3. \A p \in shorts : y > p
              BY <3>1, <7>1, <7>2
            <7> QED BY <1>2, <7>1, <7>3
          <6> QED BY <4>2, <6>1
        <5>2. e[x] = Dir[x] /\ e[y] = Dir[y]
          BY <2>2, <4>2, <5>1
        <5> QED BY <2>1, <2>4, <2>7, <3>1, <5>2 DEF Sound, Quiet
      <4> QED BY <4>1, <4>2
    <3>2. DOMAIN e = Whole
      BY <2>2
    <3> QED BY <3>1, <3>2 DEF Quiet
  <2> QED BY <1>1, <2>2, <2>3, <2>5, <2>6, <2>7, FilledSound
<1> QED BY <1>4, <1>5

LEMMA FillDeletedSound == ASSUME Inv, ~ misplaced, ~ cut, FillDeleted PROVE Inv'
<1>1. /\ TypeOK /\ chain[1] \notin unreadable /\ search = Idle /\ Sound
      /\ UNCHANGED <<chain, free, fixed, unreadable, search, files, misplaced, cut, orphaned>>
  BY DEF Inv, Shaped, FillDeleted, ghosts
<1>2. PICK ends : ends = {q \in Readable : At(q) = End}
  OBVIOUS
<1>3. /\ DOMAIN Dir = Whole /\ Dir \in [Whole -> Entries] /\ Readable \subseteq Whole
      /\ \A q \in Whole : At(q) = Dir[q]
      /\ \A p \in Readable, q \in Whole : q <= p => q \in Readable
  BY <1>1, DirIs, ReadableIs
<1>4. entry' = Filled(ends, Deleted) /\ ends \in SUBSET Readable /\ search' = Idle
  BY <1>1, <1>2 DEF FillDeleted
<1>5. \A q \in ends : IsFree(Dir[q]) /\ ~ IsShort(Dir[q])
  BY <1>2, <1>3 DEF IsFree, IsShort, End
<1>6. PICK e : e = [p \in Whole |-> IF p \in ends THEN Deleted ELSE Dir[p]]
  OBVIOUS
<1>7. Quiet(e)
  <2>1. ASSUME NEW x \in Whole, NEW y \in Whole, x <= y, e[x].kind = "end"
        PROVE  e[y] = End
    <3>1. x \notin ends /\ e[x] = Dir[x]
      BY <1>6, <2>1 DEF Deleted
    <3>2. Dir[x] = End /\ Dir[y] = End
      <4>1. Dir[x].kind = "end" /\ Dir[x] \in Entries
        BY <1>3, <2>1, <3>1
      <4> QED BY <1>1, <1>3, <2>1, <4>1, EntryKinds DEF Sound, Quiet
    <3>3. y \notin ends
      BY <1>2, <1>3, <2>1, <3>1, <3>2
    <3> QED BY <1>6, <3>2, <3>3
  <2>2. DOMAIN e = Whole
    BY <1>6
  <2> QED BY <2>1, <2>2 DEF Quiet
<1> QED BY <1>1, <1>4, <1>5, <1>6, <1>7, FilledSound

-----------------------------------------------------------------------------
LEMMA RequestedSound == ASSUME Inv, ~ misplaced, ~ cut, Requested PROVE Inv'
<1>1. ASSUME NEW n \in Names, BeginShort(n) PROVE Inv'
  <2>1. <<Stem[n], 0>> \in Aliases
    <3>1. 0 \in Numbers
      BY EntriesAssumption DEF Numbers
    <3> QED BY <3>1 DEF Aliases
  <2> QED BY <1>1, <2>1, LookingSound DEF BeginShort
<1>2. ASSUME NEW n \in Names, BeginLong(n) PROVE Inv'
  BY <1>2, AliasIs, LookingSound DEF BeginLong
<1>3. ASSUME NEW n \in Names, DeleteLong(n) PROVE Inv'
  BY <1>3, DeleteLongSound
<1>4. ASSUME NEW a \in Aliases, DeleteShort(a) PROVE Inv'
  BY <1>4, DeleteShortSound
<1>5. ASSUME Clean PROVE Inv'
  <2>1. /\ search' = Cleaning(1) /\ chain[1] \notin unreadable'
        /\ UNCHANGED <<chain, entry, free, files, misplaced, cut, orphaned>>
    BY <1>5 DEF Clean, ghosts, Inv, Shaped
  <2> QED BY <2>1, Resting
<1>6. ASSUME FillDeleted PROVE Inv'
  BY <1>6, FillDeletedSound
<1> QED BY <1>1, <1>2, <1>3, <1>4, <1>5, <1>6 DEF Requested

LEMMA Keeps == Inv /\ [Next]_vars => Inv'
<1> SUFFICES ASSUME Inv, [Next]_vars PROVE Inv'
  OBVIOUS
<1>1. CASE ~ misplaced /\ ~ cut /\ Requested
  BY <1>1, RequestedSound
<1>2. CASE FindFree
  BY <1>2, FindFreeSound
<1>3. ASSUME NEW c \in Clusters, Extend(c) PROVE Inv'
  BY <1>3, ExtendSound
<1>4. CASE NoRoom
  <2>1. /\ search' = Idle /\ chain[1] \notin unreadable'
        /\ UNCHANGED <<chain, entry, free, files, misplaced, cut, orphaned>>
    BY <1>4 DEF NoRoom, ghosts, Inv, Shaped
  <2> QED BY <2>1, Resting
<1>5. CASE Create
  BY <1>5, CreateSound
<1>6. CASE CleanNext
  BY <1>6, CleanNextSound
<1>7. CASE CleanLast
  BY <1>7, CleanLastSound
<1>8. CASE Reopen
  <2>1. /\ search' = Idle /\ chain[1] \notin unreadable'
        /\ UNCHANGED <<chain, entry, free, files, misplaced, cut, orphaned>>
    BY <1>8 DEF Reopen, ghosts, Inv, Shaped
  <2> QED BY <2>1, Resting
<1>9. CASE UNCHANGED vars
  <2>1. /\ UNCHANGED <<chain, entry, free, fixed, unreadable, search, files>>
        /\ UNCHANGED <<misplaced, cut, orphaned>>
    BY <1>9 DEF vars, ghosts
  <2>2. Shaped'
    BY <2>1 DEF Inv, Shaped, TypeOK, UniqueIds, Counted, Ids
  <2>3. Dir' = Dir /\ Whole' = Whole
    BY <2>1 DEF Dir, Content, Whole
  <2>4. ~ misplaced /\ ~ cut => Sound'
    BY <2>1, <2>3 DEF Inv, Sound, SearchRight
  <2> QED BY <2>1, <2>2, <2>4 DEF Inv
<1> QED BY <1>1, <1>2, <1>3, <1>4, <1>5, <1>6, <1>7, <1>8, <1>9 DEF Next, Searching

-----------------------------------------------------------------------------
(* Whatever searches of free entries, extensions of the directory,         *)
(* deletions and cleanings are done, every cluster is in the chain of the  *)
(* directory or free, and not both, unless the search cut some off.        *)
THEOREM ClustersAreKept == Spec => []ClustersKept
<1>1. Spec => []Inv
  BY Starts, Keeps, PTL DEF Spec
<1> QED BY <1>1, InvClusters, PTL

(* A file created at the end of a directory leaves an end after it: the    *)
(* scans of lib/directory.c and lib/long.c, which stop at the first end    *)
(* entry, miss nothing.                                                    *)
THEOREM EndIsLast == Spec => []NothingAfterEnd
<1>1. Spec => []Inv
  BY Starts, Keeps, PTL DEF Spec
<1> QED BY <1>1, InvEnd, PTL

(* The files of a directory are those that fatcreatefileshortlong() stored *)
(* and fatdeletelong() and fatentrydelete() did not delete, each with one  *)
(* short entry and, if no parts of a long name were left behind, with the  *)
(* name it was created with, in a directory of any size.                   *)
THEOREM FilesAreKept == Spec => []FilesKept
<1>1. Spec => []Inv
  BY Starts, Keeps, PTL DEF Spec
<1> QED BY <1>1, InvFiles, PTL

(* The entries fatfindfreelong() gives are free, as its manual says, when  *)
(* none was given with the cluster before its own and no cluster was cut   *)
(* off: this alone makes creating a file overwrite another.                *)
THEOREM FreeUnlessMisplaced == Spec => [](~ misplaced /\ ~ cut => FreeIsFree)
<1>1. Spec => []Inv
  BY Starts, Keeps, PTL DEF Spec
<1>2. Inv => (~ misplaced /\ ~ cut => FreeIsFree)
  <2> SUFFICES ASSUME Inv, ~ misplaced, ~ cut, search.state = "found",
                      NEW q \in search.start .. search.pos
               PROVE  ~ Exists(q)
    BY DEF FreeIsFree
  <2>1. TypeOK /\ Counted /\ SearchRight
    BY DEF Inv, Shaped, Sound
  <2>2. PICK x \in Int, a \in Int, c \in Nat, w \in Nat :
           /\ x = search.pos /\ a = search.start /\ c = search.consecutive
           /\ w = Parts[search.name] /\ q \in a .. x
    BY <2>1, SearchIs
  <2>3. c = w + 1 /\ a >= 0
    BY <2>1, <2>2 DEF Counted
  <2>4. x \in Whole /\ IsFree(Dir[q])
    BY <2>1, <2>2, <2>3 DEF SearchRight
  <2>5. q \in Whole /\ At(q) = Dir[q]
    <3>1. Len(chain) * Slots \in Nat /\ Whole = 0 .. Len(chain) * Slots - 1
          /\ \A p \in Whole : At(p) = Dir[p]
      BY <2>1, DirIs
    <3> QED BY <2>2, <2>3, <2>4, <3>1
  <2> QED BY <2>4, <2>5 DEF Exists, IsFree
<1> QED BY <1>1, <1>2, PTL
=============================================================================
