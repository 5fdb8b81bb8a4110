--------------------------- MODULE RenumberProofs ---------------------------
(***************************************************************************)
(* Proofs about ClusterRefs, InverseFat and Traverse, for any number of    *)
(* clusters, units and entries: moving or swapping clusters by way of      *)
(* their references gives other numbers to the same contents, so no file   *)
(* changes, and the inverse FAT follows.                                   *)
(***************************************************************************)
EXTENDS Traverse, FiniteSetTheorems, WellFoundedInduction, TLAPS

LEMMA LeastNumber ==
    ASSUME NEW S \in SUBSET Nat, S # {}
    PROVE  \E k \in S : \A j \in S : k <= j
<1>1. PICK k \in S : \A j \in S : <<j, k>> \notin OpToRel(<, Nat)
  BY NatLessThanWellFounded, WFMin
<1>2. ASSUME NEW j \in S
      PROVE  k <= j
  <2>1. ~ (j < k)
    BY <1>1 DEF OpToRel
  <2> QED BY <2>1, SMTT(30)
<1> QED BY <1>2

(* The numbers a and b are exchanged, those of clusters and those in the   *)
(* references that files are made of; moving is exchanging with a cluster  *)
(* that is free.                                                           *)
Swap(a, b, c) == IF c = a THEN b ELSE IF c = b THEN a ELSE c

Renamed(f, g, a, b) ==
    /\ f \in Filesystems /\ g \in Filesystems /\ a \in Clusters /\ b \in Clusters
    /\ g.kind = f.kind
    /\ \A c \in Numbers : g.at[Swap(a, b, c)] = f.at[c]
    /\ \A c \in Clusters : g.next[Swap(a, b, c)] = Swap(a, b, f.next[c])
    /\ g.root = Swap(a, b, f.root)
    /\ \A u \in Units, i \in Indices : f.kind[u][i] \in FileKinds =>
          g.first[u][i] = Swap(a, b, f.first[u][i])

(* The reference that has the place of another.                            *)
Instead(a, b, r) == IF r = Following(a) THEN Following(b)
                    ELSE IF r = Following(b) THEN Following(a) ELSE r

LEMMA NumbersAre ==
    /\ FAT_ROOT \notin Clusters /\ FAT_UNUSED \notin Numbers
    /\ FAT_EOF \notin Numbers /\ FAT_BAD \notin Numbers /\ FAT_ERR \notin Numbers
    /\ FAT_UNUSED # FAT_EOF /\ FAT_UNUSED # FAT_BAD /\ FAT_EOF # FAT_BAD
    /\ \A c \in Clusters : c \in Int /\ c >= FAT_FIRST
    /\ \A c \in Nexts \cup {FAT_ROOT, FAT_ERR} :
          c \in Int /\ (c >= FAT_FIRST <=> c \in Clusters)
BY RefsAssumption, SMTT(30)
   DEF Numbers, Clusters, Nexts, FAT_ROOT, FAT_FIRST, FAT_UNUSED, FAT_EOF, FAT_BAD, FAT_ERR

LEMMA SwapTwice ==
    ASSUME NEW a \in Clusters, NEW b \in Clusters
    PROVE  /\ \A c : Swap(a, b, Swap(a, b, c)) = c
           /\ \A c, d : Swap(a, b, c) = Swap(a, b, d) => c = d
           /\ \A c : Swap(a, b, c) \in Clusters <=> c \in Clusters
           /\ \A c : Swap(a, b, c) \in Numbers <=> c \in Numbers
           /\ \A c : c \notin Clusters => Swap(a, b, c) = c
BY DEF Swap, Numbers

-----------------------------------------------------------------------------
(* The references that are not dot files: each leads to a number that is   *)
(* that of a cluster, or to none.                                          *)
LEMMA LinkCases ==
    ASSUME NEW f, NEW r \in Links(f)
    PROVE  \/ r = Boot
           \/ \E c \in Clusters : r = Following(c)
           \/ \E u \in Units, i \in Indices : r = Entry(u, i) /\ f.kind[u][i] \in FileKinds
BY DEF Links, KindOf, Entry, Ref

LEMMA LinkTargets ==
    ASSUME NEW f \in Filesystems
    PROVE  /\ Target(f, Boot) = f.root
           /\ \A c \in Clusters : Target(f, Following(c)) = f.next[c]
           /\ \A u \in Units, i \in Indices : Target(f, Entry(u, i)) = f.first[u][i]
           /\ f.root \in Numbers
           /\ \A c \in Clusters : f.next[c] \in Nexts
           /\ \A u \in Units, i \in Indices :
                 f.first[u][i] \in Clusters \cup {FAT_UNUSED}
<1>1. \A c \in Clusters : c \in Int /\ c >= FAT_FIRST /\ c # -1
  BY NumbersAre, SMTT(30) DEF FAT_FIRST
<1>2. \A u \in Units : u # NoUnit
  BY RefsAssumption
<1>3. Target(f, Boot) = f.root
  BY DEF Target, Boot, Ref, IsEntry, IsBoot
<1>4. \A c \in Clusters : Target(f, Following(c)) = f.next[c]
  <2> TAKE c \in Clusters
  <2> DEFINE r == Following(c)
  <2>1. r.previous = c /\ r.directory = NoUnit
    BY DEF Following, Ref
  <2>2. ~ IsEntry(r) /\ ~ IsBoot(r)
    BY <1>1, <2>1 DEF IsEntry, IsBoot
  <2> HIDE DEF r
  <2>3. Target(f, r) = NextCluster(f, c)
    BY <1>1, <2>1, <2>2 DEF Target
  <2> QED BY <2>3 DEF NextCluster, r
<1>5. \A u \in Units, i \in Indices : Target(f, Entry(u, i)) = f.first[u][i]
  BY <1>2 DEF Target, Entry, Ref, IsEntry
<1> QED BY <1>3, <1>4, <1>5 DEF Filesystems, Numbers

LEMMA LinkTarget ==
    ASSUME NEW f \in Filesystems, NEW r \in Links(f)
    PROVE  Target(f, r) \in Nexts \cup {FAT_ROOT}
<1>1. CASE r = Boot
  BY <1>1, LinkTargets DEF Numbers, Nexts
<1>2. CASE \E c \in Clusters : r = Following(c)
  BY <1>2, LinkTargets
<1>3. CASE \E u \in Units, i \in Indices : r = Entry(u, i)
  BY <1>3, LinkTargets DEF Nexts
<1> QED BY <1>1, <1>2, <1>3, LinkCases

LEMMA Apart ==
    /\ \A c, d : Following(c) = Following(d) => c = d
    /\ \A c \in Clusters : Following(c) # Boot
    /\ \A u \in Units, i \in Indices :
          /\ Entry(u, i) # Boot
          /\ \A c : Entry(u, i) # Following(c)
          /\ \A v, j : Entry(u, i) = Entry(v, j) => u = v /\ i = j
<1>1. \A c \in Clusters : c # -1
  BY NumbersAre, SMTT(30) DEF FAT_FIRST
<1>2. \A u \in Units : u # NoUnit
  BY RefsAssumption
<1>3. \A c : Following(c).previous = c /\ Following(c).directory = NoUnit
  BY DEF Following, Ref
<1>4. \A u, i : Entry(u, i).directory = u /\ Entry(u, i).index = i
  BY DEF Entry, Ref
<1>5. Boot.previous = -1 /\ Boot.directory = NoUnit
  BY DEF Boot, Ref
<1> QED BY <1>1, <1>2, <1>3, <1>4, <1>5

LEMMA InsteadTwice ==
    ASSUME NEW a, NEW b
    PROVE  /\ \A r : Instead(a, b, Instead(a, b, r)) = r
           /\ \A r, q : Instead(a, b, r) = Instead(a, b, q) => r = q
BY DEF Instead

(* Each reference, or the one in its place, leads to the exchanged number. *)
LEMMA RenamedTargets ==
    ASSUME NEW f, NEW g, NEW a, NEW b, Renamed(f, g, a, b)
    PROVE  /\ Links(g) = Links(f)
           /\ \A r \in Links(f) :
                 /\ Instead(a, b, r) \in Links(f)
                 /\ Target(g, Instead(a, b, r)) = Swap(a, b, Target(f, r))
<1>0. f \in Filesystems /\ g \in Filesystems /\ a \in Clusters /\ b \in Clusters
  BY DEF Renamed
<1>1. Links(g) = Links(f)
  BY DEF Links, KindOf, Renamed
<1>2. ASSUME NEW r \in Links(f)
      PROVE  Instead(a, b, r) \in Links(f)
               /\ Target(g, Instead(a, b, r)) = Swap(a, b, Target(f, r))
  <2>1. CASE r = Boot
    <3>1. Instead(a, b, r) = Boot
      BY <1>0, <2>1, Apart DEF Instead
    <3> QED BY <1>0, <1>2, <2>1, <3>1, LinkTargets DEF Renamed
  <2>2. ASSUME NEW c \in Clusters, r = Following(c)
        PROVE  Instead(a, b, r) \in Links(f)
                 /\ Target(g, Instead(a, b, r)) = Swap(a, b, Target(f, r))
    <3>1. Instead(a, b, r) = Following(Swap(a, b, c))
      BY <2>2, Apart DEF Instead, Swap
    <3>2. Swap(a, b, c) \in Clusters
      BY <1>0, SwapTwice
    <3>3. Target(g, Instead(a, b, r)) = g.next[Swap(a, b, c)]
      BY <1>0, <3>1, <3>2, LinkTargets
    <3>4. Target(f, r) = f.next[c]
      BY <1>0, <2>2, LinkTargets
    <3>5. Instead(a, b, r) \in Links(f)
      BY <3>1, <3>2 DEF Links
    <3> QED BY <2>2, <3>3, <3>4, <3>5 DEF Renamed
  <2>3. ASSUME NEW u \in Units, NEW i \in Indices, r = Entry(u, i),
               f.kind[u][i] \in FileKinds
        PROVE  Instead(a, b, r) \in Links(f)
                 /\ Target(g, Instead(a, b, r)) = Swap(a, b, Target(f, r))
    <3>1. Instead(a, b, r) = r
      BY <2>3, Apart DEF Instead
    <3> QED BY <1>0, <1>2, <2>3, <3>1, LinkTargets DEF Renamed
  <2> QED BY <2>1, <2>2, <2>3, LinkCases
<1> QED BY <1>1, <1>2

LEMMA RenamedSound ==
    ASSUME NEW f, NEW g, NEW a, NEW b, Renamed(f, g, a, b), Sound(f)
    PROVE  Sound(g) /\ (AllGood(f) => AllGood(g))
<1> DEFINE S(c) == Swap(a, b, c)
           I(r) == Instead(a, b, r)
<1>0. f \in Filesystems /\ g \in Filesystems /\ a \in Clusters /\ b \in Clusters
  BY DEF Renamed
<1>1. /\ \A c : S(S(c)) = c
      /\ \A c, d : S(c) = S(d) => c = d
      /\ \A c : S(c) \in Clusters <=> c \in Clusters
      /\ \A c : S(c) \in Numbers <=> c \in Numbers
      /\ S(FAT_UNUSED) = FAT_UNUSED /\ S(FAT_BAD) = FAT_BAD
  BY <1>0, SwapTwice, NumbersAre DEF Numbers
<1>2. /\ \A r : I(I(r)) = r
      /\ \A r, q : I(r) = I(q) => r = q
  BY InsteadTwice
<1>3. Links(g) = Links(f) /\ \A r \in Links(f) : I(r) \in Links(f)
         /\ Target(g, I(r)) = S(Target(f, r))
  BY RenamedTargets
<1>4. \A r \in Links(g) : I(r) \in Links(f) /\ Target(g, r) = S(Target(f, I(r)))
  BY <1>2, <1>3
<1>5. /\ \A c \in Numbers : g.at[S(c)] = f.at[c]
      /\ \A c \in Clusters : g.next[S(c)] = S(f.next[c])
      /\ g.root = S(f.root)
  BY DEF Renamed
<1>6. f.root \in Numbers
  BY <1>0, LinkTargets
<1> HIDE DEF S, I
<1>7. ASSUME NEW r \in Links(g), NEW q \in Links(g), Target(g, r) \in Clusters,
             Target(g, r) = Target(g, q)
      PROVE  r = q
  <2>1. Target(f, I(r)) \in Clusters /\ Target(f, I(r)) = Target(f, I(q))
    BY <1>1, <1>4, <1>7
  <2>2. I(r) = I(q)
    BY <1>4, <2>1 DEF Sound
  <2> QED BY <1>2, <2>2
<1>8. ASSUME NEW r \in Links(g), Target(g, r) \in Clusters
      PROVE  /\ g.next[Target(g, r)] # FAT_UNUSED
             /\ g.at[Target(g, r)] # NoUnit
             /\ AllGood(f) => g.next[Target(g, r)] # FAT_BAD
  <2> DEFINE t == Target(f, I(r))
  <2>1. I(r) \in Links(f) /\ t \in Clusters /\ Target(g, r) = S(t)
    BY <1>1, <1>4, <1>8
  <2>2. f.next[t] # FAT_UNUSED /\ f.at[t] # NoUnit
          /\ (AllGood(f) => f.next[t] # FAT_BAD)
    BY <2>1 DEF Sound, AllGood
  <2> HIDE DEF t
  <2>3. g.next[S(t)] = S(f.next[t]) /\ g.at[S(t)] = f.at[t]
    BY <1>5, <2>1 DEF Numbers
  <2> QED BY <1>1, <2>1, <2>2, <2>3
<1>9. g.at[g.root] # NoUnit
  BY <1>5, <1>6 DEF Sound
<1>10. ASSUME NEW c \in Clusters
       PROVE  g.next[c] # c /\ (g.next[c] = FAT_UNUSED => g.at[c] = NoUnit)
  <2>1. S(c) \in Clusters /\ S(c) \in Numbers /\ S(S(c)) = c
    BY <1>1 DEF Numbers
  <2>2. g.next[c] = S(f.next[S(c)]) /\ g.at[c] = f.at[S(c)]
    BY <1>5, <2>1
  <2>3. f.next[S(c)] # S(c) /\ (f.next[S(c)] = FAT_UNUSED => f.at[S(c)] = NoUnit)
    BY <2>1 DEF Sound
  <2> QED BY <1>1, <2>1, <2>2, <2>3
<1>11. ASSUME NEW c \in Numbers, NEW d \in Numbers, g.at[c] # NoUnit, g.at[c] = g.at[d]
       PROVE  c = d
  <2>1. S(c) \in Numbers /\ S(d) \in Numbers /\ S(S(c)) = c /\ S(S(d)) = d
    BY <1>1
  <2>2. g.at[c] = f.at[S(c)] /\ g.at[d] = f.at[S(d)]
    BY <1>5, <2>1
  <2>3. S(c) = S(d)
    BY <1>11, <2>1, <2>2 DEF Sound, Numbers
  <2> QED BY <2>1, <2>3
<1>12. Sound(g)
  BY <1>7, <1>8, <1>9, <1>10, <1>11 DEF Sound, Numbers
<1>13. AllGood(f) => AllGood(g)
  BY <1>8 DEF AllGood
<1> QED BY <1>12, <1>13

LEMMA NextRenamed ==
    ASSUME NEW f, NEW g, NEW a, NEW b, Renamed(f, g, a, b), NEW c \in Numbers
    PROVE  NextCluster(g, Swap(a, b, c)) = Swap(a, b, NextCluster(f, c))
<1>0. a \in Clusters /\ b \in Clusters
  BY DEF Renamed
<1>1. CASE c \in Clusters
  BY <1>0, <1>1, SwapTwice DEF NextCluster, Renamed
<1>2. CASE c = FAT_ROOT
  <2>1. Swap(a, b, c) = FAT_ROOT /\ Swap(a, b, FAT_EOF) = FAT_EOF
    BY <1>0, <1>2, NumbersAre, SwapTwice DEF Numbers
  <2> QED BY <1>2, <2>1, NumbersAre DEF NextCluster
<1> QED BY <1>1, <1>2 DEF Numbers

(* The contents that a number leads to are what the exchanged number does. *)
LEMMA RenamedFiles ==
    ASSUME NEW f, NEW g, NEW a, NEW b, Renamed(f, g, a, b), Sound(f)
    PROVE  Files(g) = Files(f) /\ Placed(g) = Placed(f)
<1> DEFINE S(c) == Swap(a, b, c)
<1>0. f \in Filesystems /\ g \in Filesystems /\ a \in Clusters /\ b \in Clusters
  BY DEF Renamed
<1>1. /\ \A c : S(S(c)) = c
      /\ \A c : S(c) \in Numbers <=> c \in Numbers
  BY <1>0, SwapTwice
<1>2. /\ \A c \in Numbers : g.at[S(c)] = f.at[c]
      /\ \A c \in Numbers : NextCluster(g, S(c)) = S(NextCluster(f, c))
      /\ g.kind = f.kind
      /\ g.root = S(f.root)
      /\ \A u \in Units, i \in Indices : f.kind[u][i] \in FileKinds =>
          g.first[u][i] = S(f.first[u][i])
  BY NextRenamed DEF Renamed
<1> HIDE DEF S
<1>3. \A c : UnitAt(g, S(c)) = UnitAt(f, c)
  BY <1>1, <1>2 DEF UnitAt, Numbers
<1>4. Placed(g) = Placed(f)
  BY <1>1, <1>2 DEF Placed, Numbers
<1>5. ASSUME NEW u \in Placed(f)
      PROVE  NumberOf(g, u) = S(NumberOf(f, u)) /\ NumberOf(f, u) \in Numbers
  <2>0. u # NoUnit /\ u \in Placed(g)
    BY <1>4, RefsAssumption DEF Placed
  <2>1. NumberOf(f, u) \in Numbers /\ f.at[NumberOf(f, u)] = u
    BY DEF Placed, NumberOf, Numbers
  <2>2. NumberOf(g, u) \in Numbers /\ g.at[NumberOf(g, u)] = u
    BY <2>0 DEF Placed, NumberOf, Numbers
  <2>3. S(NumberOf(f, u)) \in Numbers /\ g.at[S(NumberOf(f, u))] = u
    BY <1>1, <1>2, <2>1
  <2>4. Sound(g)
    BY RenamedSound
  <2> HIDE DEF Numbers
  <2>5. \A c, d \in Numbers : g.at[c] # NoUnit /\ g.at[c] = g.at[d] => c = d
    BY <2>4 DEF Sound, Numbers
  <2> QED BY <2>0, <2>1, <2>2, <2>3, <2>5
<1>6. \A e \in Units \X Indices :
         f.kind[e[1]][e[2]] \in {"file", "dir"} =>
            UnitAt(g, g.first[e[1]][e[2]]) = UnitAt(f, f.first[e[1]][e[2]])
  BY <1>2, <1>3 DEF FileKinds
<1>7. \A u \in Placed(f) :
         UnitAt(g, NextCluster(g, NumberOf(g, u))) = UnitAt(f, NextCluster(f, NumberOf(f, u)))
  BY <1>2, <1>3, <1>5
<1>8. UnitAt(g, g.root) = UnitAt(f, f.root)
  BY <1>2, <1>3
<1> QED BY <1>2, <1>4, <1>6, <1>7, <1>8 DEF Files

-----------------------------------------------------------------------------
(* What fatreferencesettarget() changes.                                   *)
LEMMA TargetIsSet ==
    ASSUME NEW f \in Filesystems, NEW r \in Links(f), NEW n \in Clusters
    PROVE  LET g == SetTarget(f, r, n)
           IN  /\ g \in Filesystems
               /\ g.kind = f.kind /\ g.at = f.at
               /\ \A c \in Clusters :
                     g.next[c] = IF r = Following(c) THEN n ELSE f.next[c]
               /\ g.root = IF r = Boot /\ f.root # FAT_ROOT THEN n ELSE f.root
               /\ \A u \in Units, i \in Indices :
                     g.first[u][i] = IF r = Entry(u, i) THEN n ELSE f.first[u][i]
<1> DEFINE g == SetTarget(f, r, n)
<1>0. n \notin {FAT_EOF, FAT_ROOT} /\ n \in Nexts
  BY NumbersAre DEF Numbers, Nexts
<1>1. CASE r = Boot
  <2>1. g = [f EXCEPT !.root = IF @ = FAT_ROOT THEN @ ELSE n]
    BY <1>1 DEF SetTarget, Boot, Ref, IsEntry, IsBoot
  <2> QED BY <1>1, <2>1, Apart DEF Filesystems
<1>2. ASSUME NEW d \in Clusters, r = Following(d)
      PROVE  /\ g = [f EXCEPT !.next =
                        [c \in Clusters |-> IF c = d THEN n ELSE f.next[c]]]
             /\ \A c \in Clusters : r = Following(c) <=> c = d
             /\ r # Boot /\ \A u \in Units, i \in Indices : r # Entry(u, i)
  <2>1. r.previous = d /\ r.directory = NoUnit /\ d # -1
    BY <1>2, NumbersAre, SMTT(30) DEF Following, Ref, FAT_FIRST
  <2> QED BY <1>2, <2>1, Apart DEF SetTarget, IsEntry, IsBoot
<1>3. CASE \E d \in Clusters : r = Following(d)
  <2> PICK d \in Clusters : r = Following(d)
    BY <1>3
  <2> DEFINE x == [c \in Clusters |-> IF c = d THEN n ELSE f.next[c]]
  <2>1. g = [f EXCEPT !.next = x]
    BY <1>2
  <2>2. \A c \in Clusters : x[c] = IF r = Following(c) THEN n ELSE f.next[c]
    BY <1>2
  <2>3. x \in [Clusters -> Nexts]
    BY <1>0 DEF Filesystems
  <2> HIDE DEF x, g
  <2>4. r # Boot /\ \A u \in Units, i \in Indices : r # Entry(u, i)
    BY <1>2
  <2>5. g \in Filesystems
    BY <2>1, <2>3 DEF Filesystems
  <2>6. /\ g.next = x /\ g.kind = f.kind /\ g.at = f.at /\ g.root = f.root
        /\ g.first = f.first
    BY <2>1 DEF Filesystems
  <2> QED BY <2>2, <2>4, <2>5, <2>6 DEF g
<1>4. ASSUME NEW v \in Units, NEW j \in Indices, r = Entry(v, j)
      PROVE  /\ g = [f EXCEPT !.first[v][j] = n]
             /\ r # Boot /\ \A c \in Clusters : r # Following(c)
             /\ \A u \in Units, i \in Indices : r = Entry(u, i) <=> u = v /\ i = j
  <2>1. r.directory = v /\ r.index = j /\ v # NoUnit
    BY <1>4, RefsAssumption DEF Entry, Ref
  <2> QED BY <1>0, <1>4, <2>1, Apart DEF SetTarget, IsEntry
<1>5. CASE \E u \in Units, i \in Indices : r = Entry(u, i)
  <2> PICK v \in Units, j \in Indices : r = Entry(v, j)
    BY <1>5
  <2>1. g = [f EXCEPT !.first[v][j] = n]
    BY <1>4
  <2>2. f.first \in [Units -> [Indices -> Clusters \cup {FAT_UNUSED}]]
    BY DEF Filesystems
  <2>3. g.first = [f.first EXCEPT ![v] = [@ EXCEPT ![j] = n]]
    BY <2>1 DEF Filesystems
  <2>4. g.first \in [Units -> [Indices -> Clusters \cup {FAT_UNUSED}]]
    BY <2>2, <2>3
  <2>5. \A u \in Units, i \in Indices :
           g.first[u][i] = IF r = Entry(u, i) THEN n ELSE f.first[u][i]
    BY <1>4, <2>2, <2>3
  <2>6. g.kind = f.kind /\ g.at = f.at /\ g.next = f.next /\ g.root = f.root
    BY <2>1 DEF Filesystems
  <2>7. g \in Filesystems
    <3> DEFINE x == g.first
    <3>1. g = [f EXCEPT !.first = x]
      BY <2>1, <2>3 DEF Filesystems
    <3>2. x \in [Units -> [Indices -> Clusters \cup {FAT_UNUSED}]]
      BY <2>4
    <3> HIDE DEF x, g
    <3> QED BY <3>1, <3>2 DEF Filesystems
  <2> QED BY <1>4, <2>5, <2>6, <2>7
<1> QED BY <1>1, <1>3, <1>5, LinkCases

(* fatclustermove() to a free cluster and fatclusterswap() exchange two    *)
(* numbers, wherever the references are: in the cluster that is moved, or  *)
(* one after the other.                                                    *)
LEMMA MovedIsRenamed ==
    ASSUME NEW f \in Filesystems, Sound(f), NEW r \in Links(f),
           Target(f, r) \in Clusters,
           NEW b \in Clusters, f.next[b] = FAT_UNUSED
    PROVE  Renamed(f, Moved(f, r, b), Target(f, r), b)
<1> DEFINE a == Target(f, r)
           at == [f.at EXCEPT ![a] = NoUnit, ![b] = f.at[a]]
           f0 == [f EXCEPT !.at = at]
           s == SetTarget(f0, r, b)
           next == [c \in Clusters |-> IF c = b THEN f.next[a]
                                       ELSE IF c = a THEN FAT_UNUSED ELSE s.next[c]]
           g == Moved(f, r, b)
<1>1. a \in Clusters /\ a # b /\ f.at[b] = NoUnit
        /\ f.next[a] # a /\ f.next[a] # b
  <2>1. a # b
    BY DEF Sound
  <2>2. f.next[a] # a /\ f.at[b] = NoUnit
    BY DEF Sound
  <2>3. Following(a) \in Links(f) /\ Target(f, Following(a)) = f.next[a]
    BY LinkTargets DEF Links
  <2>4. f.next[a] # b
    BY <2>3 DEF Sound
  <2> QED BY <2>1, <2>2, <2>4
<1>2. /\ at \in [Numbers -> Units \cup {NoUnit}]
      /\ \A c \in Numbers : at[Swap(a, b, c)] = f.at[c]
  <2>1. f.at \in [Numbers -> Units \cup {NoUnit}]
    BY DEF Filesystems, Numbers
  <2>2. a \in Numbers /\ b \in Numbers
    BY <1>1 DEF Numbers
  <2> HIDE DEF a
  <2> QED BY <1>1, <2>1, <2>2 DEF Swap
<1>3. f0 \in Filesystems
  <2> HIDE DEF at
  <2> QED BY <1>2 DEF Filesystems, Numbers
<1>4. /\ f0.kind = f.kind /\ f0.at = at /\ f0.next = f.next /\ f0.root = f.root
      /\ f0.first = f.first
  <2> HIDE DEF at
  <2> QED BY DEF Filesystems
<1>5. r \in Links(f0)
  BY <1>4 DEF Links, KindOf
<1> HIDE DEF f0, at, a
<1>6. /\ s \in Filesystems /\ s.kind = f.kind /\ s.at = at
      /\ \A c \in Clusters : s.next[c] = IF r = Following(c) THEN b ELSE f.next[c]
      /\ s.root = IF r = Boot /\ f.root # FAT_ROOT THEN b ELSE f.root
      /\ \A u \in Units, i \in Indices :
            s.first[u][i] = IF r = Entry(u, i) THEN b ELSE f.first[u][i]
  BY <1>3, <1>4, <1>5, TargetIsSet
<1> HIDE DEF s
<1>7. next \in [Clusters -> Nexts]
  <2>1. f.next \in [Clusters -> Nexts] /\ s.next \in [Clusters -> Nexts]
    BY <1>6 DEF Filesystems
  <2>2. FAT_UNUSED \in Nexts
    BY DEF Nexts
  <2> QED BY <1>1, <2>1, <2>2
<1>8. g = [s EXCEPT !.next = next]
  BY DEF Moved, a, at, f0, s
<1> HIDE DEF next, g
<1>9. /\ g \in Filesystems /\ g.kind = s.kind /\ g.at = s.at /\ g.next = next
      /\ g.root = s.root /\ g.first = s.first
  BY <1>6, <1>7, <1>8 DEF Filesystems
<1>10. \A q \in Links(f) : Target(f, q) = a => q = r
  BY <1>1 DEF Sound, a
<1>11. \A q \in Links(f) : Target(f, q) # b
  BY DEF Sound
<1>12. \A c \in Clusters : g.next[Swap(a, b, c)] = Swap(a, b, f.next[c])
  <2> TAKE c \in Clusters
  <2>1. Following(c) \in Links(f) /\ Target(f, Following(c)) = f.next[c]
    BY LinkTargets DEF Links
  <2>2. f.next[c] # b /\ (f.next[c] = a => r = Following(c))
    BY <1>10, <1>11, <2>1
  <2>3. r = Following(c) => f.next[c] = a
    BY <2>1 DEF a
  <2>4. CASE c = a
    BY <1>1, <1>9, <2>4 DEF Swap, next
  <2>5. CASE c = b
    <3>1. FAT_UNUSED # a /\ FAT_UNUSED # b
      BY <1>1, NumbersAre DEF Numbers
    <3> QED BY <1>1, <1>9, <2>5, <3>1 DEF Swap, next
  <2>6. CASE c # a /\ c # b
    BY <1>6, <1>9, <2>2, <2>3, <2>6 DEF Swap, next
  <2> QED BY <2>4, <2>5, <2>6
<1>13. g.root = Swap(a, b, f.root)
  <2>1. Boot \in Links(f) /\ Target(f, Boot) = f.root
    BY LinkTargets DEF Links
  <2>2. f.root # b /\ (f.root = a <=> r = Boot)
    BY <1>10, <1>11, <2>1 DEF a
  <2>3. r = Boot => f.root # FAT_ROOT
    BY <1>1, <2>2, NumbersAre
  <2> QED BY <1>6, <1>9, <2>2, <2>3 DEF Swap
<1>14. ASSUME NEW u \in Units, NEW i \in Indices, f.kind[u][i] \in FileKinds
       PROVE  g.first[u][i] = Swap(a, b, f.first[u][i])
  <2>1. Entry(u, i) \in Links(f) /\ Target(f, Entry(u, i)) = f.first[u][i]
    BY <1>14, LinkTargets DEF Links, KindOf, Entry, Ref
  <2>2. f.first[u][i] # b /\ (f.first[u][i] = a <=> r = Entry(u, i))
    BY <1>10, <1>11, <2>1 DEF a
  <2> QED BY <1>6, <1>9, <2>2 DEF Swap
<1> QED BY <1>1, <1>2, <1>6, <1>9, <1>12, <1>13, <1>14 DEF Renamed, a, g

LEMMA SwappedIsRenamed ==
    ASSUME NEW f \in Filesystems, Sound(f),
           NEW r \in Links(f), Target(f, r) \in Clusters,
           NEW q \in Links(f), Target(f, q) \in Clusters,
           Target(f, r) # Target(f, q)
    PROVE  Renamed(f, Swapped(f, r, q), Target(f, r), Target(f, q))
<1> DEFINE a == Target(f, r)
           b == Target(f, q)
           nexta == IF f.next[a] = b THEN a ELSE f.next[a]
           nextb == IF f.next[b] = a THEN b ELSE f.next[b]
           at == [f.at EXCEPT ![a] = f.at[b], ![b] = f.at[a]]
           f0 == [f EXCEPT !.at = at]
           s0 == SetTarget(f0, r, b)
           s == SetTarget(s0, q, a)
           next == [c \in Clusters |-> IF c = a THEN nextb
                                       ELSE IF c = b THEN nexta ELSE s.next[c]]
           g == Swapped(f, r, q)
<1>1. a \in Clusters /\ b \in Clusters /\ a # b
        /\ f.next[a] # a /\ f.next[b] # b
  BY DEF Sound
<1>2. /\ at \in [Numbers -> Units \cup {NoUnit}]
      /\ \A c \in Numbers : at[Swap(a, b, c)] = f.at[c]
  <2>1. f.at \in [Numbers -> Units \cup {NoUnit}]
    BY DEF Filesystems, Numbers
  <2>2. a \in Numbers /\ b \in Numbers
    BY <1>1 DEF Numbers
  <2> HIDE DEF a, b
  <2> QED BY <1>1, <2>1, <2>2 DEF Swap
<1>3. f0 \in Filesystems
  <2> HIDE DEF at
  <2> QED BY <1>2 DEF Filesystems, Numbers
<1>4. /\ f0.kind = f.kind /\ f0.at = at /\ f0.next = f.next /\ f0.root = f.root
      /\ f0.first = f.first
  <2> HIDE DEF at
  <2> QED BY DEF Filesystems
<1>5. r \in Links(f0)
  BY <1>4 DEF Links, KindOf
<1>6. r # q
  BY <1>1
<1> HIDE DEF f0, at, a, b
<1>7. /\ s0 \in Filesystems /\ s0.kind = f.kind /\ s0.at = at
      /\ \A c \in Clusters : s0.next[c] = IF r = Following(c) THEN b ELSE f.next[c]
      /\ s0.root = IF r = Boot /\ f.root # FAT_ROOT THEN b ELSE f.root
      /\ \A u \in Units, i \in Indices :
            s0.first[u][i] = IF r = Entry(u, i) THEN b ELSE f.first[u][i]
  BY <1>1, <1>3, <1>4, <1>5, TargetIsSet
<1>8. q \in Links(s0)
  BY <1>7 DEF Links, KindOf
<1> HIDE DEF s0
<1>9. /\ s \in Filesystems /\ s.kind = f.kind /\ s.at = at
      /\ \A c \in Clusters : s.next[c] = IF q = Following(c) THEN a ELSE s0.next[c]
      /\ s.root = IF q = Boot /\ s0.root # FAT_ROOT THEN a ELSE s0.root
      /\ \A u \in Units, i \in Indices :
            s.first[u][i] = IF q = Entry(u, i) THEN a ELSE s0.first[u][i]
  BY <1>1, <1>7, <1>8, TargetIsSet
<1> HIDE DEF s
<1>10. nexta \in Nexts /\ nextb \in Nexts
  BY <1>1 DEF Filesystems, Nexts
<1>11. next \in [Clusters -> Nexts]
  <2>1. s.next \in [Clusters -> Nexts]
    BY <1>9 DEF Filesystems
  <2> HIDE DEF nexta, nextb
  <2> QED BY <1>10, <2>1
<1>12. g = [s EXCEPT !.next = next]
  BY DEF Swapped, a, b, at, f0, s0, s
<1> HIDE DEF next, g
<1>13. /\ g \in Filesystems /\ g.kind = s.kind /\ g.at = s.at /\ g.next = next
       /\ g.root = s.root /\ g.first = s.first
  BY <1>9, <1>11, <1>12 DEF Filesystems
<1>14. \A p \in Links(f) : (Target(f, p) = a <=> p = r) /\ (Target(f, p) = b <=> p = q)
  BY <1>1 DEF Sound, a, b
<1>15. \A c \in Clusters : g.next[Swap(a, b, c)] = Swap(a, b, f.next[c])
  <2> TAKE c \in Clusters
  <2>1. Following(c) \in Links(f) /\ Target(f, Following(c)) = f.next[c]
    BY LinkTargets DEF Links
  <2>2. (f.next[c] = a <=> r = Following(c)) /\ (f.next[c] = b <=> q = Following(c))
    BY <1>14, <2>1
  <2>3. CASE c = a
    BY <1>1, <1>13, <2>3 DEF Swap, next
  <2>4. CASE c = b
    BY <1>1, <1>13, <2>4 DEF Swap, next
  <2>5. CASE c # a /\ c # b
    BY <1>1, <1>7, <1>9, <1>13, <2>2, <2>5 DEF Swap, next
  <2> QED BY <2>3, <2>4, <2>5
<1>16. g.root = Swap(a, b, f.root)
  <2>1. Boot \in Links(f) /\ Target(f, Boot) = f.root
    BY LinkTargets DEF Links
  <2>2. (f.root = b <=> q = Boot) /\ (f.root = a <=> r = Boot)
    BY <1>14, <2>1
  <2>3. a # FAT_ROOT /\ b # FAT_ROOT
    BY <1>1, NumbersAre
  <2> QED BY <1>1, <1>6, <1>7, <1>9, <1>13, <2>2, <2>3 DEF Swap
<1>17. ASSUME NEW u \in Units, NEW i \in Indices, f.kind[u][i] \in FileKinds
       PROVE  g.first[u][i] = Swap(a, b, f.first[u][i])
  <2>1. Entry(u, i) \in Links(f) /\ Target(f, Entry(u, i)) = f.first[u][i]
    BY <1>17, LinkTargets DEF Links, KindOf, Entry, Ref
  <2>2. (f.first[u][i] = b <=> q = Entry(u, i)) /\ (f.first[u][i] = a <=> r = Entry(u, i))
    BY <1>14, <2>1
  <2> QED BY <1>1, <1>6, <1>7, <1>9, <1>13, <2>2 DEF Swap
<1> QED BY <1>1, <1>2, <1>9, <1>13, <1>15, <1>16, <1>17 DEF Renamed, a, b, g

(* Setting a dot file exchanges nothing.                                   *)
LEMMA DotIsRenamed ==
    ASSUME NEW f \in Filesystems, NEW u \in Units, NEW i \in Indices,
           f.kind[u][i] \in DotKinds,
           NEW n \in Clusters \cup {FAT_UNUSED, FAT_ROOT, FAT_EOF},
           NEW c \in Clusters
    PROVE  Renamed(f, SetTarget(f, Entry(u, i), n), c, c)
<1> DEFINE m == IF n \in {FAT_EOF, FAT_ROOT} THEN FAT_UNUSED ELSE n
           g == SetTarget(f, Entry(u, i), n)
<1>1. m \in Clusters \cup {FAT_UNUSED}
  BY NumbersAre DEF Numbers
<1>2. g = [f EXCEPT !.first[u][i] = m]
  <2>1. u # NoUnit
    BY RefsAssumption
  <2> QED BY <2>1 DEF SetTarget, Entry, Ref, IsEntry
<1> HIDE DEF m
<1>3. f.first \in [Units -> [Indices -> Clusters \cup {FAT_UNUSED}]]
  BY DEF Filesystems
<1> DEFINE x == [f.first EXCEPT ![u] = [@ EXCEPT ![i] = m]]
<1>4. x \in [Units -> [Indices -> Clusters \cup {FAT_UNUSED}]]
  BY <1>1, <1>3
<1>5. g = [f EXCEPT !.first = x]
  BY <1>2 DEF Filesystems
<1>6. \A v \in Units, j \in Indices :
         f.kind[v][j] \in FileKinds => x[v][j] = f.first[v][j]
  BY <1>3 DEF FileKinds, DotKinds
<1> HIDE DEF x, g
<1>7. /\ g \in Filesystems /\ g.first = x /\ g.kind = f.kind /\ g.at = f.at
      /\ g.next = f.next /\ g.root = f.root
  BY <1>4, <1>5 DEF Filesystems
<1>8. \A d : Swap(c, c, d) = d
  BY DEF Swap
<1> QED BY <1>6, <1>7, <1>8 DEF Renamed, g

LEMMA KeptIsRenamed ==
    ASSUME NEW f \in Filesystems, NEW c \in Clusters
    PROVE  Renamed(f, f, c, c)
BY DEF Renamed, Swap

-----------------------------------------------------------------------------
(* The inverse FAT is sound if the references that it has lead to the      *)
(* clusters it has them for.                                               *)
Points(f, v, c) ==
    v[c].ref # Void => v[c].ref \in Links(f) /\ Target(f, v[c].ref) = c

RevSound(f, v) == v \in InverseFats /\ \A c \in Numbers : Points(f, v, c)

LEMMA LinksAreReferences ==
    ASSUME NEW f
    PROVE  Links(f) \subseteq References
BY DEF Links, References

LEMMA InverseIsSet ==
    ASSUME NEW f \in Filesystems, NEW v \in InverseFats, NEW r \in Links(f),
           NEW isdir
    PROVE  LET w == InverseSet(f, v, r, isdir)
           IN  /\ w \in InverseFats
               /\ \A c \in Numbers : IF c = Target(f, r) THEN Points(f, w, c)
                                     ELSE w[c] = v[c]
<1> DEFINE t == Target(f, r)
           flag == IF isdir = -1 THEN v[t].isdir ELSE isdir = 1
           w == InverseSet(f, v, r, isdir)
<1>1. v \in [Numbers -> [ref : References, isdir : BOOLEAN]]
  BY DEF InverseFats, Numbers
<1>2. r \in References
  BY LinksAreReferences
<1>3. t \in Nexts \cup {FAT_ROOT}
  BY LinkTarget
<1>4. t < FAT_ROOT <=> t \notin Numbers
  <2>1. FAT_ROOT = 1 /\ FAT_FIRST = 2 /\ FAT_UNUSED = 0 /\ FAT_EOF = -1 /\ FAT_BAD = -2
    BY DEF FAT_ROOT, FAT_FIRST, FAT_UNUSED, FAT_EOF, FAT_BAD
  <2> HIDE DEF t
  <2> QED BY <1>3, <2>1, NumbersAre, SMTT(30) DEF Numbers, Nexts
<1>5. CASE t \notin Numbers
  BY <1>4, <1>5 DEF InverseSet
<1>6. CASE t \in Numbers
  <2>1. w = [v EXCEPT ![t] = [ref |-> r, isdir |-> flag]]
    BY <1>4, <1>6 DEF InverseSet, InversePair
  <2>2. flag \in BOOLEAN
    BY <1>1, <1>6
  <2> HIDE DEF flag, w
  <2>3. w \in [Numbers -> [ref : References, isdir : BOOLEAN]]
    BY <1>1, <1>2, <2>1, <2>2
  <2>4. w[t].ref = r
    BY <1>1, <1>6, <2>1
  <2>5. Points(f, w, t)
    BY <2>4 DEF Points
  <2>6. \A c \in Numbers : c # t => w[c] = v[c]
    BY <1>1, <2>1
  <2>7. w \in InverseFats
    BY <2>3 DEF InverseFats, Numbers
  <2> QED BY <2>5, <2>6, <2>7 DEF w
<1> QED BY <1>5, <1>6

LEMMA PointsSame ==
    ASSUME NEW f, NEW v, NEW w, NEW c, w[c] = v[c], Points(f, v, c)
    PROVE  Points(f, w, c)
BY DEF Points

LEMMA Elsewhere ==
    ASSUME NEW f, NEW g, NEW a, NEW b, Renamed(f, g, a, b),
           NEW v, RevSound(f, v),
           NEW c \in Numbers, c \notin {a, b, g.next[a], g.next[b]}
    PROVE  Points(g, v, c)
<1> SUFFICES ASSUME v[c].ref # Void
             PROVE  v[c].ref \in Links(g) /\ Target(g, v[c].ref) = c
  BY DEF Points
<1> DEFINE r == v[c].ref
<1>0. f \in Filesystems /\ g \in Filesystems /\ a \in Clusters /\ b \in Clusters
  BY DEF Renamed
<1>1. r \in Links(f) /\ Target(f, r) = c
  BY DEF RevSound, Points
<1>2. Swap(a, b, c) = c
  BY DEF Swap
<1> HIDE DEF r
<1>3. /\ Instead(a, b, r) \in Links(f) /\ Links(g) = Links(f)
      /\ Target(g, Instead(a, b, r)) = c
  BY <1>1, <1>2, RenamedTargets
<1>4. Instead(a, b, r) # Following(a) /\ Instead(a, b, r) # Following(b)
  BY <1>0, <1>3, LinkTargets
<1>5. Instead(a, b, r) = r
  BY <1>4 DEF Instead
<1> QED BY <1>1, <1>3, <1>5 DEF r

(* fatinversemovereference(), after the cluster is moved.                  *)
LEMMA InverseMovedSound ==
    ASSUME NEW f, NEW g, NEW r \in Links(f), NEW a, NEW b,
           Renamed(f, g, a, b), Sound(f), a = Target(f, r), f.next[b] = FAT_UNUSED,
           NEW v, RevSound(f, v), NEW isdir
    PROVE  RevSound(g, InverseMoved(f, g, v, r, isdir))
<1>0. f \in Filesystems /\ g \in Filesystems /\ a \in Clusters /\ b \in Clusters
        /\ Links(g) = Links(f)
  BY RenamedTargets DEF Renamed
<1>1. r # Following(a) /\ r # Following(b)
  <2>1. r # Following(a)
    BY <1>0, LinkTargets DEF Sound
  <2>2. a # FAT_UNUSED
    BY <1>0, NumbersAre DEF Numbers
  <2> QED BY <1>0, <2>1, <2>2, LinkTargets
<1>2. Target(g, r) = b
  <2>1. Instead(a, b, r) = r
    BY <1>1 DEF Instead
  <2>2. Swap(a, b, a) = b
    BY DEF Swap
  <2> QED BY <2>1, <2>2, RenamedTargets
<1>3. g.next[a] = FAT_UNUSED
  <2>1. Swap(a, b, b) = a /\ Swap(a, b, FAT_UNUSED) = FAT_UNUSED
    BY <1>0, SwapTwice, NumbersAre DEF Numbers, Swap
  <2> QED BY <1>0, <2>1 DEF Renamed
<1>4. Following(b) \in Links(g) /\ Target(g, Following(b)) = g.next[b]
  BY <1>0, LinkTargets DEF Links
<1> DEFINE v1 == InverseSet(g, v, r, Flag(isdir))
           v2 == InverseSet(g, v1, Following(b), -1)
           w == InverseMoved(f, g, v, r, isdir)
<1>5. v1 \in InverseFats /\ \A c \in Numbers : IF c = b THEN Points(g, v1, c)
                                               ELSE v1[c] = v[c]
  BY <1>0, <1>2, InverseIsSet DEF RevSound
<1> HIDE DEF v1
<1>6. v2 \in InverseFats /\ \A c \in Numbers : IF c = g.next[b] THEN Points(g, v2, c)
                                               ELSE v2[c] = v1[c]
  BY <1>0, <1>4, <1>5, InverseIsSet
<1> HIDE DEF v2
<1>7. w = [v2 EXCEPT ![a] = NoInverse]
  <2>1. ~ (a < FAT_ROOT)
    BY <1>0, NumbersAre, SMTT(30) DEF FAT_FIRST, FAT_ROOT
  <2> QED BY <1>2, <2>1 DEF InverseMoved, InverseClear, v1, v2
<1> HIDE DEF w
<1>8. NoInverse \in [ref : References, isdir : BOOLEAN] /\ NoInverse.ref = Void
  BY DEF NoInverse, InversePair, References
<1>9. w \in InverseFats
  BY <1>6, <1>7, <1>8 DEF InverseFats
<1>10. ASSUME NEW c \in Numbers
       PROVE  Points(g, w, c)
  <2>1. CASE c = a
    <3>1. w[c] = NoInverse
      BY <1>6, <1>7, <1>10, <2>1 DEF InverseFats, Numbers
    <3> QED BY <1>8, <3>1 DEF Points
  <2>2. ASSUME c # a
        PROVE  w[c] = v2[c]
    BY <1>6, <1>7, <1>10, <2>2 DEF InverseFats, Numbers
  <2>3. CASE c # a /\ c = g.next[b]
    BY <1>6, <1>10, <2>2, <2>3, PointsSame
  <2>4. CASE c # a /\ c # g.next[b] /\ c = b
    BY <1>5, <1>6, <1>10, <2>2, <2>4, PointsSame
  <2>5. CASE c # a /\ c # g.next[b] /\ c # b
    <3>1. c # g.next[a]
      BY <1>3, <1>10, NumbersAre
    <3>2. Points(g, v, c)
      BY <1>10, <2>5, <3>1, Elsewhere
    <3>3. w[c] = v[c]
      BY <1>5, <1>6, <1>10, <2>2, <2>5
    <3> QED BY <3>2, <3>3, PointsSame
  <2> QED BY <2>1, <2>3, <2>4, <2>5
<1> QED BY <1>9, <1>10 DEF RevSound, w

(* fatinverseswapreference(), after the clusters are swapped.              *)
LEMMA InverseSwappedSound ==
    ASSUME NEW f, NEW g, NEW r \in Links(f), NEW q \in Links(f), NEW a, NEW b,
           Renamed(f, g, a, b), a = Target(f, r), b = Target(f, q),
           NEW v, RevSound(f, v), NEW isdir, NEW qisdir
    PROVE  RevSound(g, InverseSwapped(f, g, v, r, isdir, q, qisdir))
<1>0. f \in Filesystems /\ g \in Filesystems /\ a \in Clusters /\ b \in Clusters
        /\ Links(g) = Links(f)
  BY RenamedTargets DEF Renamed
<1> DEFINE fa == Following(a)
           fb == Following(b)
<1>1. /\ fa \in Links(g) /\ Target(g, fa) = g.next[a]
      /\ fb \in Links(g) /\ Target(g, fb) = g.next[b]
  BY <1>0, LinkTargets DEF Links
<1>2. {a, b, g.next[a], g.next[b]} \subseteq
         {Target(g, r), Target(g, q), Target(g, fa), Target(g, fb)}
  <2>1. Target(g, Instead(a, b, r)) = b /\ Target(g, Instead(a, b, q)) = a
    BY RenamedTargets DEF Swap
  <2>2. Instead(a, b, r) \in {r, fa, fb} /\ Instead(a, b, q) \in {q, fa, fb}
    BY DEF Instead
  <2> QED BY <1>1, <2>1, <2>2
<1> DEFINE v1 == InverseSet(g, v, r, Flag(isdir))
           v2 == InverseSet(g, v1, fa, -1)
           v3 == InverseSet(g, v2, q, Flag(qisdir))
           w == InverseSwapped(f, g, v, r, isdir, q, qisdir)
<1>3. v1 \in InverseFats /\ \A c \in Numbers : IF c = Target(g, r)
                            THEN Points(g, v1, c) ELSE v1[c] = v[c]
  BY <1>0, InverseIsSet DEF RevSound
<1> HIDE DEF v1, fa, fb
<1>4. v2 \in InverseFats /\ \A c \in Numbers : IF c = Target(g, fa)
                            THEN Points(g, v2, c) ELSE v2[c] = v1[c]
  BY <1>0, <1>1, <1>3, InverseIsSet
<1> HIDE DEF v2
<1>5. v3 \in InverseFats /\ \A c \in Numbers : IF c = Target(g, q)
                            THEN Points(g, v3, c) ELSE v3[c] = v2[c]
  BY <1>0, <1>4, InverseIsSet
<1> HIDE DEF v3
<1>6. w = InverseSet(g, v3, fb, -1)
  BY DEF InverseSwapped, fa, fb, v1, v2, v3
<1> HIDE DEF w
<1>7. w \in InverseFats /\ \A c \in Numbers : IF c = Target(g, fb)
                            THEN Points(g, w, c) ELSE w[c] = v3[c]
  BY <1>0, <1>1, <1>5, <1>6, InverseIsSet
<1>8. ASSUME NEW c \in Numbers
      PROVE  Points(g, w, c)
  <2>1. c \notin {a, b, g.next[a], g.next[b]} => Points(g, v, c)
    BY Elsewhere
  <2>2. c \notin {Target(g, r), Target(g, q), Target(g, fa), Target(g, fb)}
           => Points(g, v, c)
    BY <1>2, <2>1
  <2>3. Points(g, v1, c) \/ c \in {Target(g, fa), Target(g, q), Target(g, fb)}
    BY <1>3, <2>2, PointsSame
  <2>4. Points(g, v2, c) \/ c \in {Target(g, q), Target(g, fb)}
    BY <1>4, <2>3, PointsSame
  <2>5. Points(g, v3, c) \/ c = Target(g, fb)
    BY <1>5, <2>4, PointsSame
  <2> QED BY <1>7, <2>5, PointsSame
<1> QED BY <1>7, <1>8 DEF RevSound, w

(* Setting a dot file.                                                     *)
LEMMA InverseKeptSound ==
    ASSUME NEW f, NEW g, NEW a, Renamed(f, g, a, a), NEW v, RevSound(f, v)
    PROVE  RevSound(g, v)
<1>1. \A r : Instead(a, a, r) = r
  BY DEF Instead
<1>2. \A c : Swap(a, a, c) = c
  BY DEF Swap
<1>3. Links(g) = Links(f) /\ \A r \in Links(f) : Target(g, r) = Target(f, r)
  BY <1>1, <1>2, RenamedTargets
<1> QED BY <1>3 DEF RevSound, Points

-----------------------------------------------------------------------------
(* What the cache does changes neither the filesystem nor the inverse FAT. *)
Fields == {"fs", "rev", "refer", "cached", "dirty"}
IsState(s) == Fields \subseteq DOMAIN s
SameFiles(s, t) == IsState(t) /\ t.fs = s.fs /\ t.rev = s.rev

LEMMA CacheKeeps ==
    ASSUME NEW s, IsState(s)
    PROVE  /\ \A c : SameFiles(s, ReadInto(s, c))
           /\ \A u : SameFiles(s, Touched(s, u)) /\ SameFiles(s, Deleted(s, u))
           /\ \A u, n : SameFiles(s, Refer(s, u, n))
           /\ \A us : SameFiles(s, WrittenBack(s, us))
           /\ SameFiles(s, AfterRead(s))
<1>1. /\ \A c : SameFiles(s, ReadInto(s, c))
      /\ \A u : SameFiles(s, Touched(s, u)) /\ SameFiles(s, Deleted(s, u))
      /\ \A us : SameFiles(s, WrittenBack(s, us))
  BY DEF IsState, Fields, SameFiles, ReadInto, Touched, Deleted, WrittenBack
<1>2. \A u, n : SameFiles(s, Refer(s, u, n))
  BY DEF IsState, Fields, SameFiles, Refer
<1>3. SameFiles(s, AfterRead(s))
  BY <1>1 DEF AfterRead, SameFiles, IsState
<1> QED BY <1>1, <1>2, <1>3

LEMMA DismissedKeeps ==
    ASSUME NEW s, IsState(s), NEW frame
    PROVE  SameFiles(s, Dismissed(s, frame))
<1> DEFINE t == WrittenBack(s, {frame.prev})
<1>1. SameFiles(s, t)
  BY CacheKeeps
<1>2. SameFiles(t, Deleted(t, frame.prev))
  BY <1>1, CacheKeeps DEF SameFiles
<1> HIDE DEF t
<1>3. SameFiles(s, Deleted(t, frame.prev))
  BY <1>1, <1>2 DEF SameFiles
<1> QED BY <1>3 DEF Dismissed, SameFiles, IsState, t

LEMMA StateIs == IsState(State) /\ State.fs = fs /\ State.rev = rev
BY DEF State, IsState, Fields

(* What is remembered of the filesystem while it is traversed: the entries *)
(* being visited are not free ones, and the directories are where their    *)
(* contents can be found.                                                  *)
Starts(f) ==
    {Boot} \cup {e \in {Entry(u, i) : u \in Units, i \in Indices} :
                    KindOf(f, e) \in FileKinds \cup DotKinds}

GoodFrames(f) ==
    {F \in Frame :
        /\ F.ref \in Starts(f) /\ F.start \in Starts(f) /\ F.dir \in Starts(f)
        /\ F.pc = "enter" => ~ IsDotFile(f, F.ref)
        /\ F.pc = "entries" => F.unit \in Placed(f)
        /\ ALL \notin F.res}

LEMMA StartsRenamed ==
    ASSUME NEW f, NEW g, g.kind = f.kind
    PROVE  /\ Starts(g) = Starts(f)
           /\ \A r : IsDotFile(g, r) <=> IsDotFile(f, r)
           /\ \A r : IsDeleted(g, r) <=> IsDeleted(f, r)
           /\ Placed(g) = Placed(f) => GoodFrames(g) = GoodFrames(f)
<1>1. /\ Starts(g) = Starts(f)
      /\ \A r : IsDotFile(g, r) <=> IsDotFile(f, r)
      /\ \A r : IsDeleted(g, r) <=> IsDeleted(f, r)
  BY DEF Starts, IsDotFile, IsDeleted, KindOf
<1> QED BY <1>1 DEF GoodFrames

LEMMA StartCases ==
    ASSUME NEW f, NEW r \in Starts(f)
    PROVE  \/ r = Boot /\ ~ IsDotFile(f, r) /\ ~ IsEntry(r)
           \/ \E u \in Units, i \in Indices :
                 /\ r = Entry(u, i) /\ IsEntry(r)
                 /\ f.kind[u][i] \in FileKinds \cup DotKinds
                 /\ IsDotFile(f, r) <=> f.kind[u][i] \in DotKinds
<1>1. r = Boot \/ \E u \in Units, i \in Indices :
                     r = Entry(u, i) /\ f.kind[u][i] \in FileKinds \cup DotKinds
  BY DEF Starts, KindOf, Entry, Ref
<1>2. ~ IsEntry(Boot) /\ \A u \in Units : \A i : IsEntry(Entry(u, i))
  BY RefsAssumption DEF IsEntry, Boot, Entry, Ref
<1>3. \A u \in Units, i \in Indices : KindOf(f, Entry(u, i)) = f.kind[u][i]
  BY DEF KindOf, Entry, Ref
<1> QED BY <1>1, <1>2, <1>3 DEF IsDotFile

LEMMA StartTarget ==
    ASSUME NEW f \in Filesystems, NEW r \in Starts(f)
    PROVE  Target(f, r) \in Numbers \cup {FAT_UNUSED}
<1>1. CASE r = Boot
  BY <1>1, LinkTargets
<1>2. CASE \E u \in Units, i \in Indices : r = Entry(u, i)
  BY <1>2, LinkTargets DEF Numbers
<1> QED BY <1>1, <1>2, StartCases

LEMMA StartsAreReferences ==
    ASSUME NEW f
    PROVE  Starts(f) \subseteq References
BY DEF Starts, References

(* A reference that is followed to a cluster, or to the root, and is not a *)
(* dot file is one of those that make the files.                           *)
LEMMA FollowedIsLink ==
    ASSUME NEW f \in Filesystems,
           NEW r \in Starts(f) \cup {Following(n) : n \in Int},
           ~ IsDotFile(f, r), Target(f, r) >= FAT_ROOT
    PROVE  r \in Links(f) /\ Target(f, r) \in Numbers
<1>1. CASE r \in Starts(f)
  <2>1. r \in Links(f)
    <3>1. CASE r = Boot
      BY <3>1 DEF Links
    <3>2. ASSUME NEW u \in Units, NEW i \in Indices, r = Entry(u, i),
                 f.kind[u][i] \in FileKinds \cup DotKinds,
                 IsDotFile(f, r) <=> f.kind[u][i] \in DotKinds
          PROVE  r \in Links(f)
      BY <3>2 DEF Links, KindOf, Entry, Ref
    <3> QED BY <1>1, <3>1, <3>2, StartCases
  <2>2. Target(f, r) \in Numbers \cup {FAT_UNUSED}
    BY <1>1, StartTarget
  <2>3. ~ (FAT_UNUSED >= FAT_ROOT)
    BY SMTT(30) DEF FAT_UNUSED, FAT_ROOT
  <2> QED BY <2>1, <2>2, <2>3
<1>2. ASSUME NEW n \in Int, r = Following(n)
      PROVE  r \in Links(f) /\ Target(f, r) \in Numbers
  <2>1. CASE n \in Clusters
    <3>1. r \in Links(f)
      BY <1>2, <2>1 DEF Links
    <3>2. Target(f, r) \in Nexts
      BY <1>2, <2>1, LinkTargets
    <3>3. FAT_ROOT = 1 /\ FAT_UNUSED = 0 /\ FAT_EOF = -1 /\ FAT_BAD = -2
      BY DEF FAT_ROOT, FAT_UNUSED, FAT_EOF, FAT_BAD
    <3> QED BY <3>1, <3>2, <3>3, SMTT(30) DEF Nexts, Numbers
  <2>2. CASE n = -1
    <3>1. r = Boot
      BY <1>2, <2>2 DEF Following, Boot, Ref
    <3> QED BY <3>1, LinkTargets DEF Links
  <2>3. CASE n \notin Clusters /\ n # -1
    <3>1. r.previous = n /\ ~ IsEntry(r) /\ ~ IsBoot(r)
      BY <1>2, <2>3 DEF Following, Ref, IsEntry, IsBoot
    <3>2. Target(f, r) = IF n >= FAT_FIRST THEN NextCluster(f, n) ELSE FAT_ERR
      BY <3>1 DEF Target
    <3>3. n >= FAT_FIRST => NextCluster(f, n) = FAT_ERR
      BY <2>3, SMTT(30) DEF NextCluster, FAT_FIRST, FAT_ROOT
    <3> QED BY <3>2, <3>3, SMTT(30) DEF FAT_ERR, FAT_ROOT
  <2> QED BY <2>1, <2>2, <2>3
<1> QED BY <1>1, <1>2

(* Where a sound filesystem leads to, there is something.                  *)
LEMMA LeadsToUnit ==
    ASSUME NEW f \in Filesystems, Sound(f), NEW r \in Links(f),
           Target(f, r) \in Numbers
    PROVE  f.at[Target(f, r)] \in Placed(f)
<1>1. f.at[Target(f, r)] \in Units \cup {NoUnit}
  BY DEF Filesystems, Numbers
<1>2. f.at[Target(f, r)] # NoUnit
  <2>1. CASE Target(f, r) \in Clusters
    BY <2>1 DEF Sound
  <2>2. CASE Target(f, r) = FAT_ROOT
    <3>1. r = Boot
      <4>1. FAT_ROOT \notin Clusters \cup {FAT_UNUSED} /\ FAT_ROOT \notin Nexts
        BY NumbersAre DEF Nexts, Numbers
      <4> QED BY <2>2, <4>1, LinkCases, LinkTargets
    <3> QED BY <3>1, LinkTargets DEF Sound
  <2> QED BY <2>1, <2>2 DEF Numbers
<1> QED BY <1>1, <1>2 DEF Placed, Numbers

-----------------------------------------------------------------------------
(* The frames of the recursion.                                            *)
LEMMA TopIsGood ==
    ASSUME NEW G, stack \in Seq(G), stack # <<>>
    PROVE  Top \in G /\ Tail(stack) \in Seq(G)
BY DEF Top

LEMMA Pushed ==
    ASSUME NEW G, NEW rest \in Seq(G), NEW F \in G
    PROVE  /\ <<F>> \in Seq(G) /\ <<F>> \o rest \in Seq(G)
           /\ \A H \in G : <<F, H>> \o rest \in Seq(G)
OBVIOUS

Called(f) == Starts(f) \cup {Following(n) : n \in Int}

LEMMA PendingIs ==
    ASSUME stack \in Seq(GoodFrames(fs)), Calling
    PROVE  /\ Pending.ref \in Called(fs)
           /\ Pending.start \in Starts(fs) /\ Pending.dir \in Starts(fs)
           /\ Top.pc \in {"self", "enter", "leave", "again"} => Pending.ref = Top.ref
<1>1. Top \in GoodFrames(fs)
  BY TopIsGood DEF Calling
<1>2. /\ Top.pc \in Pcs \ {"entries", "end"}
      /\ Top.ref \in Starts(fs) /\ Top.start \in Starts(fs) /\ Top.dir \in Starts(fs)
      /\ Top.scan \in Int
  BY <1>1 DEF GoodFrames, Calling, Frame
<1>3. \A d : LET c == Call(Top, Top.ref, d)
             IN  c.ref = Top.ref /\ c.start = Top.start /\ c.dir = Top.dir
  BY DEF Call
<1>4. \A d : LET c == Call(Top, Following(Top.scan), d)
             IN  /\ c.ref = Following(Top.scan)
                 /\ c.start \in {Top.start, Top.ref} /\ c.dir \in {Top.dir, Top.start}
  BY DEF Call
<1>5. \E d : \/ Pending = Call(Top, Top.ref, d)
                /\ Top.pc \in {"self", "enter", "leave", "again"}
             \/ Pending = Call(Top, Following(Top.scan), d)
                /\ Top.pc \in {"chain", "againchain"}
  BY <1>2 DEF Pending, Pcs
<1> QED BY <1>2, <1>3, <1>4, <1>5 DEF Called

LEMMA DotIsStart ==
    ASSUME NEW f, NEW r \in Called(f), IsDotFile(f, r)
    PROVE  \E u \in Units, i \in Indices : r = Entry(u, i) /\ f.kind[u][i] \in DotKinds
<1>1. \A n : ~ IsEntry(Following(n))
  BY DEF IsEntry, Following, Ref
<1>2. r \in Starts(f)
  BY <1>1 DEF Called, IsDotFile
<1> QED BY <1>2, StartCases DEF IsDotFile

LEMMA TargetIsInt ==
    ASSUME NEW f \in Filesystems
    PROVE  /\ \A r \in Starts(f) : Target(f, r) \in Int
           /\ \A c : NextCluster(f, c) \in Int
<1>1. \A n \in Numbers \cup {FAT_UNUSED} : n \in Int
  BY NumbersAre, SMTT(30) DEF Numbers, FAT_UNUSED, FAT_ROOT
<1>2. \A c \in Clusters : f.next[c] \in Nexts
  BY DEF Filesystems
<1>3. \A n \in Nexts : n \in Int
  BY NumbersAre
<1>4. FAT_EOF \in Int /\ FAT_ERR \in Int
  BY SMTT(30) DEF FAT_EOF, FAT_ERR
<1> QED BY <1>1, <1>2, <1>3, <1>4, StartTarget DEF NextCluster

LEMMA FollowingTarget ==
    ASSUME NEW f \in Filesystems, NEW n \in Int
    PROVE  Target(f, Following(n)) \in Int
<1>1. /\ Following(n).previous = n /\ ~ IsEntry(Following(n))
      /\ IsBoot(Following(n)) <=> n = -1
  BY DEF Following, Ref, IsEntry, IsBoot
<1>2. Target(f, Following(n)) = IF n = -1 THEN f.root
                                ELSE IF n >= FAT_FIRST THEN NextCluster(f, n)
                                ELSE FAT_ERR
  BY <1>1 DEF Target
<1>3. f.root \in Int
  <2>1. f.root \in Clusters \cup {FAT_ROOT}
    BY DEF Filesystems
  <2> QED BY <2>1, NumbersAre, SMTT(30) DEF FAT_ROOT
<1>4. FAT_ERR \in Int
  BY SMTT(30) DEF FAT_ERR
<1> QED BY <1>2, <1>3, <1>4, TargetIsInt

NoAll(res) == res \subseteq Flags \ {ALL}

(* What the frame is after a call that gave other numbers to the clusters. *)
LEMMA FrameAfterCall ==
    ASSUME stack \in Seq(GoodFrames(fs)), Calling, fs \in Filesystems, Sound(fs),
           NEW s, IsState(s), NEW a, NEW b, Renamed(fs, s.fs, a, b),
           NEW res, NoAll(res)
    PROVE  AfterCall(s, res) \in GoodFrames(s.fs)
<1> DEFINE f == s.fs
           G == GoodFrames(f)
           F == Top
<1>1. f \in Filesystems /\ Sound(f) /\ f.kind = fs.kind
  BY RenamedSound DEF Renamed
<1>2. G = GoodFrames(fs)
  BY <1>1, RenamedFiles, StartsRenamed
<1>3. F \in G
  BY <1>2, TopIsGood DEF Calling
<1>4. F.pc \in Pcs \ {"entries", "end"}
  BY <1>3 DEF Calling, GoodFrames, Frame
<1>5. Starts(f) = Starts(fs)
  BY <1>1, StartsRenamed
<1> HIDE DEF f, F
<1>6. \A H \in G, pc \in {"self", "chain", "leave", "again", "againchain", "end"} :
         [H EXCEPT !.pc = pc] \in G
  BY DEF GoodFrames, Frame, Pcs
<1>7. \A H \in G : ~ IsDotFile(f, H.ref) => [H EXCEPT !.pc = "enter"] \in G
  BY DEF GoodFrames, Frame, Pcs
<1>8. \A H \in G, n \in Int : H.pc \in {"self", "chain", "again", "againchain"} =>
         [H EXCEPT !.res = res, !.scan = n] \in G
  BY DEF GoodFrames, Frame, NoAll
<1>9. \A H \in G : AfterChain(f, H) \in G
  BY <1>6, <1>7 DEF AfterChain
<1>10. \A H \in G : AfterAgain(H) \in G
  BY <1>6 DEF AfterAgain
<1>11. F.ref \in Starts(f) /\ F.ref \in Starts(fs)
  BY <1>3, <1>5 DEF GoodFrames
<1>12. CASE F.pc = "self"
  <2>1. Scanning(f, F, F.ref, res) \in G
    <3>1. Target(IF ORIG \in res THEN fs ELSE f, F.ref) \in Int
      BY <1>1, <1>11, TargetIsInt
    <3> QED BY <1>3, <1>8, <1>12, <3>1 DEF Scanning
  <2>2. AfterCall(s, res) = IF IsDeleted(f, F.ref) THEN [F EXCEPT !.pc = "end"]
                            ELSE AfterChain(f, Scanning(f, F, F.ref, res))
    BY <1>12 DEF AfterCall, f, F
  <2> QED BY <1>3, <1>6, <1>9, <2>1, <2>2 DEF f
<1>13. CASE F.pc \in {"chain", "againchain"}
  <2>1. ScanningTable(f, F, res) \in G
    <3>1. NextCluster(IF ORIG \in res THEN fs ELSE f, F.scan) \in Int
      BY <1>1, TargetIsInt
    <3> QED BY <1>3, <1>8, <1>13, <3>1 DEF ScanningTable
  <2>2. AfterCall(s, res) = IF F.pc = "chain"
                            THEN AfterChain(f, ScanningTable(f, F, res))
                            ELSE AfterAgain(ScanningTable(f, F, res))
    BY <1>13 DEF AfterCall, f, F
  <2> QED BY <1>9, <1>10, <2>1, <2>2 DEF f
<1>14. CASE F.pc = "leave"
  <2>1. AfterCall(s, res) = [F EXCEPT !.pc = "again"]
    BY <1>14 DEF AfterCall, F
  <2> QED BY <1>3, <1>6, <2>1 DEF f
<1>15. CASE F.pc = "again"
  <2>1. Scanning(f, F, F.ref, res) \in G
    <3>1. Target(IF ORIG \in res THEN fs ELSE f, F.ref) \in Int
      BY <1>1, <1>11, TargetIsInt
    <3> QED BY <1>3, <1>8, <1>15, <3>1 DEF Scanning
  <2>2. AfterCall(s, res) = AfterAgain(Scanning(f, F, F.ref, res))
    BY <1>15 DEF AfterCall, f, F
  <2> QED BY <1>10, <2>1, <2>2 DEF f
<1>16. CASE F.pc = "enter"
  <2> DEFINE first == Target(f, F.ref)
             leave == [F EXCEPT !.pc = "leave"]
             there == [F EXCEPT !.pc = "entries", !.index = -1,
                                !.unit = f.at[first], !.prev = f.at[first]]
  <2>1. AfterCall(s, res) = IF first < FAT_ROOT THEN leave
                            ELSE IF first \in CannotRead(s)
                                 THEN [leave EXCEPT !.status = -1]
                            ELSE there
    BY <1>16 DEF AfterCall, f, F
  <2>2. leave \in G
    BY <1>3, <1>6
  <2>3. [leave EXCEPT !.status = -1] \in G
    <3> HIDE DEF leave
    <3> QED BY <2>2 DEF GoodFrames, Frame
  <2>4. ASSUME ~ (first < FAT_ROOT)
        PROVE  there \in G
    <3>1. first \in Int
      BY <1>1, <1>11, TargetIsInt
    <3>2. first >= FAT_ROOT
      BY <2>4, <3>1, SMTT(30) DEF FAT_ROOT
    <3>3. ~ IsDotFile(f, F.ref)
      BY <1>3, <1>16 DEF GoodFrames
    <3>4. F.ref \in Links(f) /\ first \in Numbers
      BY <1>1, <1>11, <3>2, <3>3, FollowedIsLink
    <3>5. f.at[first] \in Placed(f)
      BY <1>1, <3>4, LeadsToUnit
    <3>6. -1 \in -1 .. Slots - 1
      BY RefsAssumption, SMTT(30)
    <3> HIDE DEF first
    <3> DEFINE u == f.at[first]
    <3>7. u \in Placed(f) /\ u \in Units
      BY <3>5 DEF Placed
    <3> HIDE DEF u
    <3>8. [F EXCEPT !.pc = "entries", !.index = -1, !.unit = u, !.prev = u] \in G
      BY <1>3, <3>6, <3>7 DEF GoodFrames, Frame, Pcs
    <3> QED BY <3>8 DEF u
  <2> QED BY <2>1, <2>2, <2>3, <2>4 DEF f
<1> QED BY <1>4, <1>12, <1>13, <1>14, <1>15, <1>16 DEF Pcs

(* A call to the callback, whatever the callback did to the numbers.       *)
LEMMA CallReturned ==
    ASSUME stack \in Seq(GoodFrames(fs)), Calling, fs \in Filesystems, Sound(fs),
           NEW s, IsState(s), NEW a, NEW b, Renamed(fs, s.fs, a, b),
           NEW res, NoAll(res), Returned(s, res)
    PROVE  /\ fs' = s.fs /\ rev' = s.rev
           /\ stack' \in Seq(GoodFrames(s.fs))
<1>1. fs' = s.fs /\ rev' = s.rev
  BY CacheKeeps DEF Returned, Memory, SameFiles
<1>2. Tail(stack) \in Seq(GoodFrames(fs))
  BY TopIsGood DEF Calling
<1>3. GoodFrames(s.fs) = GoodFrames(fs)
  <2>1. s.fs.kind = fs.kind
    BY DEF Renamed
  <2> QED BY <2>1, RenamedFiles, StartsRenamed
<1>4. AfterCall(s, res) \in GoodFrames(fs)
  BY <1>3, FrameAfterCall
<1> QED BY <1>1, <1>2, <1>3, <1>4, Pushed DEF Returned

(* The next entry of a directory is in a unit that is somewhere.           *)
LEMMA EntryFound ==
    ASSUME NEW s, s.fs \in Filesystems, Sound(s.fs),
           NEW F \in GoodFrames(s.fs), F.pc = "entries",
           NextEntry(s, F).err = 0
    PROVE  LET e == NextEntry(s, F)
           IN  /\ e.unit \in Placed(s.fs) /\ e.index \in Indices
               /\ s.fs.kind[e.unit][e.index] # "end"
<1> DEFINE f == s.fs
           c == NumberOf(f, F.unit)
           n == NextCluster(f, c)
           At(u, i) == [unit |-> u, index |-> i,
                        err |-> IF f.kind[u][i] = "end" THEN 1 ELSE 0]
           None(err) == [unit |-> NoUnit, index |-> 0, err |-> err]
           e == NextEntry(s, F)
<1>1. e = IF F.index + 1 < Slots THEN At(F.unit, F.index + 1)
          ELSE IF n \in {FAT_EOF, FAT_UNUSED} THEN None(-1)
          ELSE IF n < FAT_FIRST THEN None(-2)
          ELSE IF n \in CannotRead(s) THEN None(-3)
          ELSE At(f.at[n], 0)
  BY DEF NextEntry
<1>2. \A u, i : At(u, i).err = 0 => f.kind[u][i] # "end"
  OBVIOUS
<1>3. F.unit \in Placed(f) /\ F.index \in -1 .. Slots - 1
  BY DEF GoodFrames, Frame
<1>4. CASE F.index + 1 < Slots
  <2>1. F.index + 1 \in Indices
    BY <1>3, <1>4, RefsAssumption, SMTT(30) DEF Indices
  <2>2. e = At(F.unit, F.index + 1)
    BY <1>1, <1>4
  <2>3. e.unit = F.unit /\ e.index = F.index + 1
    BY <2>2
  <2> QED BY <1>2, <1>3, <2>1, <2>2, <2>3
<1>5. CASE ~ (F.index + 1 < Slots)
  <2>1. None(-1).err # 0 /\ None(-2).err # 0 /\ None(-3).err # 0
    BY SMTT(30)
  <2>2. e = At(f.at[n], 0) /\ n \notin {FAT_EOF, FAT_UNUSED} /\ ~ (n < FAT_FIRST)
    BY <1>1, <1>5, <2>1
  <2>3. c \in Numbers
    BY <1>3 DEF Placed, NumberOf, Numbers
  <2>4. n \in Nexts
    BY <2>3 DEF NextCluster, Filesystems, Numbers, Nexts
  <2>5. n \in Clusters
    BY <2>2, <2>4, SMTT(30) DEF Nexts, FAT_EOF, FAT_UNUSED, FAT_BAD, FAT_FIRST
  <2>6. c \in Clusters /\ n = f.next[c]
    BY <2>2, <2>3 DEF NextCluster, Numbers
  <2>7. Following(c) \in Links(f) /\ Target(f, Following(c)) = n
    BY <2>6, LinkTargets DEF Links
  <2>8. f.at[n] \in Placed(f)
    <3> HIDE DEF n
    <3> QED BY <2>5, <2>7, LeadsToUnit DEF Numbers
  <2>9. 0 \in Indices
    BY RefsAssumption, SMTT(30) DEF Indices
  <2> HIDE DEF n
  <2>10. e.unit = f.at[n] /\ e.index = 0
    BY <2>2
  <2> QED BY <1>2, <2>2, <2>8, <2>9, <2>10
<1> QED BY <1>4, <1>5

LEMMA EntryStarts ==
    ASSUME NEW f \in Filesystems, NEW u \in Units, NEW i \in Indices,
           f.kind[u][i] # "end", ~ IsDeleted(f, Entry(u, i))
    PROVE  Entry(u, i) \in Starts(f)
<1>1. f.kind[u][i] \in Kinds
  BY DEF Filesystems
<1>2. KindOf(f, Entry(u, i)) = f.kind[u][i] /\ IsEntry(Entry(u, i))
  BY RefsAssumption DEF KindOf, Entry, Ref, IsEntry
<1>3. f.kind[u][i] \in FileKinds \cup DotKinds
  BY <1>1, <1>2 DEF Kinds, FileKinds, DotKinds, IsDeleted
<1> QED BY <1>2, <1>3 DEF Starts

LEMMA NewFrameGood ==
    ASSUME NEW f, NEW r \in Starts(f), NEW p \in Starts(f), NEW d \in Starts(f)
    PROVE  NewFrame(r, p, d) \in GoodFrames(f)
<1>1. -1 \in -1 .. Slots - 1 /\ 0 \in Int
  BY RefsAssumption, SMTT(30)
<1> QED BY <1>1, StartsAreReferences DEF NewFrame, GoodFrames, Frame, Pcs

LEMMA LoopedGood ==
    ASSUME NEW f, NEW F \in GoodFrames(f)
    PROVE  Looped(F) \in GoodFrames(f)
BY DEF Looped, GoodFrames, Frame

(* The passage to the next entry, and the end of a frame.                  *)
LEMMA AdvanceKeeps ==
    ASSUME stack \in Seq(GoodFrames(fs)), fs \in Filesystems, Sound(fs), Advance
    PROVE  /\ fs' = fs /\ rev' = rev
           /\ stack' \in Seq(GoodFrames(fs))
<1> DEFINE G == GoodFrames(fs)
           F == Top
           e == NextEntry(State, F)
           s == IF e.unit \in {NoUnit, F.unit} THEN State
                ELSE [State EXCEPT !.cached = @ \cup {e.unit}]
           t == IF e.unit = F.prev THEN s ELSE Dismissed(s, F)
           here == [F EXCEPT !.unit = e.unit, !.index = e.index]
           entry == Entry(e.unit, e.index)
           new == NewFrame(entry, F.ref, F.start)
<1>1. F \in G /\ Tail(stack) \in Seq(G) /\ F.pc = "entries"
  BY TopIsGood DEF Advance
<1>2. SameFiles(State, s) /\ IsState(s)
  BY StateIs DEF SameFiles, IsState, Fields, State
<1>3. SameFiles(State, t) /\ IsState(t)
  BY <1>2, DismissedKeeps DEF SameFiles
<1>4. s.fs = fs /\ s.rev = rev /\ t.fs = fs /\ t.rev = rev
  BY <1>2, <1>3, StateIs DEF SameFiles
<1>5. \/ e.err # 0 /\ Leave(s, F, e.err < -1)
      \/ /\ e.err = 0 /\ IsDeleted(fs, entry) /\ ALL \notin F.res
         /\ Memory(t) /\ stack' = <<Looped(here)>> \o Tail(stack)
      \/ /\ e.err = 0 /\ (~ IsDeleted(fs, entry) \/ ALL \in F.res)
         /\ Memory(Refer(t, e.unit, 1))
         /\ stack' = <<new, here>> \o Tail(stack)
  BY <1>4 DEF Advance
<1>6. State.fs = fs
  BY StateIs
<1>7. ASSUME e.err = 0
      PROVE  /\ e.unit \in Placed(fs) /\ e.unit \in Units /\ e.index \in Indices
             /\ fs.kind[e.unit][e.index] # "end"
             /\ here \in G
  <2>1. /\ e.unit \in Placed(fs) /\ e.index \in Indices
        /\ fs.kind[e.unit][e.index] # "end"
    BY <1>1, <1>6, <1>7, EntryFound
  <2>2. e.unit \in Units /\ e.index \in -1 .. Slots - 1
    BY <2>1, RefsAssumption, SMTT(30) DEF Placed, Indices
  <2> HIDE DEF e, F
  <2>3. here \in G
    BY <1>1, <2>1, <2>2 DEF GoodFrames, Frame
  <2> QED BY <2>1, <2>2, <2>3
<1> HIDE DEF e, s, t
<1>8. CASE Leave(s, F, e.err < -1)
  <2>1. fs' = fs /\ rev' = rev
    BY <1>2, <1>4, <1>8, DismissedKeeps DEF Leave, Memory, SameFiles
  <2> DEFINE gone == [F EXCEPT !.pc = "leave",
                         !.status = IF e.err < -1 THEN -1 ELSE @]
  <2>2. gone \in G
    <3>1. \A x \in {0, -1} : [F EXCEPT !.pc = "leave", !.status = x] \in G
      BY <1>1 DEF GoodFrames, Frame, Pcs
    <3>2. F.status \in {0, -1}
      BY <1>1 DEF GoodFrames, Frame
    <3> QED BY <3>1, <3>2
  <2>3. stack' = <<gone>> \o Tail(stack)
    BY <1>8 DEF Leave
  <2> HIDE DEF gone, G
  <2> QED BY <1>1, <2>1, <2>2, <2>3, Pushed DEF G
<1>9. CASE /\ e.err = 0 /\ Memory(t) /\ stack' = <<Looped(here)>> \o Tail(stack)
  <2>1. fs' = fs /\ rev' = rev
    BY <1>4, <1>9 DEF Memory
  <2>2. Looped(here) \in G
    BY <1>7, <1>9, LoopedGood
  <2> HIDE DEF here, G
  <2> QED BY <1>1, <1>9, <2>1, <2>2, Pushed DEF G
<1>10. CASE /\ e.err = 0 /\ ~ IsDeleted(fs, entry)
            /\ Memory(Refer(t, e.unit, 1))
            /\ stack' = <<new, here>> \o Tail(stack)
  <2>1. fs' = fs /\ rev' = rev
    <3>1. SameFiles(t, Refer(t, e.unit, 1))
      BY <1>3, CacheKeeps
    <3> QED BY <1>4, <1>10, <3>1 DEF Memory, SameFiles
  <2>2. entry \in Starts(fs)
    BY <1>7, <1>10, EntryStarts
  <2>3. F.ref \in Starts(fs) /\ F.start \in Starts(fs)
    BY <1>1 DEF GoodFrames
  <2>4. new \in G
    BY <2>2, <2>3, NewFrameGood
  <2>5. here \in G
    BY <1>7, <1>10
  <2> HIDE DEF here, new, G
  <2> QED BY <1>1, <1>10, <2>1, <2>4, <2>5, Pushed DEF G
<1>11. ALL \notin F.res
  BY <1>1 DEF GoodFrames
<1> QED BY <1>5, <1>8, <1>9, <1>10, <1>11

LEMMA ReturnKeeps ==
    ASSUME stack \in Seq(GoodFrames(fs)), Return
    PROVE  /\ fs' = fs /\ rev' = rev
           /\ stack' \in Seq(GoodFrames(fs))
<1> DEFINE G == GoodFrames(fs)
           s == Refer(State, Top.ref.directory, -1)
           rest == Tail(stack)
           H == Head(rest)
           gone == [H EXCEPT !.pc = "leave", !.status = -1]
<1>1. rest \in Seq(G)
  BY TopIsGood DEF Return
<1>2. SameFiles(State, s) /\ s.fs = fs /\ s.rev = rev /\ IsState(s)
  BY StateIs, CacheKeeps DEF SameFiles
<1>3. \/ Memory(s) /\ stack' = rest
      \/ rest # <<>> /\ Memory(s) /\ stack' = <<Looped(H)>> \o Tail(rest)
      \/ rest # <<>> /\ Memory(Dismissed(s, H)) /\ stack' = <<gone>> \o Tail(rest)
  BY DEF Return
<1> HIDE DEF s, rest
<1>4. ASSUME rest # <<>>
      PROVE  H \in G /\ Tail(rest) \in Seq(G)
  BY <1>1, <1>4
<1>5. CASE Memory(s) /\ stack' = rest
  BY <1>1, <1>2, <1>5 DEF Memory
<1>6. CASE rest # <<>> /\ Memory(s) /\ stack' = <<Looped(H)>> \o Tail(rest)
  <2>1. Looped(H) \in G
    BY <1>4, <1>6, LoopedGood
  <2> HIDE DEF H, G
  <2> QED BY <1>2, <1>4, <1>6, <2>1, Pushed DEF Memory, G
<1>7. CASE rest # <<>> /\ Memory(Dismissed(s, H)) /\ stack' = <<gone>> \o Tail(rest)
  <2>1. gone \in G
    <3> HIDE DEF H
    <3> QED BY <1>4, <1>7 DEF GoodFrames, Frame, Pcs
  <2>2. fs' = fs /\ rev' = rev
    BY <1>2, <1>7, DismissedKeeps DEF Memory, SameFiles
  <2> HIDE DEF H, G, gone
  <2> QED BY <1>4, <1>7, <2>1, <2>2, Pushed DEF G
<1> QED BY <1>3, <1>5, <1>6, <1>7

LEMMA BeginKeeps ==
    ASSUME NEW r \in Starts(fs), Begin(r)
    PROVE  /\ fs' = fs /\ rev' = rev
           /\ stack' \in Seq(GoodFrames(fs))
<1>1. fs' = fs /\ rev' = rev
  BY StateIs, CacheKeeps DEF Begin, Memory, SameFiles
<1>2. NewFrame(r, r, r) \in GoodFrames(fs)
  BY NewFrameGood
<1> QED BY <1>1, <1>2 DEF Begin

-----------------------------------------------------------------------------
(* FATEXECUTEFIXDOT and the callbacks that change no file.                 *)
LEMMA FixedDotRenames ==
    ASSUME NEW s, IsState(s), s.fs \in Filesystems,
           NEW call, call.ref \in Called(s.fs), IsDotFile(s.fs, call.ref),
           call.start \in Starts(s.fs), call.dir \in Starts(s.fs)
    PROVE  /\ IsState(FixedDot(s, call)) /\ FixedDot(s, call).rev = s.rev
           /\ Renamed(s.fs, FixedDot(s, call).fs, FAT_FIRST, FAT_FIRST)
<1> DEFINE f == s.fs
           r == call.ref
           of == IF KindOf(f, r) = "dot" THEN call.start ELSE call.dir
           first == Target(f, of)
           n == IF first = f.root THEN FAT_UNUSED ELSE first
           t == [s EXCEPT !.fs = SetTarget(f, r, n)]
<1>1. first \in Numbers \cup {FAT_UNUSED}
  BY StartTarget
<1>2. n \in Clusters \cup {FAT_UNUSED, FAT_ROOT}
  BY <1>1 DEF Numbers
<1>3. FAT_FIRST \in Clusters
  BY RefsAssumption, SMTT(30) DEF Clusters, FAT_FIRST
<1>4. PICK u \in Units, i \in Indices : r = Entry(u, i) /\ f.kind[u][i] \in DotKinds
  BY DotIsStart
<1> HIDE DEF n
<1>5. Renamed(f, SetTarget(f, r, n), FAT_FIRST, FAT_FIRST)
  BY <1>2, <1>3, <1>4, DotIsRenamed
<1>6. IsState(t) /\ t.fs = SetTarget(f, r, n) /\ t.rev = s.rev
  BY DEF IsState, Fields
<1> HIDE DEF t
<1>7. FixedDot(s, call) = IF IsEntry(r) THEN Touched(t, r.directory) ELSE t
  BY DEF FixedDot, TargetSet, t, n
<1>8. SameFiles(t, Touched(t, r.directory))
  BY <1>6, CacheKeeps
<1> QED BY <1>5, <1>6, <1>7, <1>8 DEF SameFiles

LEMMA NoAllIs ==
    /\ NoAll({}) /\ NoAll({DELETE}) /\ NoAll({RECUR, DELETE}) /\ NoAll(NORMAL)
    /\ \A recur : NoAll(Cond(recur))
BY DEF NoAll, Flags, RECUR, DELETE, CHAIN, NORMAL, ALL, Cond

LEMMA FirstIsCluster == FAT_FIRST \in Clusters
BY RefsAssumption, SMTT(30) DEF Clusters, FAT_FIRST

(* A dot file may be set to anything: it makes no file.                    *)
LEMMA DotSetRenames ==
    ASSUME NEW s, IsState(s), s.fs \in Filesystems,
           NEW r \in Called(s.fs), IsDotFile(s.fs, r),
           NEW n \in Clusters \cup {FAT_UNUSED, FAT_ROOT, FAT_EOF}
    PROVE  /\ IsState(TargetSet(s, r, n)) /\ TargetSet(s, r, n).rev = s.rev
           /\ Renamed(s.fs, TargetSet(s, r, n).fs, FAT_FIRST, FAT_FIRST)
<1> DEFINE t == [s EXCEPT !.fs = SetTarget(s.fs, r, n)]
<1>1. PICK u \in Units, i \in Indices : r = Entry(u, i) /\ s.fs.kind[u][i] \in DotKinds
  BY DotIsStart
<1>2. Renamed(s.fs, SetTarget(s.fs, r, n), FAT_FIRST, FAT_FIRST)
  BY <1>1, FirstIsCluster, DotIsRenamed
<1>3. IsState(t) /\ t.fs = SetTarget(s.fs, r, n) /\ t.rev = s.rev
  BY DEF IsState, Fields
<1>4. TargetSet(s, r, n) = IF IsEntry(r) THEN Touched(t, r.directory) ELSE t
  BY DEF TargetSet
<1> HIDE DEF t
<1>5. SameFiles(t, Touched(t, r.directory))
  BY <1>3, CacheKeeps
<1> QED BY <1>2, <1>3, <1>4, <1>5 DEF SameFiles

LEMMA Kept == ASSUME fs \in Filesystems
              PROVE  Renamed(fs, State.fs, FAT_FIRST, FAT_FIRST)
BY StateIs, FirstIsCluster, KeptIsRenamed

LEMMA FixDotKeeps ==
    ASSUME stack \in Seq(GoodFrames(fs)), Calling, fs \in Filesystems, Sound(fs),
           FixDot
    PROVE  /\ Renamed(fs, fs', FAT_FIRST, FAT_FIRST) /\ rev' = rev
           /\ stack' \in Seq(GoodFrames(fs'))
<1>1. NoAll({}) /\ NoAll({RECUR, DELETE})
  BY DEF NoAll, Flags, RECUR, DELETE, ALL
<1>2. CASE IsDotFile(fs, Pending.ref)
  <2> DEFINE s == FixedDot(State, Pending)
  <2>1. IsState(s) /\ s.rev = rev /\ Renamed(fs, s.fs, FAT_FIRST, FAT_FIRST)
    BY <1>2, StateIs, PendingIs, FixedDotRenames
  <2>2. Returned(s, {})
    BY <1>2 DEF FixDot
  <2> HIDE DEF s
  <2> QED BY <1>1, <2>1, <2>2, CallReturned
<1>3. CASE ~ IsDotFile(fs, Pending.ref)
  <2>1. Returned(State, {RECUR, DELETE})
    BY <1>3 DEF FixDot
  <2> QED BY <1>1, <2>1, Kept, StateIs, CallReturned
<1> QED BY <1>2, <1>3

(* fatinversecreate() has for a cluster the reference it was found by.     *)
LEMMA CreateIsSound ==
    ASSUME stack \in Seq(GoodFrames(fs)), Calling, fs \in Filesystems, Sound(fs),
           RevSound(fs, rev)
    PROVE  LET a == InverseCreate(State, Pending)
           IN  IsState(a.s) /\ a.s.fs = fs /\ RevSound(fs, a.s.rev) /\ NoAll(a.res)
<1> DEFINE r == Pending.ref
           target == Target(fs, r)
           d == Flag(IsDirRef(fs, Pending))
           new == [State EXCEPT !.rev = InverseSet(fs, rev, r, d)]
           a == InverseCreate(State, Pending)
<1>1. NoAll({}) /\ NoAll({DELETE}) /\ NoAll(NORMAL)
  BY DEF NoAll, Flags, RECUR, DELETE, CHAIN, NORMAL, ALL
<1>2. IsState(new) /\ new.fs = fs /\ new.rev = InverseSet(fs, rev, r, d)
  BY DEF IsState, Fields, State
<1> HIDE DEF new
<1>3. \/ a.s = State /\ a.res \in {{}, {DELETE}}
      \/ /\ ~ IsDotFile(fs, r) /\ a.res = NORMAL
         /\ a.s = IF target < FAT_ROOT THEN new ELSE Refer(new, r.directory, 1)
  BY StateIs DEF InverseCreate, Answer, new
<1>4. CASE a.s = State /\ a.res \in {{}, {DELETE}}
  BY <1>1, <1>4, StateIs
<1>5. CASE /\ ~ IsDotFile(fs, r) /\ a.res = NORMAL
           /\ a.s = IF target < FAT_ROOT THEN new ELSE Refer(new, r.directory, 1)
  <2>1. SameFiles(new, Refer(new, r.directory, 1))
    BY <1>2, CacheKeeps
  <2>2. IsState(a.s) /\ a.s.fs = fs /\ a.s.rev = InverseSet(fs, rev, r, d)
    BY <1>2, <1>5, <2>1 DEF SameFiles
  <2>3. CASE target < FAT_ROOT
    BY <1>1, <1>5, <2>2, <2>3 DEF InverseSet
  <2>4. CASE ~ (target < FAT_ROOT)
    <3>1. r \in Called(fs)
      BY PendingIs
    <3>2. target \in Int
      <4>1. CASE r \in Starts(fs)
        BY <4>1, TargetIsInt
      <4>2. CASE r \notin Starts(fs)
        BY <3>1, <4>2, FollowingTarget DEF Called
      <4> QED BY <4>1, <4>2
    <3>3. target >= FAT_ROOT
      BY <2>4, <3>2, SMTT(30) DEF FAT_ROOT
    <3>4. r \in Links(fs)
      BY <1>5, <3>1, <3>3, FollowedIsLink DEF Called
    <3> DEFINE w == InverseSet(fs, rev, r, d)
    <3>5. w \in InverseFats /\ \A c \in Numbers : IF c = target THEN Points(fs, w, c)
                                                  ELSE w[c] = rev[c]
      BY <3>4, InverseIsSet DEF RevSound
    <3> HIDE DEF w
    <3>6. \A c \in Numbers : Points(fs, w, c)
      BY <3>5, PointsSame DEF RevSound
    <3>7. RevSound(fs, w)
      BY <3>5, <3>6 DEF RevSound
    <3> QED BY <1>1, <1>5, <2>2, <3>7 DEF w
  <2> QED BY <2>3, <2>4
<1> QED BY <1>3, <1>4, <1>5

-----------------------------------------------------------------------------
(* There are as many numbers as clusters, and what leads to one leads to a *)
(* cluster that has contents.                                              *)
LEMMA NumbersFinite == IsFiniteSet(Numbers) /\ Cardinality(Numbers) = Last
<1>1. Numbers = 1 .. Last
  BY RefsAssumption, SMTT(30) DEF Numbers, Clusters, FAT_FIRST, FAT_ROOT
<1>2. 1 \in Int /\ Last \in Int /\ 1 <= Last
  BY RefsAssumption, SMTT(30) DEF FAT_FIRST
<1>3. IsFiniteSet(1 .. Last) /\ Cardinality(1 .. Last) = Last - 1 + 1
  BY <1>2, FS_Interval
<1> QED BY <1>1, <1>2, <1>3

LEMMA LinksLead ==
    ASSUME NEW f \in Filesystems, Sound(f)
    PROVE  /\ \A c \in Numbers : NextCluster(f, c) \in Numbers =>
                 NextCluster(f, c) \in Clusters /\ f.at[NextCluster(f, c)] # NoUnit
           /\ \A u \in Units, i \in Indices :
                 f.kind[u][i] \in FileKinds /\ f.first[u][i] \in Numbers =>
                    f.first[u][i] \in Clusters /\ f.at[f.first[u][i]] # NoUnit
<1>1. ASSUME NEW c \in Numbers, NextCluster(f, c) \in Numbers
      PROVE  NextCluster(f, c) \in Clusters /\ f.at[NextCluster(f, c)] # NoUnit
  <2>1. c \in Clusters /\ NextCluster(f, c) = f.next[c]
    BY <1>1, NumbersAre DEF NextCluster, Numbers
  <2>2. f.next[c] \in Nexts /\ FAT_ROOT \notin Nexts
    BY <2>1, NumbersAre DEF Filesystems, Nexts, Numbers
  <2>3. f.next[c] \in Clusters
    BY <1>1, <2>1, <2>2 DEF Numbers
  <2>4. Following(c) \in Links(f) /\ Target(f, Following(c)) = f.next[c]
    BY <2>1, LinkTargets DEF Links
  <2> QED BY <2>1, <2>3, <2>4 DEF Sound
<1>2. ASSUME NEW u \in Units, NEW i \in Indices,
             f.kind[u][i] \in FileKinds, f.first[u][i] \in Numbers
      PROVE  f.first[u][i] \in Clusters /\ f.at[f.first[u][i]] # NoUnit
  <2>1. f.first[u][i] \in Clusters
    BY <1>2, LinkTargets, NumbersAre DEF Numbers
  <2>2. Entry(u, i) \in Links(f) /\ Target(f, Entry(u, i)) = f.first[u][i]
    BY <1>2, LinkTargets DEF Links, KindOf, Entry, Ref
  <2> QED BY <2>1, <2>2 DEF Sound
<1> QED BY <1>1, <1>2
=============================================================================
