--------------------------- MODULE ProgramsProofs --------------------------
(***************************************************************************)
(* Proofs about Programs, for any number of clusters, any filesystems,     *)
(* requests and failures that the assumptions allow: the moves that        *)
(* compact, shrink and make holes.                                         *)
(***************************************************************************)
EXTENDS Programs, RenumberProofs, FiniteSetTheorems

(* What is reached in n steps from the root.                               *)
Grows(at, f, n) ==
    at = [k \in 0 .. n |-> IF k = 0 THEN {f.root} \cap (Clusters \cup {FAT_ROOT})
                           ELSE UNION {TreeStep(f, T) : T \in {at[k - 1]}}]

LEMMA GrowsIs ==
    ASSUME NEW f \in Filesystems, NEW n \in Nat, NEW at, Grows(at, f, n)
    PROVE  /\ DOMAIN at = 0 .. n /\ at[0] = {f.root}
           /\ \A k \in 1 .. n : at[k] = TreeStep(f, at[k - 1])
<1>1. f.root \in Clusters \cup {FAT_ROOT}
  BY DEF Filesystems
<1>2. DOMAIN at = 0 .. n
  BY DEF Grows
<1>3. at[0] = {f.root}
  BY <1>1 DEF Grows
<1>4. ASSUME NEW k \in 1 .. n
      PROVE  at[k] = TreeStep(f, at[k - 1])
  <2>1. k \in 0 .. n /\ k # 0
    OBVIOUS
  <2>2. at[k] = UNION {TreeStep(f, T) : T \in {at[k - 1]}}
    BY <2>1 DEF Grows
  <2> QED BY <2>2
<1> QED BY <1>2, <1>3, <1>4

(* The recursive definition does define a function.                        *)
LEMMA GrowsExists ==
    ASSUME NEW f, NEW n \in Nat
    PROVE  \E at : Grows(at, f, n)
<1> DEFINE S == {k \in Nat : ~ \E at : Grows(at, f, k)}
           base == {f.root} \cap (Clusters \cup {FAT_ROOT})
<1>1. ASSUME S # {} PROVE FALSE
  <2>1. PICK k \in S : \A j \in S : k <= j
    BY <1>1, LeastNumber
  <2>2. CASE k = 0
    <3>1. Grows([j \in 0 .. 0 |-> base], f, 0)
      BY DEF Grows
    <3> QED BY <2>1, <2>2, <3>1
  <2>3. CASE k # 0
    <3>1. k - 1 \in Nat /\ k - 1 \notin S
      BY <2>1, <2>3
    <3>2. PICK h : Grows(h, f, k - 1)
      BY <3>1
    <3> DEFINE new == UNION {TreeStep(f, T) : T \in {h[k - 1]}}
               g == [j \in 0 .. k |-> IF j = k THEN new ELSE h[j]]
               Value(x, j) == IF j = 0 THEN base
                              ELSE UNION {TreeStep(f, T) : T \in {x[j - 1]}}
    <3>3. ASSUME NEW j \in 0 .. k
          PROVE  g[j] = Value(g, j)
      <4>1. CASE j = k
        <5>1. g[j - 1] = h[k - 1] /\ g[j] = new
          BY <2>3, <3>1, <4>1
        <5> QED BY <2>3, <4>1, <5>1
      <4>2. CASE j # k
        <5>1. j \in 0 .. k - 1 /\ g[j] = h[j]
          BY <3>1, <4>2
        <5>2. j # 0 => g[j - 1] = h[j - 1]
          BY <3>1, <4>2
        <5>3. h[j] = Value(h, j)
          BY <3>2, <5>1 DEF Grows
        <5> QED BY <5>1, <5>2, <5>3
      <4> QED BY <4>1, <4>2
    <3>4. g = [j \in 0 .. k |-> g[j]]
      OBVIOUS
    <3> HIDE DEF g
    <3>5. Grows(g, f, k)
      BY <3>3, <3>4 DEF Grows
    <3> QED BY <2>1, <3>5
  <2> QED BY <2>2, <2>3
<1> QED BY <1>1

LEMMA ReachIs ==
    ASSUME NEW f
    PROVE  \E at : Grows(at, f, Last) /\ Reachable(f) = at[Last]
<1> DEFINE at == CHOOSE x : Grows(x, f, Last)
<1>1. Grows(at, f, Last)
  BY GrowsExists, RefsAssumption
<1>2. Reachable(f) = at[Last]
  BY DEF Reachable, TreeFrom, Closure, Grows
<1> HIDE DEF at
<1> QED BY <1>1, <1>2

-----------------------------------------------------------------------------
(* What is reached is closed, since nothing is further than there are      *)
(* clusters.                                                               *)
LEMMA StepGrows ==
    ASSUME NEW f, NEW S \in SUBSET Numbers
    PROVE  S \subseteq TreeStep(f, S) /\ TreeStep(f, S) \subseteq Numbers
BY DEF TreeStep, Numbers

LEMMA ReachCloses ==
    ASSUME NEW f \in Filesystems
    PROVE  /\ Reachable(f) \subseteq Numbers /\ f.root \in Reachable(f)
           /\ TreeStep(f, Reachable(f)) = Reachable(f)
<1>1. PICK at : Grows(at, f, Last) /\ Reachable(f) = at[Last]
  BY ReachIs
<1>2. Last \in Nat
  BY RefsAssumption
<1>3. at[0] = {f.root} /\ \A k \in 1 .. Last : at[k] = TreeStep(f, at[k - 1])
  BY <1>1, <1>2, GrowsIs
<1> DEFINE Right(k) == /\ at[k] \in SUBSET Numbers /\ f.root \in at[k]
                       /\ \/ TreeStep(f, at[k]) = at[k]
                          \/ Cardinality(at[k]) >= k + 1
           S == {k \in 0 .. Last : ~ Right(k)}
<1>4. ASSUME S # {} PROVE FALSE
  <2>1. PICK k \in S : \A j \in S : k <= j
    <3>1. S \in SUBSET Nat
      BY <1>2
    <3> QED BY <1>4, <3>1, LeastNumber
  <2>2. CASE k = 0
    <3>1. f.root \in Numbers
      BY DEF Filesystems, Numbers
    <3>2. Cardinality({f.root}) = 1
      BY FS_Singleton
    <3>3. at[k] = {f.root} /\ Cardinality(at[k]) >= k + 1
      BY <1>3, <2>2, <3>2
    <3> QED BY <2>1, <3>1, <3>3
  <2>3. CASE k # 0
    <3>1. k - 1 \in 0 .. Last /\ k \in 1 .. Last /\ k - 1 \notin S
      BY <1>2, <2>1, <2>3
    <3>2. Right(k - 1) /\ at[k] = TreeStep(f, at[k - 1])
      BY <1>3, <3>1
    <3> DEFINE A == at[k - 1]
               B == at[k]
    <3>3. A \subseteq B /\ B \in SUBSET Numbers /\ f.root \in B
      BY <3>2, StepGrows
    <3>4. CASE TreeStep(f, A) = A
      <4>1. TreeStep(f, B) = B
        BY <3>2, <3>4
      <4> QED BY <2>1, <3>3, <4>1
    <3>5. CASE TreeStep(f, A) # A
      <4>1. Cardinality(A) >= k - 1 + 1
        BY <3>2, <3>5
      <4>2. A # B
        BY <3>2, <3>5
      <4>3. IsFiniteSet(A) /\ IsFiniteSet(B)
        BY <3>2, <3>3, NumbersFinite, FS_Subset
      <4> HIDE DEF A, B
      <4>4. Cardinality(A) < Cardinality(B) /\ Cardinality(A) \in Nat /\ Cardinality(B) \in Nat
        BY <3>3, <4>2, <4>3, FS_Subset, FS_CardinalityType
      <4>5. Cardinality(B) >= k + 1
        BY <3>1, <4>1, <4>4
      <4> QED BY <2>1, <3>3, <4>5 DEF B
    <3> QED BY <3>4, <3>5
  <2> QED BY <2>2, <2>3
<1>5. Right(Last)
  <2>1. Last \in 0 .. Last
    BY <1>2
  <2> HIDE DEF Right
  <2> QED BY <1>4, <2>1
<1>6. ~ (Cardinality(at[Last]) >= Last + 1)
  <2> DEFINE A == at[Last]
  <2>1. A \subseteq Numbers
    BY <1>5
  <2> HIDE DEF A
  <2>2. Cardinality(A) <= Last /\ Cardinality(A) \in Nat
    BY <2>1, NumbersFinite, FS_Subset, FS_CardinalityType
  <2> QED BY <1>2, <2>2 DEF A
<1> QED BY <1>1, <1>5, <1>6

(* And nothing is reached out of a set that has the root and is closed.    *)
LEMMA ReachWithin ==
    ASSUME NEW f \in Filesystems, NEW S, f.root \in S,
           \A T \in SUBSET S : TreeStep(f, T) \subseteq S
    PROVE  Reachable(f) \subseteq S
<1>1. PICK at : Grows(at, f, Last) /\ Reachable(f) = at[Last]
  BY ReachIs
<1>2. Last \in Nat
  BY RefsAssumption
<1>3. at[0] = {f.root} /\ \A k \in 1 .. Last : at[k] = TreeStep(f, at[k - 1])
  BY <1>1, <1>2, GrowsIs
<1> DEFINE Out == {k \in 0 .. Last : ~ (at[k] \subseteq S)}
<1>4. ASSUME Out # {} PROVE FALSE
  <2>1. PICK k \in Out : \A j \in Out : k <= j
    <3>1. Out \in SUBSET Nat
      BY <1>2
    <3> QED BY <1>4, <3>1, LeastNumber
  <2>2. k # 0
    BY <1>3, <2>1
  <2>3. k - 1 \in 0 .. Last /\ k \in 1 .. Last /\ k - 1 \notin Out
    BY <1>2, <2>1, <2>2
  <2>4. at[k - 1] \in SUBSET S /\ at[k] = TreeStep(f, at[k - 1])
    BY <1>3, <2>3
  <2> QED BY <2>1, <2>4
<1> QED BY <1>1, <1>2, <1>4

-----------------------------------------------------------------------------
(* The contents that are reached, wherever they are.  Nothing is outside   *)
(* of them that they lead to, and none has a bad cluster.                  *)
Live(f) == {f.at[c] : c \in Reachable(f)}

Spared(f, U) ==
    /\ U \subseteq Placed(f) /\ f.at[f.root] \in U
    /\ \A c \in Numbers : f.at[c] \in U =>
          /\ NextCluster(f, c) # FAT_BAD
          /\ NextCluster(f, c) \in Clusters => f.at[NextCluster(f, c)] \in U
          /\ \A i \in Indices :
                LET n == f.first[f.at[c]][i]
                IN  f.kind[f.at[c]][i] \in FileKinds /\ n \in Clusters
                       => f.at[n] \in U

LEMMA StepElement ==
    ASSUME NEW f, NEW S, NEW n \in TreeStep(f, S)
    PROVE  /\ n \in Numbers
           /\ \/ n \in S
              \/ \E c \in S : n = NextCluster(f, c)
              \/ \E c \in S, i \in Indices :
                    /\ f.at[c] # NoUnit /\ f.kind[f.at[c]][i] \in FileKinds
                    /\ n = Target(f, Entry(f.at[c], i))
<1>1. n \in Numbers
  BY DEF TreeStep, Numbers
<1>2. \/ n \in S
      \/ \E c \in S : n = NextCluster(f, c)
      \/ \E c \in S : \E e \in FilesIn(f, c) : n = Target(f, e)
  BY DEF TreeStep
<1>3. ASSUME NEW c \in S, NEW e \in FilesIn(f, c)
      PROVE  \E i \in Indices : /\ f.at[c] # NoUnit /\ f.kind[f.at[c]][i] \in FileKinds
                                /\ e = Entry(f.at[c], i)
  BY DEF FilesIn, EntriesIn, KindOf, Entry, Ref
<1> QED BY <1>1, <1>2, <1>3

LEMMA StepHas ==
    ASSUME NEW f \in Filesystems, NEW S, NEW c \in S
    PROVE  /\ NextCluster(f, c) \in Numbers => NextCluster(f, c) \in TreeStep(f, S)
           /\ \A i \in Indices :
                 LET n == f.first[f.at[c]][i]
                 IN  f.at[c] \in Units /\ f.kind[f.at[c]][i] \in FileKinds /\ n \in Numbers
                        => n \in TreeStep(f, S)
<1>1. NextCluster(f, c) \in Numbers => NextCluster(f, c) \in TreeStep(f, S)
  BY DEF TreeStep, Numbers
<1>2. ASSUME NEW i \in Indices, f.at[c] \in Units, f.kind[f.at[c]][i] \in FileKinds,
             f.first[f.at[c]][i] \in Numbers
      PROVE  f.first[f.at[c]][i] \in TreeStep(f, S)
  <2> DEFINE e == Entry(f.at[c], i)
  <2>1. Target(f, e) = f.first[f.at[c]][i]
    BY <1>2, LinkTargets
  <2>2. f.at[c] # NoUnit /\ KindOf(f, e) \in FileKinds
    BY <1>2, RefsAssumption DEF KindOf, Entry, Ref
  <2>3. e \in FilesIn(f, c)
    BY <2>2 DEF FilesIn, EntriesIn
  <2> HIDE DEF e
  <2> QED BY <1>2, <2>1, <2>3 DEF TreeStep, Numbers
<1> QED BY <1>1, <1>2

LEMMA ReachedUnits ==
    ASSUME NEW f \in Filesystems, Sound(f)
    PROVE  \A c \in Reachable(f) : c \in Numbers /\ f.at[c] \in Units
<1> DEFINE S == {c \in Numbers : f.at[c] \in Units}
<1>1. \A c \in Numbers : f.at[c] \in Units \cup {NoUnit}
  BY DEF Filesystems, Numbers
<1>2. f.root \in S
  BY <1>1 DEF Sound, Filesystems, Numbers
<1>3. ASSUME NEW T \in SUBSET S, NEW n \in TreeStep(f, T)
      PROVE  n \in S
  <2>1. n \in Numbers
    BY StepElement
  <2>2. CASE n \in T
    BY <2>2
  <2>3. CASE \E c \in T : n = NextCluster(f, c)
    BY <1>1, <2>1, <2>3, LinksLead
  <2>4. ASSUME NEW c \in T, NEW i \in Indices,
               f.at[c] # NoUnit /\ f.kind[f.at[c]][i] \in FileKinds,
               n = Target(f, Entry(f.at[c], i))
        PROVE  n \in S
    <3>1. f.at[c] \in Units
      OBVIOUS
    <3>2. n = f.first[f.at[c]][i]
      BY <2>4, <3>1, LinkTargets
    <3> QED BY <1>1, <2>1, <2>4, <3>1, <3>2, LinksLead
  <2> QED BY <2>2, <2>3, <2>4, StepElement
<1>4. Reachable(f) \subseteq S
  <2> HIDE DEF S
  <2> QED BY <1>2, <1>3, ReachWithin
<1> QED BY <1>4

LEMMA LiveSpared ==
    ASSUME NEW f \in Filesystems, Sound(f), ~ FilesBad(f)
    PROVE  Spared(f, Live(f))
<1> DEFINE R == Reachable(f)
<1>1. /\ R \subseteq Numbers /\ f.root \in R /\ TreeStep(f, R) = R
      /\ \A c \in R : f.at[c] \in Units
  BY ReachCloses, ReachedUnits
<1>2. \A c \in R : NextCluster(f, c) # FAT_BAD
  BY DEF FilesBad
<1>3. Live(f) = {f.at[c] : c \in R}
  BY DEF Live
<1> HIDE DEF R
<1>4. ASSUME NEW c \in Numbers, f.at[c] \in Live(f)
      PROVE  c \in R
  <2>1. PICK d \in R : f.at[c] = f.at[d]
    BY <1>3, <1>4
  <2>2. c \in Clusters \cup {FAT_ROOT} /\ d \in Clusters \cup {FAT_ROOT} /\ f.at[c] # NoUnit
    BY <1>1, <2>1, RefsAssumption DEF Numbers
  <2> QED BY <2>1, <2>2 DEF Sound
<1>5. Live(f) \subseteq Placed(f) /\ f.at[f.root] \in Live(f)
  BY <1>1, <1>3 DEF Placed, Numbers
<1>6. ASSUME NEW c \in Numbers, f.at[c] \in Live(f)
      PROVE  /\ NextCluster(f, c) # FAT_BAD
             /\ NextCluster(f, c) \in Clusters => f.at[NextCluster(f, c)] \in Live(f)
             /\ \A i \in Indices :
                   f.kind[f.at[c]][i] \in FileKinds /\ f.first[f.at[c]][i] \in Clusters
                      => f.at[f.first[f.at[c]][i]] \in Live(f)
  <2>1. c \in R /\ f.at[c] \in Units
    BY <1>1, <1>4, <1>6
  <2>2. NextCluster(f, c) \in Clusters => NextCluster(f, c) \in R
    BY <1>1, <2>1, StepHas DEF Numbers
  <2>3. \A i \in Indices : f.kind[f.at[c]][i] \in FileKinds /\ f.first[f.at[c]][i] \in Clusters
           => f.first[f.at[c]][i] \in R
    BY <1>1, <2>1, StepHas DEF Numbers
  <2> QED BY <1>2, <1>3, <2>1, <2>2, <2>3
<1> QED BY <1>5, <1>6 DEF Spared

(* Other numbers for the same contents.                                    *)
LEMMA SparedRenamed ==
    ASSUME NEW f, NEW g, NEW a, NEW b, Renamed(f, g, a, b), Sound(f),
           NEW U, Spared(f, U)
    PROVE  Spared(g, U)
<1>1. /\ f \in Filesystems /\ g \in Filesystems /\ a \in Clusters /\ b \in Clusters
      /\ g.kind = f.kind
  BY DEF Renamed
<1>2. /\ \A c : Swap(a, b, Swap(a, b, c)) = c
      /\ \A c : Swap(a, b, c) \in Clusters <=> c \in Clusters
      /\ \A c : Swap(a, b, c) \in Numbers <=> c \in Numbers
      /\ \A c : c \notin Clusters => Swap(a, b, c) = c
  BY <1>1, SwapTwice
<1>3. \A c \in Numbers : g.at[Swap(a, b, c)] = f.at[c]
  BY DEF Renamed
<1>4. U \subseteq Placed(g)
  BY RenamedFiles DEF Spared
<1>5. g.at[g.root] \in U
  <2>1. g.root = Swap(a, b, f.root) /\ f.root \in Numbers
    BY <1>1 DEF Renamed, Filesystems, Numbers
  <2> QED BY <1>3, <2>1 DEF Spared
<1>6. ASSUME NEW c \in Numbers, g.at[c] \in U
      PROVE  /\ NextCluster(g, c) # FAT_BAD
             /\ NextCluster(g, c) \in Clusters => g.at[NextCluster(g, c)] \in U
             /\ \A i \in Indices :
                   g.kind[g.at[c]][i] \in FileKinds /\ g.first[g.at[c]][i] \in Clusters
                      => g.at[g.first[g.at[c]][i]] \in U
  <2> DEFINE d == Swap(a, b, c)
             n == NextCluster(f, d)
  <2>1. d \in Numbers /\ g.at[c] = f.at[d] /\ f.at[d] \in U
    BY <1>2, <1>3, <1>6
  <2>2. NextCluster(g, c) = Swap(a, b, n)
    BY <1>2, <2>1, NextRenamed
  <2>3. n # FAT_BAD /\ (n \in Clusters => f.at[n] \in U)
    BY <2>1 DEF Spared
  <2>4. FAT_BAD \notin Clusters
    BY NumbersAre DEF Numbers
  <2> HIDE DEF d, n
  <2>5. NextCluster(g, c) # FAT_BAD
    BY <1>2, <2>2, <2>3, <2>4
  <2>6. NextCluster(g, c) \in Clusters => g.at[NextCluster(g, c)] \in U
    BY <1>2, <1>3, <2>2, <2>3 DEF Numbers
  <2>7. ASSUME NEW i \in Indices, g.kind[g.at[c]][i] \in FileKinds,
               g.first[g.at[c]][i] \in Clusters
        PROVE  g.at[g.first[g.at[c]][i]] \in U
    <3> DEFINE u == f.at[d]
    <3>1. u \in Units /\ f.kind[u][i] \in FileKinds /\ g.at[c] = u
      BY <1>1, <2>1, <2>7 DEF Spared, Placed
    <3>2. g.first[u][i] = Swap(a, b, f.first[u][i])
      BY <3>1 DEF Renamed
    <3>3. f.first[u][i] \in Clusters
      BY <1>2, <2>7, <3>1, <3>2
    <3>4. f.at[f.first[u][i]] \in U
      BY <2>1, <3>1, <3>3 DEF Spared
    <3> QED BY <1>3, <3>1, <3>2, <3>3, <3>4 DEF Numbers
  <2> QED BY <2>5, <2>6, <2>7
<1> QED BY <1>4, <1>5, <1>6 DEF Spared

-----------------------------------------------------------------------------
(* A traversal that began at the root is where the root leads to: the      *)
(* entries that it visits, the directories that it is in, and the chain    *)
(* that it follows at the moment.                                          *)
Rooted(U, F) ==
    /\ F.ref = Boot \/ F.ref.directory \in U
    /\ F.pc = "entries" => F.unit \in U

OnChain(f, U, F) ==
    F.pc \in {"chain", "againchain"} => F.scan \in Numbers /\ f.at[F.scan] \in U

Inside(U) == {F \in Frame : Rooted(U, F) /\ F.pc = "entries"}

Traced(f, U, frames) ==
    frames # <<>> => /\ Rooted(U, Head(frames)) /\ OnChain(f, U, Head(frames))
                     /\ Tail(frames) \in Seq(Inside(U))

LEMMA TargetLive ==
    ASSUME NEW f \in Filesystems, NEW U, Spared(f, U),
           NEW r \in Starts(f), r = Boot \/ r.directory \in U,
           ~ IsDotFile(f, r), Target(f, r) \in Numbers
    PROVE  f.at[Target(f, r)] \in U
<1>1. CASE r = Boot
  BY <1>1, LinkTargets DEF Spared
<1>2. ASSUME NEW u \in Units, NEW i \in Indices, r = Entry(u, i), IsEntry(r),
             f.kind[u][i] \in FileKinds \cup DotKinds,
             IsDotFile(f, r) <=> f.kind[u][i] \in DotKinds
      PROVE  f.at[Target(f, r)] \in U
  <2>1. u \in U
    <3>1. r.directory = u /\ r # Boot
      BY <1>2, Apart DEF Entry, Ref
    <3> QED BY <3>1
  <2>2. PICK c \in Numbers : f.at[c] = u
    BY <2>1 DEF Spared, Placed, Numbers
  <2>3. f.kind[u][i] \in FileKinds /\ Target(f, r) = f.first[u][i]
    BY <1>2, LinkTargets
  <2>4. f.first[u][i] \in Clusters
    BY <2>3, LinkTargets, NumbersAre
  <2> QED BY <2>1, <2>2, <2>3, <2>4 DEF Spared
<1> QED BY <1>1, <1>2, StartCases

LEMMA NextLive ==
    ASSUME NEW f \in Filesystems, NEW U, Spared(f, U),
           NEW n \in Numbers, f.at[n] \in U, NextCluster(f, n) \in Numbers
    PROVE  f.at[NextCluster(f, n)] \in U
<1>1. NextCluster(f, n) \in Nexts
  BY DEF NextCluster, Filesystems, Numbers, Nexts
<1>2. FAT_ROOT \notin Nexts
  BY NumbersAre DEF Nexts, Numbers
<1>3. NextCluster(f, n) \in Clusters
  BY <1>1, <1>2 DEF Numbers
<1> QED BY <1>3 DEF Spared

(* The callback is run on a reference that leads to what is reached.       *)
LEMMA PendingLive ==
    ASSUME stack \in Seq(GoodFrames(fs)), Calling, fs \in Filesystems,
           NEW U, Spared(fs, U), Traced(fs, U, stack),
           ~ IsDotFile(fs, Pending.ref), Target(fs, Pending.ref) \in Clusters
    PROVE  fs.at[Target(fs, Pending.ref)] \in U
<1>1. Top \in GoodFrames(fs) /\ Rooted(U, Top) /\ OnChain(fs, U, Top)
  BY TopIsGood DEF Calling, Traced, Top
<1>2. /\ Top.pc \in Pcs \ {"entries", "end"}
      /\ Top.ref \in Starts(fs) /\ Top.scan \in Int
  BY <1>1 DEF GoodFrames, Calling, Frame
<1>3. CASE Top.pc \in {"self", "enter", "leave", "again"}
  <2>1. Pending.ref = Top.ref
    BY <1>3, PendingIs
  <2> QED BY <1>1, <1>2, <2>1, TargetLive DEF Rooted, Numbers
<1>4. CASE Top.pc \in {"chain", "againchain"}
  <2>1. \A d : Call(Top, Following(Top.scan), d).ref = Following(Top.scan)
    BY DEF Call
  <2>2. Pending.ref = Following(Top.scan)
    BY <1>4, <2>1 DEF Pending
  <2>3. Top.scan \in Numbers /\ fs.at[Top.scan] \in U
    BY <1>1, <1>4 DEF OnChain
  <2>4. CASE Top.scan \in Clusters
    <3>1. Target(fs, Pending.ref) = NextCluster(fs, Top.scan)
      BY <2>2, <2>4, LinkTargets DEF NextCluster
    <3> QED BY <2>3, <3>1, NextLive DEF Numbers
  <2>5. CASE Top.scan = FAT_ROOT
    <3>1. Pending.ref.previous = FAT_ROOT /\ ~ IsEntry(Pending.ref) /\ ~ IsBoot(Pending.ref)
      BY <2>2, <2>5, SMTT(30) DEF Following, Ref, IsEntry, IsBoot, FAT_ROOT
    <3>2. Target(fs, Pending.ref) = FAT_ERR
      BY <3>1, SMTT(30) DEF Target, FAT_ROOT, FAT_FIRST
    <3> QED BY <3>2, NumbersAre DEF Numbers
  <2> QED BY <2>3, <2>4, <2>5 DEF Numbers
<1> QED BY <1>2, <1>3, <1>4 DEF Pcs

(* The callback was run, and gave other numbers to the clusters.           *)
LEMMA CallTraced ==
    ASSUME stack \in Seq(GoodFrames(fs)), Calling, fs \in Filesystems, Sound(fs),
           NEW U, Spared(fs, U), Traced(fs, U, stack),
           NEW s, IsState(s), NEW a, NEW b, Renamed(fs, s.fs, a, b),
           NEW res, res \subseteq NORMAL,
           CHAIN \in res => ~ IsDotFile(fs, Pending.ref)
                               \/ ~ (Target(s.fs, Pending.ref) >= FAT_ROOT),
           Top.pc \in {"chain", "againchain"} => s.fs.at[Top.scan] = fs.at[Top.scan],
           Returned(s, res)
    PROVE  Traced(s.fs, U, stack')
<1> DEFINE f == s.fs
           F == Top
           G == AfterCall(s, res)
           Right(H) == Rooted(U, H) /\ OnChain(f, U, H)
<1>1. /\ f \in Filesystems /\ Spared(f, U) /\ f.kind = fs.kind
      /\ Starts(f) = Starts(fs) /\ \A r : IsDotFile(f, r) <=> IsDotFile(fs, r)
  BY SparedRenamed, StartsRenamed DEF Renamed
<1>2. F \in GoodFrames(fs) /\ Rooted(U, F) /\ OnChain(fs, U, F)
  BY TopIsGood DEF Calling, Traced, Top
<1>3. /\ F.pc \in Pcs \ {"entries", "end"}
      /\ F.ref \in Starts(f) /\ F.scan \in Int /\ F \in Frame
  BY <1>1, <1>2 DEF GoodFrames, Calling, Frame
<1>4. ORIG \notin res
  BY DEF NORMAL, ORIG, CHAIN, RECUR, DELETE
<1>5. F.pc \in {"chain", "againchain"} => F.scan \in Numbers /\ f.at[F.scan] \in U
  BY <1>2 DEF OnChain
<1>6. F.pc \in {"self", "again"} => Pending.ref = F.ref
  BY PendingIs
<1>7. G = CASE F.pc = "self" ->
                 IF IsDeleted(f, F.ref) THEN [F EXCEPT !.pc = "end"]
                 ELSE AfterChain(f, Scanning(f, F, F.ref, res))
            [] F.pc = "chain" -> AfterChain(f, ScanningTable(f, F, res))
            [] F.pc = "enter" ->
                 IF Target(f, F.ref) < FAT_ROOT THEN [F EXCEPT !.pc = "leave"]
                 ELSE IF Target(f, F.ref) \in CannotRead(s)
                      THEN [[F EXCEPT !.pc = "leave"] EXCEPT !.status = -1]
                 ELSE [F EXCEPT !.pc = "entries", !.index = -1,
                                !.unit = f.at[Target(f, F.ref)],
                                !.prev = f.at[Target(f, F.ref)]]
            [] F.pc = "leave" -> [F EXCEPT !.pc = "again"]
            [] F.pc = "again" -> AfterAgain(Scanning(f, F, F.ref, res))
            [] F.pc = "againchain" -> AfterAgain(ScanningTable(f, F, res))
  BY DEF AfterCall
<1> HIDE DEF f, F, G
<1>8. ASSUME NEW n \in Int, CHAIN \in res /\ n >= FAT_ROOT => n \in Numbers /\ f.at[n] \in U,
             NEW H, H = [F EXCEPT !.res = res, !.scan = n]
      PROVE  Right(AfterChain(f, H)) /\ Right(AfterAgain(H))
  <2>1. H.ref = F.ref /\ H.res = res /\ H.scan = n /\ H \in [DOMAIN F -> UNION {{H[x]} : x \in DOMAIN F}]
    BY <1>3, <1>8 DEF Frame
  <2>2. DOMAIN F = DOMAIN H /\ "pc" \in DOMAIN F
    BY <1>3, <1>8 DEF Frame
  <2>3. \A pc : LET K == [H EXCEPT !.pc = pc] IN K.ref = F.ref /\ K.scan = n /\ K.pc = pc
    BY <1>3, <1>8 DEF Frame
  <2>4. ASSUME NEW pc, pc # "entries", pc \in {"chain", "againchain"} => n \in Numbers /\ f.at[n] \in U
        PROVE  Right([H EXCEPT !.pc = pc])
    BY <1>2, <2>3, <2>4 DEF Rooted, OnChain
  <2>5. n >= FAT_FIRST => n >= FAT_ROOT
    BY SMTT(30) DEF FAT_FIRST, FAT_ROOT
  <2>6. Right([H EXCEPT !.pc = "enter"]) /\ Right([H EXCEPT !.pc = "end"])
    BY <2>4
  <2>7. CHAIN \in res /\ n >= FAT_ROOT =>
           Right([H EXCEPT !.pc = "chain"]) /\ Right([H EXCEPT !.pc = "againchain"])
    BY <1>8, <2>4
  <2>8. \/ AfterChain(f, H) \in {[H EXCEPT !.pc = "enter"], [H EXCEPT !.pc = "end"]}
        \/ CHAIN \in res /\ n >= FAT_ROOT /\ AfterChain(f, H) = [H EXCEPT !.pc = "chain"]
    BY <2>1 DEF AfterChain
  <2>9. \/ AfterAgain(H) = [H EXCEPT !.pc = "end"]
        \/ CHAIN \in res /\ n >= FAT_FIRST /\ AfterAgain(H) = [H EXCEPT !.pc = "againchain"]
    BY <2>1 DEF AfterAgain
  <2> HIDE DEF Right
  <2>10. Right(AfterChain(f, H))
    BY <2>6, <2>7, <2>8, Zenon
  <2>11. Right(AfterAgain(H))
    BY <2>5, <2>6, <2>7, <2>9
  <2> QED BY <2>10, <2>11
<1> HIDE DEF Right
<1>9. ASSUME F.pc \in {"self", "again"}
      PROVE  Right(G)
  <2> DEFINE n == Target(f, F.ref)
             H == Scanning(f, F, F.ref, res)
  <2>1. H = [F EXCEPT !.res = res, !.scan = n]
    BY <1>4 DEF Scanning
  <2>2. n \in Int
    BY <1>1, <1>3, TargetIsInt
  <2>3. ASSUME CHAIN \in res, n >= FAT_ROOT
        PROVE  n \in Numbers /\ f.at[n] \in U
    <3>1. ~ IsDotFile(f, F.ref)
      BY <1>1, <1>6, <1>9, <2>3 DEF f
    <3>2. n \in Numbers
      BY <1>1, <1>3, <2>3, <3>1, FollowedIsLink
    <3> QED BY <1>1, <1>2, <1>3, <3>1, <3>2, TargetLive DEF Rooted
  <2> HIDE DEF n, H
  <2>4. Right(AfterChain(f, H)) /\ Right(AfterAgain(H))
    BY <1>8, <2>1, <2>2, <2>3
  <2>5. Right([F EXCEPT !.pc = "end"])
    BY <1>2, <1>3 DEF Right, Rooted, OnChain, Frame
  <2>6. G \in {[F EXCEPT !.pc = "end"], AfterChain(f, H), AfterAgain(H)}
    BY <1>7, <1>9 DEF H
  <2> QED BY <2>4, <2>5, <2>6
<1>10. ASSUME F.pc \in {"chain", "againchain"}
      PROVE  Right(G)
  <2> DEFINE n == NextCluster(f, F.scan)
             H == ScanningTable(f, F, res)
  <2>1. H = [F EXCEPT !.res = res, !.scan = n]
    BY <1>3, <1>4 DEF ScanningTable, Frame
  <2>2. n \in Int
    BY <1>1, TargetIsInt
  <2>3. ASSUME n >= FAT_ROOT
        PROVE  n \in Numbers /\ f.at[n] \in U
    <3>1. F.scan \in Numbers /\ f.at[F.scan] \in U
      BY <1>5, <1>10
    <3>2. n \in Nexts
      BY <1>1, <3>1 DEF NextCluster, Filesystems, Numbers, Nexts
    <3>3. n \in Clusters
      BY <2>3, <3>2, SMTT(30) DEF Nexts, FAT_UNUSED, FAT_EOF, FAT_BAD, FAT_ROOT
    <3> QED BY <1>1, <3>1, <3>3, NextLive DEF Numbers
  <2> HIDE DEF n, H
  <2>4. Right(AfterChain(f, H)) /\ Right(AfterAgain(H))
    BY <1>8, <2>1, <2>2, <2>3
  <2>5. G \in {AfterChain(f, H), AfterAgain(H)}
    BY <1>7, <1>10 DEF H
  <2> QED BY <2>4, <2>5
<1>11. ASSUME F.pc = "leave"
      PROVE  Right(G)
  <2>1. G = [F EXCEPT !.pc = "again"]
    BY <1>7, <1>11
  <2>2. G.ref = F.ref /\ G.pc = "again"
    BY <1>3, <2>1 DEF Frame
  <2> QED BY <1>2, <2>2 DEF Right, Rooted, OnChain
<1>12. ASSUME F.pc = "enter"
      PROVE  Right(G)
  <2> DEFINE n == Target(f, F.ref)
  <2>1. CASE ~ (n < FAT_ROOT) /\ n \notin CannotRead(s)
    <3>1. n \in Int
      BY <1>1, <1>3, TargetIsInt
    <3>2. n >= FAT_ROOT
      BY <2>1, <3>1, SMTT(30) DEF FAT_ROOT
    <3>3. ~ IsDotFile(f, F.ref)
      BY <1>1, <1>2, <1>12 DEF GoodFrames
    <3>4. n \in Numbers
      BY <1>1, <1>3, <3>2, <3>3, FollowedIsLink
    <3>5. f.at[n] \in U
      BY <1>1, <1>2, <1>3, <3>3, <3>4, TargetLive DEF Rooted
    <3> DEFINE u == f.at[n]
    <3>6. G = [F EXCEPT !.pc = "entries", !.index = -1, !.unit = u, !.prev = u]
      BY <1>7, <1>12, <2>1
    <3>7. u \in U
      BY <3>5
    <3> HIDE DEF n, u
    <3>8. G.ref = F.ref /\ G.pc = "entries" /\ G.unit = u
      BY <1>3, <3>6 DEF Frame
    <3> QED BY <1>2, <3>7, <3>8 DEF Right, Rooted, OnChain
  <2>2. CASE n < FAT_ROOT \/ n \in CannotRead(s)
    <3> HIDE DEF n
    <3>1. G \in {[F EXCEPT !.pc = "leave"], [[F EXCEPT !.pc = "leave"] EXCEPT !.status = -1]}
      BY <1>7, <1>12, <2>2 DEF n
    <3>2. G.ref = F.ref /\ G.pc = "leave"
      BY <1>3, <3>1 DEF Frame
    <3> QED BY <1>2, <3>2 DEF Right, Rooted, OnChain
  <2> QED BY <2>1, <2>2
<1>13. Right(G)
  BY <1>3, <1>9, <1>10, <1>11, <1>12 DEF Pcs
<1>14. stack' = <<G>> \o Tail(stack) /\ Tail(stack) \in Seq(Inside(U))
  BY DEF Returned, G, Traced, Calling
<1>15. Head(stack') = G /\ Tail(stack') = Tail(stack)
  <2> QED BY <1>14
<1> QED BY <1>13, <1>14, <1>15 DEF Traced, Right, f

-----------------------------------------------------------------------------
(* The entries that follow in a directory that is reached.                 *)
LEMMA EntryLive ==
    ASSUME NEW s, s.fs \in Filesystems, Sound(s.fs),
           NEW U, Spared(s.fs, U),
           NEW F \in GoodFrames(s.fs), F.pc = "entries", F.unit \in U,
           NextEntry(s, F).err = 0
    PROVE  NextEntry(s, F).unit \in U
<1> DEFINE f == s.fs
           c == NumberOf(f, F.unit)
           n == NextCluster(f, c)
           At(u, i) == [unit |-> u, index |-> i,
                        err |-> IF f.kind[u][i] = "end" THEN 1 ELSE 0]
           None(err) == [unit |-> NoUnit, index |-> 0, err |-> err]
           e == NextEntry(s, F)
<1>1. e = IF F.index + 1 < Slots THEN At(F.unit, F.index + 1)
          ELSE IF n \in {FAT_EOF, FAT_UNUSED} THEN None(-1)
          ELSE IF n < FAT_FIRST THEN None(-2)
          ELSE IF n \in CannotRead(s) THEN None(-3)
          ELSE At(f.at[n], 0)
  BY DEF NextEntry
<1>2. F.unit \in Placed(f)
  BY DEF GoodFrames
<1>3. CASE F.index + 1 < Slots
  BY <1>1, <1>3
<1>4. CASE ~ (F.index + 1 < Slots)
  <2>1. None(-1).err # 0 /\ None(-2).err # 0 /\ None(-3).err # 0
    BY SMTT(30)
  <2>2. e = At(f.at[n], 0) /\ n \notin {FAT_EOF, FAT_UNUSED} /\ ~ (n < FAT_FIRST)
    BY <1>1, <1>4, <2>1
  <2>3. c \in Numbers /\ f.at[c] = F.unit
    BY <1>2 DEF Placed, NumberOf, Numbers
  <2>4. n \in Nexts
    BY <2>3 DEF NextCluster, Filesystems, Numbers, Nexts
  <2>5. n \in Clusters
    BY <2>2, <2>4, SMTT(30) DEF Nexts, FAT_EOF, FAT_UNUSED, FAT_BAD, FAT_FIRST
  <2>6. f.at[n] \in U
    BY <2>3, <2>5 DEF Spared
  <2> HIDE DEF n
  <2> QED BY <2>2, <2>6
<1> QED BY <1>3, <1>4

LEMMA TracedOne ==
    ASSUME NEW f, NEW U, NEW F, NEW frames \in Seq(Inside(U)),
           Rooted(U, F), OnChain(f, U, F)
    PROVE  Traced(f, U, <<F>> \o frames)
<1>1. Head(<<F>> \o frames) = F /\ Tail(<<F>> \o frames) = frames
  OBVIOUS
<1> QED BY <1>1 DEF Traced

LEMMA InsideOne ==
    ASSUME NEW f, NEW U, NEW F \in Inside(U)
    PROVE  F \in Frame /\ F.pc = "entries" /\ Rooted(U, F) /\ OnChain(f, U, F)
BY DEF Inside, OnChain

LEMMA LoopedInside ==
    ASSUME NEW U, NEW F \in Inside(U)
    PROVE  Looped(F) \in Inside(U)
<1>1. F \in Frame /\ F.pc = "entries" /\ Rooted(U, F)
  BY DEF Inside
<1>2. Looped(F) \in Frame /\ Looped(F).pc = F.pc /\ Looped(F).ref = F.ref
        /\ Looped(F).unit = F.unit
  BY <1>1 DEF Looped, Frame
<1> QED BY <1>1, <1>2 DEF Inside, Rooted

LEMMA AdvanceTraced ==
    ASSUME stack \in Seq(GoodFrames(fs)), fs \in Filesystems, Sound(fs),
           NEW U, Spared(fs, U), Traced(fs, U, stack), Advance
    PROVE  Traced(fs, U, stack')
<1> DEFINE G == GoodFrames(fs)
           F == Top
           e == NextEntry(State, F)
           here == [F EXCEPT !.unit = e.unit, !.index = e.index]
           entry == Entry(e.unit, e.index)
           new == NewFrame(entry, F.ref, F.start)
<1>1. F \in G /\ F.pc = "entries" /\ F \in Frame
  BY TopIsGood DEF Advance, GoodFrames
<1>2. Rooted(U, F) /\ Tail(stack) \in Seq(Inside(U)) /\ F.unit \in U
  BY <1>1 DEF Traced, Advance, Top, Rooted
<1>3. \/ Leave(State, F, e.err < -1) \/ \E q : Leave(q, F, e.err < -1)
      \/ e.err = 0 /\ stack' = <<Looped(here)>> \o Tail(stack)
      \/ e.err = 0 /\ stack' = <<new, here>> \o Tail(stack)
  BY DEF Advance
<1>4. State.fs = fs
  BY StateIs
<1>5. ASSUME e.err = 0
      PROVE  /\ here \in Inside(U)
             /\ Rooted(U, new) /\ OnChain(fs, U, new)
  <2>1. e.unit \in U
    BY <1>1, <1>2, <1>4, <1>5, EntryLive
  <2>2. e.unit \in Placed(fs) /\ e.index \in Indices
    BY <1>1, <1>4, <1>5, EntryFound
  <2>3. e.unit \in Units /\ e.index \in -1 .. Slots - 1
    BY <2>2, RefsAssumption, SMTT(30) DEF Placed, Indices
  <2>4. entry.directory = e.unit
    BY DEF Entry, Ref
  <2> HIDE DEF e, F, entry
  <2>5. here \in Frame /\ here.ref = F.ref /\ here.pc = "entries" /\ here.unit = e.unit
    BY <1>1, <2>3 DEF Frame
  <2>6. new.ref = entry /\ new.pc = "self"
    BY DEF NewFrame
  <2> HIDE DEF here, new
  <2> QED BY <1>2, <2>1, <2>4, <2>5, <2>6 DEF Rooted, OnChain, Inside
<1> HIDE DEF e
<1>6. CASE \E q : Leave(q, F, e.err < -1)
  <2> DEFINE gone == [F EXCEPT !.pc = "leave",
                         !.status = IF e.err < -1 THEN -1 ELSE @]
  <2>1. stack' = <<gone>> \o Tail(stack)
    BY <1>6 DEF Leave
  <2>2. gone.ref = F.ref /\ gone.pc = "leave"
    <3>1. \A x : [F EXCEPT !.pc = "leave", !.status = x].ref = F.ref
                  /\ [F EXCEPT !.pc = "leave", !.status = x].pc = "leave"
      BY <1>1 DEF Frame
    <3> QED BY <3>1
  <2> HIDE DEF gone
  <2>3. Rooted(U, gone) /\ OnChain(fs, U, gone)
    BY <1>2, <2>2 DEF Rooted, OnChain
  <2> QED BY <1>2, <2>1, <2>3, TracedOne
<1>7. CASE e.err = 0 /\ stack' = <<Looped(here)>> \o Tail(stack)
  <2>1. Looped(here) \in Inside(U)
    BY <1>5, <1>7, LoopedInside
  <2> HIDE DEF here
  <2> QED BY <1>2, <1>7, <2>1, TracedOne, InsideOne
<1>8. CASE e.err = 0 /\ stack' = <<new, here>> \o Tail(stack)
  <2>1. here \in Inside(U) /\ Rooted(U, new) /\ OnChain(fs, U, new)
    BY <1>5, <1>8
  <2> HIDE DEF here, new
  <2>2. <<here>> \o Tail(stack) \in Seq(Inside(U))
    BY <1>2, <2>1, Pushed
  <2>3. stack' = <<new>> \o (<<here>> \o Tail(stack))
    BY <1>2, <1>8
  <2> QED BY <2>1, <2>2, <2>3, TracedOne
<1> QED BY <1>3, <1>6, <1>7, <1>8

LEMMA ReturnTraced ==
    ASSUME stack \in Seq(GoodFrames(fs)), NEW U, Traced(fs, U, stack), Return
    PROVE  Traced(fs, U, stack')
<1> DEFINE rest == Tail(stack)
           H == Head(rest)
           gone == [H EXCEPT !.pc = "leave", !.status = -1]
<1>1. rest \in Seq(Inside(U))
  BY DEF Traced, Return
<1>2. \/ stack' = rest
      \/ rest # <<>> /\ stack' = <<Looped(H)>> \o Tail(rest)
      \/ rest # <<>> /\ stack' = <<gone>> \o Tail(rest)
  BY DEF Return
<1> HIDE DEF rest
<1>3. ASSUME rest # <<>>
      PROVE  /\ H \in Inside(U) /\ Tail(rest) \in Seq(Inside(U))
             /\ rest = <<H>> \o Tail(rest)
  BY <1>1, <1>3
<1> HIDE DEF H
<1>4. CASE rest = <<>> /\ stack' = rest
  BY <1>4 DEF Traced
<1>5. CASE rest # <<>> /\ stack' = rest
  BY <1>3, <1>5, TracedOne, InsideOne
<1>6. CASE rest # <<>> /\ stack' = <<Looped(H)>> \o Tail(rest)
  BY <1>3, <1>6, TracedOne, InsideOne, LoopedInside
<1>7. CASE rest # <<>> /\ stack' = <<gone>> \o Tail(rest)
  <2>1. H \in Frame /\ Rooted(U, H)
    BY <1>3, <1>7, InsideOne
  <2>2. gone.ref = H.ref /\ gone.pc = "leave"
    BY <2>1 DEF Frame
  <2> HIDE DEF gone
  <2>3. Rooted(U, gone) /\ OnChain(fs, U, gone)
    BY <2>1, <2>2 DEF Rooted, OnChain
  <2> QED BY <1>3, <1>7, <2>3, TracedOne
<1> QED BY <1>2, <1>4, <1>5, <1>6, <1>7

LEMMA BeginTraced ==
    ASSUME NEW U
    PROVE  Traced(fs, U, <<NewFrame(Boot, Boot, Boot)>>)
<1> DEFINE F == NewFrame(Boot, Boot, Boot)
<1>1. F.ref = Boot /\ F.pc = "self"
  BY DEF NewFrame
<1> HIDE DEF F
<1>2. Rooted(U, F) /\ OnChain(fs, U, F)
  BY <1>1 DEF Rooted, OnChain
<1>3. Head(<<F>>) = F /\ Tail(<<F>>) = <<>>
  OBVIOUS
<1> QED BY <1>2, <1>3 DEF Traced, F

-----------------------------------------------------------------------------
(* A free cluster is found, or none.                                       *)
LEMMA FoundIsFree ==
    ASSUME NEW f \in Filesystems, NEW begin \in Clusters, NEW end \in Clusters,
           NEW start \in Clusters
    PROVE  LET n == FindFree(f, begin, end, start)
           IN  n = FAT_ERR \/ (n \in Clusters /\ f.next[n] = FAT_UNUSED)
<1> DEFINE size  == Distance(begin, end) + 1
           first == IF IsBetween(start, begin, end) THEN Distance(begin, start) ELSE 0
           steps(c) == (Distance(begin, c) - first) % size
           found == {c \in Clusters : IsBetween(c, begin, end)
                                         /\ NextCluster(f, c) = FAT_UNUSED}
           n == FindFree(f, begin, end, start)
<1>1. ASSUME NEW a \in Clusters, NEW b \in Clusters
      PROVE  Distance(a, b) \in Nat
  <2>1. a \in Int /\ b \in Int /\ Last - FAT_FIRST + 1 \in Nat \ {0}
    BY NumbersAre, RefsAssumption, SMTT(30) DEF FAT_FIRST
  <2> DEFINE m == Last - FAT_FIRST + 1
  <2>2. Distance(a, b) = (b - a) % m
    BY DEF Distance
  <2> HIDE DEF m
  <2> QED BY <2>1, <2>2, SMTT(30) DEF m
<1>2. size \in Nat \ {0} /\ first \in Int
  BY <1>1
<1>3. ASSUME NEW c \in Clusters
      PROVE  steps(c) \in Nat
  <2> DEFINE d == Distance(begin, c)
  <2>1. d \in Int
    BY <1>1
  <2> HIDE DEF d, size, first
  <2>2. (d - first) % size \in Nat
    BY <1>2, <2>1, SMTT(30)
  <2> QED BY <2>2 DEF d
<1> HIDE DEF steps
<1>4. n = IF found = {} THEN FAT_ERR
          ELSE CHOOSE c \in found : \A d \in found : steps(c) <= steps(d)
  BY DEF FindFree, steps
<1>5. ASSUME found # {}
      PROVE  \E c \in found : \A d \in found : steps(c) <= steps(d)
  <2> DEFINE S == {steps(c) : c \in found}
  <2>1. S \in SUBSET Nat /\ S # {}
    BY <1>3, <1>5
  <2>2. PICK k \in S : \A j \in S : k <= j
    <3> HIDE DEF S
    <3> QED BY <2>1, LeastNumber
  <2> QED BY <2>2
<1>6. n = FAT_ERR \/ n \in found
  <2> HIDE DEF found
  <2>1. CASE found = {}
    BY <1>4, <2>1
  <2>2. CASE found # {}
    BY <1>4, <1>5, <2>2
  <2> QED BY <2>1, <2>2
<1>7. n \in found => n \in Clusters /\ f.next[n] = FAT_UNUSED
  <2> HIDE DEF n
  <2> QED BY DEF NextCluster
<1> HIDE DEF found
<1>8. n = FAT_ERR \/ (n \in Clusters /\ f.next[n] = FAT_UNUSED)
  <2> HIDE DEF n
  <2> QED BY <1>6, <1>7
<1> QED BY <1>8

-----------------------------------------------------------------------------
(* What the callback of fatmovearea() leaves: the numbers of two clusters  *)
(* may be exchanged, not that of the cluster that the chain goes on from.  *)
KeepsRun(f, r, a) ==
    /\ IsState(a.s) /\ \E x, y : Renamed(f, a.s.fs, x, y)
    /\ a.res \subseteq NORMAL
    /\ CHAIN \in a.res => ~ IsDotFile(f, r) \/ ~ (Target(a.s.fs, r) >= FAT_ROOT)
    /\ \A c \in Numbers : r = Following(c) /\ f.at[c] # NoUnit => a.s.fs.at[c] = f.at[c]
    /\ a.last \in Clusters

LEMMA RunStepKeeps ==
    ASSUME NEW f, NEW r, NEW t, IsState(t), NEW x, NEW y, Renamed(f, t.fs, x, y),
           NEW dest \in Clusters \cup {FAT_ERR}, last \in Clusters,
           NEW res \in SUBSET NORMAL,
           CHAIN \in res => ~ IsDotFile(f, r) \/ ~ (Target(t.fs, r) >= FAT_ROOT),
           x = y \/ \A c \in Numbers : r = Following(c) /\ f.at[c] # NoUnit => c \notin {x, y},
           NEW moved, NEW kill
    PROVE  KeepsRun(f, r, Step(t, dest, moved, kill, res))
<1> DEFINE a == Step(t, dest, moved, kill, res)
<1>1. a.s = t /\ a.last = (IF dest = FAT_ERR THEN last ELSE dest) /\ a.res = res
  BY DEF Step
<1>2. \A c \in Numbers : r = Following(c) /\ f.at[c] # NoUnit => t.fs.at[c] = f.at[c]
  <2> TAKE c \in Numbers
  <2> HAVE r = Following(c) /\ f.at[c] # NoUnit
  <2>1. Swap(x, y, c) = c
    BY DEF Swap
  <2>2. t.fs.at[Swap(x, y, c)] = f.at[c]
    BY DEF Renamed
  <2> QED BY <2>1, <2>2
<1> HIDE DEF a
<1>3. KeepsRun(f, r, a)
  BY <1>1, <1>2 DEF KeepsRun
<1> QED BY <1>3 DEF a

LEMMA MoveToKeeps ==
    ASSUME NEW s, IsState(s), s.fs \in Filesystems, Sound(s.fs),
           NEW call, call.ref \in Links(s.fs), Target(s.fs, call.ref) \in Clusters,
           ~ IsDotFile(s.fs, call.ref),
           NEW dest \in Clusters, s.fs.next[dest] = FAT_UNUSED, last \in Clusters
    PROVE  KeepsRun(s.fs, call.ref, MoveTo(s, call, dest))
<1> DEFINE f == s.fs
           r == call.ref
           target == Target(f, r)
           u == f.at[target]
           m == ClusterMove(f, r, dest, CannotRead(s), unwritable)
           rd == ReadInto(s, target)
           new == [rd EXCEPT !.fs = m.fs, !.dirty = @ \ {u}]
           late == [rd EXCEPT !.dirty = @ \cup {u}]
           entry == IF IsEntry(r) THEN Touched(new, r.directory) ELSE new
           moved == dirmoved \/ IsDirectory(f, r)
           a == MoveTo(s, call, dest)
<1> SUFFICES KeepsRun(f, r, a)
  OBVIOUS
<1>1. SameFiles(s, rd) /\ SameFiles(s, late)
  <2>1. SameFiles(s, rd)
    BY CacheKeeps
  <2> HIDE DEF rd
  <2> QED BY <2>1 DEF SameFiles, IsState, Fields
<1>2. m \in {Result(-2, f), Result(-5, f), Result(0, Moved(f, r, dest))}
  <2>1. target \in Int /\ ~ (target < FAT_FIRST)
    BY NumbersAre, SMTT(30) DEF FAT_FIRST
  <2>2. NextCluster(f, dest) = FAT_UNUSED
    BY DEF NextCluster
  <2> QED BY <2>1, <2>2 DEF ClusterMove
<1>3. Renamed(f, f, FAT_FIRST, FAT_FIRST)
  BY FirstIsCluster, KeptIsRenamed
<1>4. CASE m.res = -2
  <2>1. a = Step(s, dest, dirmoved, 1, {})
    BY <1>4 DEF MoveTo
  <2> HIDE DEF a, f, r
  <2>2. IsState(s) /\ Renamed(f, s.fs, FAT_FIRST, FAT_FIRST)
    BY <1>3 DEF f
  <2> QED BY <2>1, <2>2, RunStepKeeps
<1>5. CASE m.res = -5
  <2>1. a = Step(late, dest, dirmoved, 1, {})
    BY <1>5 DEF MoveTo
  <2> HIDE DEF a, late
  <2>2. IsState(late) /\ Renamed(f, late.fs, FAT_FIRST, FAT_FIRST)
    BY <1>1, <1>3 DEF SameFiles
  <2> HIDE DEF f, r
  <2> QED BY <2>1, <2>2, RunStepKeeps
<1>6. CASE m.res \notin {-2, -5}
  <2>1. m = Result(0, Moved(f, r, dest))
    BY <1>2, <1>6 DEF Result
  <2>2. Renamed(f, m.fs, target, dest)
    BY <2>1, MovedIsRenamed DEF Result
  <2>3. a = Step(Deleted(entry, u), dest, moved, killed, NORMAL)
    <3>1. m.res = 0
      BY <2>1 DEF Result
    <3> QED BY <1>6, <3>1 DEF MoveTo
  <2>4. IsState(new) /\ new.fs = m.fs
    <3> HIDE DEF m, rd
    <3>1. IsState(rd)
      BY <1>1 DEF SameFiles
    <3> QED BY <3>1 DEF IsState, Fields
  <2> HIDE DEF new
  <2>5. SameFiles(new, entry)
    BY <2>4, CacheKeeps DEF SameFiles
  <2> HIDE DEF entry
  <2>6. SameFiles(entry, Deleted(entry, u))
    BY <2>5, CacheKeeps DEF SameFiles
  <2> DEFINE t == Deleted(entry, u)
  <2> HIDE DEF a, m, moved
  <2>7. IsState(t) /\ t.fs = m.fs
    BY <2>4, <2>5, <2>6 DEF SameFiles
  <2>8. \A c \in Numbers : r = Following(c) /\ f.at[c] # NoUnit => c \notin {target, dest}
    <3> TAKE c \in Numbers
    <3> HAVE r = Following(c) /\ f.at[c] # NoUnit
    <3>1. c # dest
      BY DEF Sound
    <3>2. CASE c \in Clusters
      BY <3>1, <3>2, LinkTargets DEF Sound
    <3>3. CASE c \notin Clusters
      BY <3>1, <3>3
    <3> QED BY <3>2, <3>3
  <2> HIDE DEF t, target
  <2>9. Renamed(f, t.fs, target, dest)
    BY <2>2, <2>7
  <2>10. ~ IsDotFile(f, r)
    OBVIOUS
  <2> HIDE DEF f, r
  <2> QED BY <2>3, <2>7, <2>8, <2>9, <2>10, RunStepKeeps DEF t
<1> QED BY <1>4, <1>5, <1>6

(* _fatmovearea(), whatever reference it is called for, if that leads to   *)
(* no bad cluster.                                                         *)
LEMMA CallbackKeeps ==
    ASSUME NEW s, IsState(s), s.fs \in Filesystems, Sound(s.fs),
           NEW call, call.ref \in Called(s.fs),
           call.start \in Starts(s.fs), call.dir \in Starts(s.fs),
           ~ IsDotFile(s.fs, call.ref) /\ Target(s.fs, call.ref) \in Clusters
              => s.fs.next[Target(s.fs, call.ref)] # FAT_BAD,
           request \in Requests, last \in Clusters
    PROVE  KeepsRun(s.fs, call.ref, Callback(s, call))
<1> DEFINE f == s.fs
           r == call.ref
           target == Target(f, r)
           dest == FindFree(f, request.dstbegin, request.dstend, last)
           keep(t, res) == Step(t, last, dirmoved, killed, res)
           compacted == IsBetween(target, request.dstbegin, request.dstend)
                          /\ dest > target
           between == IsBetween(target, request.srcbegin, request.srcend)
           a == Callback(s, call)
<1> SUFFICES KeepsRun(f, r, a)
  OBVIOUS
<1>1. Renamed(f, f, FAT_FIRST, FAT_FIRST) /\ FAT_FIRST \in Clusters
  BY FirstIsCluster, KeptIsRenamed
<1>2. dest = FAT_ERR \/ (dest \in Clusters /\ f.next[dest] = FAT_UNUSED)
  <2>1. request.dstbegin \in Clusters /\ request.dstend \in Clusters
    BY AreasAssumption
  <2> QED BY <2>1, FoundIsFree
<1>3. a = IF killed # 0 THEN keep(s, {})
          ELSE IF IsBoot(r) /\ f.root = FAT_ROOT THEN keep(s, NORMAL)
          ELSE IF target < FAT_FIRST THEN keep(s, NORMAL)
          ELSE IF NextCluster(f, target) = FAT_BAD THEN keep(TargetSet(s, r, FAT_EOF), {})
          ELSE IF IsDotFile(f, r) THEN keep(FixedDot(s, call), {})
          ELSE IF ~ between THEN keep(s, NORMAL)
          ELSE IF dest = FAT_ERR THEN Step(s, FAT_ERR, dirmoved, killed, {})
          ELSE IF compacted THEN Step(s, dest, dirmoved, killed, NORMAL)
          ELSE MoveTo(s, call, dest)
  BY DEF Callback
<1>4. target \in Int
  <2>1. CASE r \in Starts(f)
    BY <2>1, TargetIsInt
  <2>2. CASE r \notin Starts(f)
    BY <2>2, FollowingTarget DEF Called
  <2> QED BY <2>1, <2>2
<1>5. ASSUME ~ (target < FAT_FIRST), ~ IsDotFile(f, r)
      PROVE  r \in Links(f) /\ target \in Clusters
  <2>1. target >= FAT_ROOT /\ target # FAT_ROOT
    BY <1>4, <1>5, SMTT(30) DEF FAT_ROOT, FAT_FIRST
  <2> QED BY <1>5, <2>1, FollowedIsLink DEF Numbers, Called
<1>6. ASSUME target < FAT_FIRST, IsDotFile(f, r)
      PROVE  ~ (target >= FAT_ROOT)
  <2>1. PICK u \in Units, i \in Indices : r = Entry(u, i)
    BY <1>6, DotIsStart
  <2>2. target \in Clusters \cup {FAT_UNUSED}
    BY <2>1, LinkTargets
  <2>3. target \in Clusters => target >= FAT_FIRST
    BY NumbersAre
  <2> QED BY <1>4, <1>6, <2>2, <2>3, SMTT(30) DEF FAT_UNUSED, FAT_ROOT, FAT_FIRST
<1>7. IsBoot(r) => ~ IsDotFile(f, r)
  BY DEF IsBoot, IsDotFile
<1>8. {} \in SUBSET NORMAL /\ CHAIN \notin {} /\ NORMAL \in SUBSET NORMAL
  OBVIOUS
<1>9. ASSUME NEW t, IsState(t), Renamed(f, t.fs, FAT_FIRST, FAT_FIRST)
      PROVE  KeepsRun(f, r, keep(t, {}))
  <2>1. last \in Clusters \cup {FAT_ERR}
    OBVIOUS
  <2> HIDE DEF f, r
  <2> QED BY <1>8, <1>9, <2>1, RunStepKeeps
<1>10. ASSUME NEW d \in Clusters \cup {FAT_ERR}, NEW res \in {{}, NORMAL},
              res = {} \/ ~ IsDotFile(f, r) \/ ~ (target >= FAT_ROOT)
       PROVE  KeepsRun(f, r, Step(s, d, dirmoved, killed, res))
  <2>1. Renamed(f, s.fs, FAT_FIRST, FAT_FIRST)
    BY <1>1
  <2>2. CHAIN \in res => ~ IsDotFile(f, r) \/ ~ (Target(s.fs, r) >= FAT_ROOT)
    BY <1>8, <1>10
  <2>3. res \in SUBSET NORMAL
    BY <1>8, <1>10
  <2> HIDE DEF f, r
  <2> QED BY <2>1, <2>2, <2>3, RunStepKeeps
<1> DEFINE Last0 == last \in Clusters \cup {FAT_ERR}
<1>11. Last0
  OBVIOUS
<1> HIDE DEF a, target, dest, between, compacted
<1>12. CASE killed # 0
  <2>1. a = Step(s, last, dirmoved, killed, {})
    BY <1>3, <1>12
  <2> QED BY <1>10, <1>11, <2>1
<1>13. CASE killed = 0 /\ ((IsBoot(r) /\ f.root = FAT_ROOT) \/ target < FAT_FIRST)
  <2>1. a = Step(s, last, dirmoved, killed, NORMAL)
    BY <1>3, <1>13
  <2>2. ~ IsDotFile(f, r) \/ ~ (target >= FAT_ROOT)
    BY <1>6, <1>7, <1>13
  <2> QED BY <1>10, <1>11, <2>1, <2>2
<1> DEFINE Goes == killed = 0 /\ ~ (IsBoot(r) /\ f.root = FAT_ROOT) /\ ~ (target < FAT_FIRST)
<1>14. CASE Goes /\ NextCluster(f, target) = FAT_BAD
  <2>1. IsDotFile(f, r)
    <3> SUFFICES ASSUME ~ IsDotFile(f, r)
                 PROVE  FALSE
      OBVIOUS
    <3>1. target \in Clusters
      BY <1>5, <1>14
    <3>2. f.next[target] # FAT_BAD
      BY <3>1 DEF target
    <3> QED BY <1>14, <3>1, <3>2 DEF NextCluster
  <2> DEFINE t == TargetSet(s, r, FAT_EOF)
  <2>2. a = keep(t, {})
    BY <1>3, <1>14
  <2>3. IsState(t) /\ Renamed(f, t.fs, FAT_FIRST, FAT_FIRST)
    BY <2>1, DotSetRenames
  <2> HIDE DEF t, keep
  <2> QED BY <1>9, <2>2, <2>3
<1> DEFINE Goes2 == Goes /\ ~ (NextCluster(f, target) = FAT_BAD)
<1>15. CASE Goes2 /\ IsDotFile(f, r)
  <2> DEFINE t == FixedDot(s, call)
  <2>1. a = keep(t, {})
    BY <1>3, <1>15
  <2>2. IsState(t) /\ Renamed(f, t.fs, FAT_FIRST, FAT_FIRST)
    BY <1>15, FixedDotRenames
  <2> HIDE DEF t, keep
  <2> QED BY <1>9, <2>1, <2>2
<1> DEFINE Goes3 == Goes2 /\ ~ IsDotFile(f, r)
<1>16. CASE Goes3 /\ ~ between
  <2>1. a = Step(s, last, dirmoved, killed, NORMAL)
    BY <1>3, <1>16
  <2> QED BY <1>10, <1>11, <1>16, <2>1
<1> DEFINE Goes4 == Goes3 /\ between
<1>17. CASE Goes4 /\ dest = FAT_ERR
  <2>1. a = Step(s, FAT_ERR, dirmoved, killed, {})
    BY <1>3, <1>17
  <2> QED BY <1>10, <2>1
<1>18. CASE Goes4 /\ dest # FAT_ERR /\ compacted
  <2>1. a = Step(s, dest, dirmoved, killed, NORMAL)
    BY <1>3, <1>18
  <2> QED BY <1>2, <1>10, <1>18, <2>1
<1>19. CASE Goes4 /\ dest # FAT_ERR /\ ~ compacted
  <2>1. a = MoveTo(s, call, dest)
    BY <1>3, <1>19
  <2>2. r \in Links(f) /\ target \in Clusters
    BY <1>5, <1>19
  <2>3. dest \in Clusters /\ f.next[dest] = FAT_UNUSED
    BY <1>2, <1>19
  <2> QED BY <1>19, <2>1, <2>2, <2>3, MoveToKeeps DEF target
<1> QED BY <1>12, <1>13, <1>14, <1>15, <1>16, <1>17, <1>18, <1>19

-----------------------------------------------------------------------------
(* While clusters are moved the numbers are others but no file has         *)
(* changed, no bad cluster is reached, and the traversal is where the root *)
(* leads to.                                                               *)
Unmoved ==
    /\ fs \in Filesystems /\ Sound(fs)
    /\ Files(fs) = Files(original)
    /\ Spared(fs, Live(original))
    /\ stack \in Seq(GoodFrames(fs))
    /\ Traced(fs, Live(original), stack)

StaysWhole ==
    /\ request \in Requests
    /\ ~ FilesBad(original) =>
          /\ stage \in {"check", "move"} => Unmoved /\ last \in Clusters
          /\ stage \in {"refused", "holed"} => FilesUnchanged
          /\ stage = "holed" => ~ FilesBad(fs)

LEMMA NormalIsNoAll == \A res : res \subseteq NORMAL => NoAll(res)
BY DEF NoAll, NORMAL, Flags, CHAIN, RECUR, DELETE, ALL

(* What no set that has all the root leads to is not reached.              *)
LEMMA SparedReaches ==
    ASSUME NEW f \in Filesystems, NEW U, Spared(f, U), U \subseteq Units
    PROVE  ~ FilesBad(f)
<1> DEFINE S == {c \in Numbers : f.at[c] \in U}
<1>1. f.root \in S
  BY DEF Spared, Filesystems, Numbers
<1>2. ASSUME NEW T \in SUBSET S, NEW n \in TreeStep(f, T)
      PROVE  n \in S
  <2>1. n \in Numbers
    BY StepElement
  <2>2. CASE n \in T
    BY <2>2
  <2>3. ASSUME NEW c \in T, n = NextCluster(f, c)
        PROVE  n \in S
    BY <2>1, <2>3, NextLive
  <2>4. ASSUME NEW c \in T, NEW i \in Indices,
               f.at[c] # NoUnit /\ f.kind[f.at[c]][i] \in FileKinds,
               n = Target(f, Entry(f.at[c], i))
        PROVE  n \in S
    <3>1. f.at[c] \in Units /\ f.at[c] \in U /\ c \in Numbers
      OBVIOUS
    <3>2. n = f.first[f.at[c]][i]
      BY <2>4, <3>1, LinkTargets
    <3>3. n \in Clusters
      BY <2>1, <3>1, <3>2, LinkTargets, NumbersAre
    <3>4. f.at[n] \in U
      BY <2>4, <3>1, <3>2, <3>3 DEF Spared
    <3> QED BY <2>1, <3>4
  <2> QED BY <2>2, <2>3, <2>4, StepElement
<1>3. Reachable(f) \subseteq S
  <2> HIDE DEF S
  <2> QED BY <1>1, <1>2, ReachWithin
<1> QED BY <1>3 DEF FilesBad, Spared

LEMMA InitStaysWhole == ProgramsInit => StaysWhole
<1> SUFFICES ASSUME ProgramsInit
             PROVE  StaysWhole
  OBVIOUS
<1>1. fs \in Filesystems /\ Sound(fs) /\ original = fs
  BY RootsAssumption DEF ProgramsInit, Init
<1>2. request \in Requests /\ last \in Clusters
  BY AreasAssumption DEF ProgramsInit, Init
<1>3. stage \notin {"refused", "holed"}
  BY ProgramsAssumption, <1>2 DEF ProgramsInit
<1>4. stack = <<NewFrame(Boot, Boot, Boot)>>
  BY DEF ProgramsInit, Init
<1>5. stack \in Seq(GoodFrames(fs))
  BY <1>4, NewFrameGood DEF Starts
<1>6. \A U : Traced(fs, U, stack)
  BY <1>4, BeginTraced
<1>7. ~ FilesBad(original) => Unmoved
  BY <1>1, <1>5, <1>6, LiveSpared DEF Unmoved
<1> QED BY <1>2, <1>3, <1>7 DEF StaysWhole

-----------------------------------------------------------------------------
LEMMA PendingFollows ==
    ASSUME Calling, Top.pc \in {"chain", "againchain"}
    PROVE  Pending.ref = Following(Top.scan)
<1>1. \A d : Call(Top, Following(Top.scan), d).ref = Following(Top.scan)
  BY DEF Call
<1> QED BY <1>1 DEF Pending

LEMMA CallUnmoved ==
    ASSUME Unmoved, Calling, UNCHANGED original,
           NEW s, IsState(s), NEW x, NEW y, Renamed(fs, s.fs, x, y),
           NEW res, res \subseteq NORMAL,
           CHAIN \in res => ~ IsDotFile(fs, Pending.ref)
                               \/ ~ (Target(s.fs, Pending.ref) >= FAT_ROOT),
           \A c \in Numbers : Pending.ref = Following(c) /\ fs.at[c] # NoUnit
                                 => s.fs.at[c] = fs.at[c],
           Returned(s, res)
    PROVE  Unmoved'
<1> DEFINE U == Live(original)
<1>1. /\ fs \in Filesystems /\ Sound(fs) /\ Spared(fs, U)
      /\ Files(fs) = Files(original)
      /\ stack \in Seq(GoodFrames(fs)) /\ Traced(fs, U, stack)
  BY DEF Unmoved
<1>2. Live(original') = U
  OBVIOUS
<1> HIDE DEF U
<1>3. s.fs \in Filesystems /\ Sound(s.fs) /\ Spared(s.fs, U) /\ Files(s.fs) = Files(fs)
  <2>1. s.fs \in Filesystems
    BY DEF Renamed
  <2> QED BY <1>1, <2>1, RenamedSound, RenamedFiles, SparedRenamed
<1>4. fs' = s.fs /\ stack' \in Seq(GoodFrames(s.fs))
  BY <1>1, NormalIsNoAll, CallReturned
<1>5. Top.pc \in {"chain", "againchain"} => s.fs.at[Top.scan] = fs.at[Top.scan]
  <2> HAVE Top.pc \in {"chain", "againchain"}
  <2>1. Pending.ref = Following(Top.scan)
    BY PendingFollows
  <2>2. OnChain(fs, U, Top)
    BY <1>1 DEF Traced, Calling, Top
  <2>3. Top.scan \in Numbers /\ fs.at[Top.scan] \in U
    BY <2>2 DEF OnChain
  <2>4. fs.at[Top.scan] # NoUnit
    BY <1>1, <2>3, RefsAssumption DEF Spared, Placed
  <2> QED BY <2>1, <2>3, <2>4
<1>6. Traced(s.fs, U, stack')
  BY <1>1, <1>5, CallTraced
<1> QED BY <1>1, <1>2, <1>3, <1>4, <1>6 DEF Unmoved

LEMMA CallMoveAreaKeeps ==
    ASSUME Unmoved, request \in Requests, last \in Clusters, CallMoveArea
    PROVE  Unmoved' /\ last' \in Clusters
<1> DEFINE a == Callback(State, Pending)
<1>1. /\ fs \in Filesystems /\ Sound(fs) /\ Spared(fs, Live(original))
      /\ stack \in Seq(GoodFrames(fs)) /\ Traced(fs, Live(original), stack)
      /\ Calling /\ UNCHANGED original
  BY DEF Unmoved, CallMoveArea
<1>2. Returned(a.s, a.res) /\ last' = a.last
  BY DEF CallMoveArea
<1>3. ~ IsDotFile(fs, Pending.ref) /\ Target(fs, Pending.ref) \in Clusters
         => fs.next[Target(fs, Pending.ref)] # FAT_BAD
  <2> HAVE ~ IsDotFile(fs, Pending.ref) /\ Target(fs, Pending.ref) \in Clusters
  <2>1. fs.at[Target(fs, Pending.ref)] \in Live(original)
    BY <1>1, PendingLive
  <2>2. NextCluster(fs, Target(fs, Pending.ref)) # FAT_BAD
    BY <1>1, <2>1 DEF Spared, Numbers
  <2> QED BY <2>2 DEF NextCluster
<1>4. KeepsRun(fs, Pending.ref, a)
  <2>1. IsState(State) /\ State.fs = fs
    BY StateIs
  <2>2. /\ Pending.ref \in Called(fs)
        /\ Pending.start \in Starts(fs) /\ Pending.dir \in Starts(fs)
    BY <1>1, PendingIs
  <2> HIDE DEF a
  <2>3. KeepsRun(State.fs, Pending.ref, Callback(State, Pending))
    BY <1>1, <1>3, <2>1, <2>2, CallbackKeeps
  <2> QED BY <2>1, <2>3 DEF a
<1> HIDE DEF a
<1>5. PICK x, y : Renamed(fs, a.s.fs, x, y)
  BY <1>4 DEF KeepsRun
<1>6. /\ IsState(a.s) /\ a.res \subseteq NORMAL
      /\ CHAIN \in a.res => ~ IsDotFile(fs, Pending.ref)
                              \/ ~ (Target(a.s.fs, Pending.ref) >= FAT_ROOT)
      /\ \A c \in Numbers : Pending.ref = Following(c) /\ fs.at[c] # NoUnit
                               => a.s.fs.at[c] = fs.at[c]
      /\ a.last \in Clusters
  BY <1>4 DEF KeepsRun
<1>7. Unmoved'
  BY <1>1, <1>2, <1>5, <1>6, CallUnmoved
<1> QED BY <1>2, <1>6, <1>7

LEMMA CallFixDotKeeps ==
    ASSUME Unmoved, CallFixDot
    PROVE  Unmoved'
<1>1. /\ fs \in Filesystems /\ stack \in Seq(GoodFrames(fs))
      /\ Calling /\ FixDot /\ UNCHANGED original
  BY DEF Unmoved, CallFixDot
<1>2. ASSUME NEW s, IsState(s), Renamed(fs, s.fs, FAT_FIRST, FAT_FIRST),
             NEW res \in {{}, {RECUR, DELETE}}, Returned(s, res)
      PROVE  Unmoved'
  <2>1. res \subseteq NORMAL /\ CHAIN \notin res
    BY DEF NORMAL, RECUR, DELETE, CHAIN
  <2>2. \A c \in Numbers : s.fs.at[c] = fs.at[c]
    BY <1>2 DEF Renamed, Swap
  <2> QED BY <1>1, <1>2, <2>1, <2>2, CallUnmoved
<1>3. CASE IsDotFile(fs, Pending.ref)
  <2> DEFINE s == FixedDot(State, Pending)
  <2>1. IsState(s) /\ Renamed(fs, s.fs, FAT_FIRST, FAT_FIRST)
    BY <1>1, <1>3, StateIs, PendingIs, FixedDotRenames
  <2>2. Returned(s, {})
    BY <1>1, <1>3 DEF FixDot
  <2> HIDE DEF s
  <2> QED BY <1>2, <2>1, <2>2
<1>4. CASE ~ IsDotFile(fs, Pending.ref)
  <2>1. Returned(State, {RECUR, DELETE})
    BY <1>1, <1>4 DEF FixDot
  <2>2. IsState(State) /\ Renamed(fs, State.fs, FAT_FIRST, FAT_FIRST)
    BY <1>1, StateIs, Kept
  <2> QED BY <1>2, <2>1, <2>2
<1> QED BY <1>3, <1>4

LEMMA StillUnmoved ==
    ASSUME Unmoved, UNCHANGED original, fs' = fs,
           stack' \in Seq(GoodFrames(fs)), Traced(fs, Live(original), stack')
    PROVE  Unmoved'
BY DEF Unmoved

(* Between the traversals, and the passage from an entry to another.       *)
LEMMA OthersUnmoved ==
    ASSUME Unmoved, Ran \/ Fixed \/ Finish \/ Traversing \/ Signal
    PROVE  Unmoved' /\ last' = last
<1>1. /\ fs \in Filesystems /\ Sound(fs) /\ Spared(fs, Live(original))
      /\ stack \in Seq(GoodFrames(fs)) /\ Traced(fs, Live(original), stack)
  BY DEF Unmoved
<1>2. UNCHANGED <<original, last>>
  BY DEF Ran, Fixed, Finish, Traversing, Signal
<1>3. CASE UNCHANGED <<memory, traversal>>
  <2>1. fs' = fs /\ stack' = stack
    BY <1>3 DEF memory, traversal
  <2> QED BY <1>1, <1>2, <2>1, StillUnmoved
<1>4. CASE Begin(Boot)
  <2>1. fs' = fs /\ stack' \in Seq(GoodFrames(fs))
    BY <1>4, BeginKeeps DEF Starts
  <2>2. Traced(fs, Live(original), stack')
    BY <1>4, BeginTraced DEF Begin
  <2> QED BY <1>2, <2>1, <2>2, StillUnmoved
<1>5. CASE Finish
  <2> DEFINE s == WrittenBack(State, dirty)
  <2>1. SameFiles(State, s)
    BY StateIs, CacheKeeps
  <2>2. Memory(s) /\ UNCHANGED traversal
    BY <1>5 DEF Finish
  <2> HIDE DEF s
  <2>3. fs' = fs /\ stack' = stack
    BY <2>1, <2>2, StateIs DEF SameFiles, Memory, traversal
  <2> QED BY <1>1, <1>2, <2>3, StillUnmoved
<1>6. CASE Traversing
  <2>1. CASE Advance
    BY <1>1, <1>2, <2>1, AdvanceKeeps, AdvanceTraced, StillUnmoved
  <2>2. CASE Return
    BY <1>1, <1>2, <2>2, ReturnKeeps, ReturnTraced, StillUnmoved
  <2> QED BY <1>6, <2>1, <2>2 DEF Traversing
<1>7. CASE Ran \/ Fixed
  BY <1>2, <1>3, <1>4, <1>7 DEF Ran, Fixed
<1>8. CASE Signal
  BY <1>2, <1>3, <1>8 DEF Signal
<1> QED BY <1>5, <1>6, <1>7, <1>8

-----------------------------------------------------------------------------
(* An area where no cluster is allocated is marked as bad.                 *)
LEMMA MarkedIs ==
    ASSUME Unmoved, request \in Requests, ~ Allocated
    PROVE  /\ Files(Marked) = Files(fs)
           /\ ~ FilesBad(Marked)
<1> DEFINE area == request.srcbegin .. request.srcend
           next == [c \in Clusters |-> IF c \in area THEN FAT_BAD ELSE fs.next[c]]
           g == Marked
           U == Live(original)
<1>1. fs \in Filesystems /\ Sound(fs) /\ Spared(fs, U)
  BY DEF Unmoved
<1>2. ASSUME NEW c \in Clusters, c \in area
      PROVE  fs.next[c] \in {FAT_UNUSED, FAT_BAD}
  <2>1. request.srcbegin \in Clusters /\ request.srcend \in Clusters
    BY AreasAssumption
  <2>2. c \in Int /\ request.srcbegin \in Int /\ request.srcend \in Int
    BY <2>1, NumbersAre
  <2>3. IF request.srcbegin = request.srcend THEN c = request.srcbegin
        ELSE IsBetween(c, request.srcbegin, request.srcend)
    BY <1>2, <2>2, SMTT(30) DEF IsBetween
  <2>4. NextCluster(fs, c) \in {FAT_UNUSED, FAT_BAD}
    BY <2>3 DEF Allocated
  <2> QED BY <2>4 DEF NextCluster
<1>3. g = [fs EXCEPT !.next = next]
  BY DEF Marked
<1>4. next \in [Clusters -> Nexts]
  BY <1>1 DEF Filesystems, Nexts
<1>5. \A c \in Clusters : next[c] = IF c \in area THEN FAT_BAD ELSE fs.next[c]
  OBVIOUS
<1> HIDE DEF next, area
<1>6. /\ g \in Filesystems /\ g.at = fs.at /\ g.kind = fs.kind /\ g.first = fs.first
      /\ g.root = fs.root /\ g.next = next
  BY <1>1, <1>3, <1>4 DEF Filesystems
<1> HIDE DEF g
<1>7. ASSUME NEW c \in Numbers, fs.at[c] # NoUnit
      PROVE  \/ NextCluster(g, c) = NextCluster(fs, c)
             \/ NextCluster(g, c) = FAT_BAD /\ NextCluster(fs, c) = FAT_BAD
  <2>1. CASE c \in Clusters /\ c \in area
    <3>1. fs.next[c] # FAT_UNUSED
      BY <1>1, <1>7, <2>1 DEF Sound
    <3> QED BY <1>2, <1>5, <1>6, <2>1, <3>1 DEF NextCluster
  <2>2. CASE c \in Clusters /\ c \notin area
    BY <1>5, <1>6, <2>2 DEF NextCluster
  <2>3. CASE c \notin Clusters
    BY <2>3 DEF NextCluster
  <2> QED BY <2>1, <2>2, <2>3
<1>8. ASSUME NEW c \in Numbers, fs.at[c] # NoUnit
      PROVE  NextCluster(g, c) = NextCluster(fs, c)
  BY <1>7, <1>8
<1>9. Spared(g, U)
  <2>1. U \subseteq Units /\ NoUnit \notin U
    BY <1>1, RefsAssumption DEF Spared, Placed
  <2>2. Placed(g) = Placed(fs)
    BY <1>6 DEF Placed
  <2> HIDE DEF U
  <2>3. ASSUME NEW c \in Numbers, g.at[c] \in U
        PROVE  NextCluster(g, c) = NextCluster(fs, c)
    BY <1>6, <1>8, <2>1, <2>3
  <2> QED BY <1>1, <1>6, <2>2, <2>3 DEF Spared
<1>10. ~ FilesBad(g)
  <2>1. U \subseteq Units
    BY <1>1 DEF Spared, Placed
  <2> QED BY <1>6, <1>9, <2>1, SparedReaches
<1>11. Files(g) = Files(fs)
  <2>1. \A n : UnitAt(g, n) = UnitAt(fs, n)
    BY <1>6 DEF UnitAt
  <2>2. Placed(g) = Placed(fs) /\ \A u : NumberOf(g, u) = NumberOf(fs, u)
    BY <1>6 DEF Placed, NumberOf
  <2>3. ASSUME NEW u \in Placed(fs)
        PROVE  NextCluster(g, NumberOf(g, u)) = NextCluster(fs, NumberOf(fs, u))
    <3>1. NumberOf(fs, u) \in Numbers /\ fs.at[NumberOf(fs, u)] = u
      BY DEF Placed, NumberOf, Numbers
    <3>2. u # NoUnit
      BY RefsAssumption DEF Placed
    <3> QED BY <1>8, <2>2, <3>1, <3>2
  <2> QED BY <1>6, <2>1, <2>2, <2>3 DEF Files
<1> QED BY <1>10, <1>11 DEF g

-----------------------------------------------------------------------------
(* What each action of Programs does to the files and to the stage.        *)
LEMMA MovingKeeps == StaysWhole /\ (Moving \/ Interrupt) => StaysWhole'
<1> SUFFICES ASSUME StaysWhole, Moving \/ Interrupt
             PROVE  StaysWhole'
  OBVIOUS
<1>1. /\ stage = "move" /\ stage' = stage
      /\ CallMoveArea \/ CallFixDot \/ Ran \/ Fixed \/ Finish \/ Traversing \/ Signal
  BY DEF Moving, Interrupt, Work, program
<1>2. UNCHANGED <<request, original>>
  BY <1>1 DEF CallMoveArea, CallFixDot, Ran, Fixed, Finish, Traversing, Signal, moveareastruct
<1>3. request \in Requests
  BY DEF StaysWhole
<1>4. ASSUME Unmoved, last \in Clusters
      PROVE  Unmoved' /\ last' \in Clusters
  <2>1. CASE CallMoveArea
    BY <1>3, <1>4, <2>1, CallMoveAreaKeeps
  <2>2. CASE CallFixDot
    BY <1>4, <2>2, CallFixDotKeeps DEF CallFixDot
  <2>3. CASE Ran \/ Fixed \/ Finish \/ Traversing \/ Signal
    BY <1>4, <2>3, OthersUnmoved
  <2> QED BY <1>1, <2>1, <2>2, <2>3
<1>5. ~ FilesBad(original') => ~ FilesBad(original)
  BY <1>2
<1> QED BY <1>1, <1>2, <1>3, <1>4, <1>5 DEF StaysWhole

LEMMA GoToKeeps ==
    ASSUME NEW s, GoTo(s)
    PROVE  /\ stage' = s
           /\ UNCHANGED <<fs, stack, request, original, last>>
BY DEF GoTo, same, moveareastruct, memory, traversal

LEMMA CutOrRefuseKeeps ==
    ASSUME StaysWhole, stage \in {"check", "move"}, CutOrRefuse
    PROVE  StaysWhole'
<1>1. CASE request.truncate
  <2>1. stage' = "cut" /\ UNCHANGED <<request, original>>
    BY <1>1 DEF CutOrRefuse, same, moveareastruct
  <2> QED BY <2>1 DEF StaysWhole
<1>2. CASE ~ request.truncate
  <2>1. GoTo("refused")
    BY <1>2 DEF CutOrRefuse
  <2>2. stage' = "refused" /\ UNCHANGED <<fs, request, original>>
    BY <2>1, GoToKeeps
  <2>3. ~ FilesBad(original') => ~ FilesBad(original)
    BY <2>2
  <2>4. Unmoved => FilesUnchanged'
    BY <2>2 DEF Unmoved, FilesUnchanged
  <2> QED BY <2>2, <2>3, <2>4 DEF StaysWhole
<1> QED BY <1>1, <1>2

LEMMA CheckKeeps == StaysWhole /\ (Check \/ CheckAgain) => StaysWhole'
<1> SUFFICES ASSUME StaysWhole, Check \/ CheckAgain
             PROVE  StaysWhole'
  OBVIOUS
<1>1. stage \in {"check", "move"}
  BY DEF Check, CheckAgain
<1>2. CASE GoTo("end")
  <2>1. stage' = "end" /\ UNCHANGED <<request, original>>
    BY <1>2, GoToKeeps
  <2> QED BY <2>1 DEF StaysWhole
<1>3. CASE GoTo("move")
  <2>1. stage' = "move" /\ UNCHANGED <<fs, stack, request, original, last>>
    BY <1>3, GoToKeeps
  <2>2. ~ FilesBad(original') => ~ FilesBad(original)
    BY <2>1
  <2>3. Unmoved => Unmoved'
    <3> HAVE Unmoved
    <3>1. stack' \in Seq(GoodFrames(fs)) /\ Traced(fs, Live(original), stack')
      BY <2>1 DEF Unmoved
    <3> QED BY <2>1, <3>1, StillUnmoved
  <2> QED BY <1>1, <2>1, <2>2, <2>3 DEF StaysWhole
<1>4. CASE CutOrRefuse
  BY <1>1, <1>4, CutOrRefuseKeeps
<1> QED BY <1>2, <1>3, <1>4 DEF Check, CheckAgain

LEMMA HoleKeeps == StaysWhole /\ Hole => StaysWhole'
<1> SUFFICES ASSUME StaysWhole, Hole
             PROVE  StaysWhole'
  OBVIOUS
<1>1. /\ stage = "move" /\ stage' = IF Allocated THEN "refused" ELSE "holed"
      /\ UNCHANGED <<request, original>>
  BY DEF Hole, same, moveareastruct
<1>2. fs' = IF Allocated THEN fs ELSE Marked
  <2> DEFINE g == IF Allocated THEN fs ELSE Marked
             s == [State EXCEPT !.fs = g]
  <2>1. s.fs = g
    BY DEF State
  <2>2. Memory(s)
    BY DEF Hole
  <2> HIDE DEF s
  <2> QED BY <2>1, <2>2 DEF Memory
<1>3. ~ FilesBad(original') => ~ FilesBad(original)
  BY <1>1
<1>4. request \in Requests
  BY DEF StaysWhole
<1>5. CASE Allocated
  <2>1. fs' = fs /\ stage' = "refused"
    BY <1>1, <1>2, <1>5
  <2>2. Unmoved => FilesUnchanged'
    BY <1>1, <2>1 DEF Unmoved, FilesUnchanged
  <2> QED BY <1>1, <1>3, <2>1, <2>2 DEF StaysWhole
<1>6. CASE ~ Allocated
  <2>1. fs' = Marked /\ stage' = "holed"
    BY <1>1, <1>2, <1>6
  <2>2. Unmoved => Files(Marked) = Files(fs) /\ ~ FilesBad(Marked)
    BY <1>4, <1>6, MarkedIs
  <2> HIDE DEF Marked
  <2>3. Unmoved => FilesUnchanged' /\ ~ FilesBad(fs')
    BY <1>1, <2>1, <2>2 DEF Unmoved, FilesUnchanged
  <2> QED BY <1>1, <1>3, <2>1, <2>3 DEF StaysWhole
<1> QED BY <1>5, <1>6

(* The other programs, and what comes after the clusters were moved.       *)
LEMMA ElsewhereKeeps ==
    /\ StaysWhole
    /\ \/ CallTruncate \/ CallCutBad \/ CallCreate \/ CallCopy \/ Traversal
       \/ Truncation \/ BadCut \/ Unreachable \/ Copy
    => StaysWhole'
<1> SUFFICES ASSUME StaysWhole,
                    \/ CallTruncate \/ CallCutBad \/ CallCreate \/ CallCopy \/ Traversal
                    \/ Truncation \/ BadCut \/ Unreachable \/ Copy
             PROVE  StaysWhole'
  OBVIOUS
<1>1. ASSUME NEW a, Did(a), stage \in {"cut", "cutbad", "unreachable", "backup"}
      PROVE  /\ stage' \in {"cut", "cutbad", "unreachable", "backup", "killed"}
             /\ UNCHANGED <<request, original>>
  BY <1>1, GoToKeeps DEF Did, same, moveareastruct
<1>2. \A s : Flushed(s) => UNCHANGED <<request, original>>
  BY DEF Flushed, same, moveareastruct
<1>3. /\ stage' \notin {"check", "move", "refused", "holed"}
      /\ UNCHANGED <<request, original>>
  <2>1. CASE CallTruncate \/ CallCutBad \/ CallCreate \/ CallCopy
    BY <1>1, <2>1 DEF CallTruncate, CallCutBad, CallCreate, CallCopy
  <2>2. CASE Traversal
    BY <2>2 DEF Traversal, same, moveareastruct, program
  <2>3. CASE Truncation \/ Unreachable
    BY <1>2, <2>3 DEF Truncation, Unreachable
  <2>4. CASE BadCut
    <3>1. BadCut => /\ stage' \in {"unreachable", "end"}
                    /\ UNCHANGED same \/ \E s : Flushed(s)
      BY DEF BadCut
    <3> QED BY <1>2, <2>4, <3>1 DEF same, moveareastruct
  <2>5. CASE Copy
    BY <2>5, GoToKeeps DEF Copy
  <2> QED BY <2>1, <2>2, <2>3, <2>4, <2>5
<1> QED BY <1>3 DEF StaysWhole

LEMMA WholeInvariance == ProgramsSpec => []StaysWhole
<1>1. ProgramsInit => StaysWhole
  BY InitStaysWhole
<1>2. StaysWhole /\ [ProgramsNext]_allvars => StaysWhole'
  <2>1. StaysWhole /\ UNCHANGED allvars => StaysWhole'
    <3> SUFFICES ASSUME StaysWhole, UNCHANGED allvars
                 PROVE  StaysWhole'
      OBVIOUS
    <3>1. UNCHANGED <<fs, stack, request, original, last, stage>>
      BY DEF allvars, vars, program, memory, traversal, moveareastruct
    <3>2. Unmoved => Unmoved'
      <4> HAVE Unmoved
      <4>1. stack' \in Seq(GoodFrames(fs)) /\ Traced(fs, Live(original), stack')
        BY <3>1 DEF Unmoved
      <4> QED BY <3>1, <4>1, StillUnmoved
    <3>3. ~ FilesBad(original') => ~ FilesBad(original)
      BY <3>1
    <3>4. FilesUnchanged => FilesUnchanged'
      BY <3>1 DEF FilesUnchanged
    <3>5. ~ FilesBad(fs) => ~ FilesBad(fs')
      BY <3>1
    <3> QED BY <3>1, <3>2, <3>3, <3>4, <3>5 DEF StaysWhole
  <2> QED BY <2>1, MovingKeeps, CheckKeeps, HoleKeeps, ElsewhereKeeps
          DEF ProgramsNext, ProgramsWork
<1> QED BY <1>1, <1>2, PTL DEF ProgramsSpec

(* While fatmovearea() moves the clusters of files away, as fatshrink, the *)
(* command hole and compacting do, and whatever fails or interrupts it, no *)
(* file changes that had no bad cluster; nor has one changed when the      *)
(* program refuses to go on, and no cluster of a file is marked as bad     *)
(* when a hole is made.                                                    *)
THEOREM FilesStay == ProgramsSpec => []FilesUnmoved
<1>1. StaysWhole => FilesUnmoved
  BY DEF StaysWhole, Unmoved, FilesUnmoved, FilesUnchanged
<1> QED BY <1>1, WholeInvariance, PTL
=============================================================================
