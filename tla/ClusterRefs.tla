---------------------------- MODULE ClusterRefs ----------------------------
(***************************************************************************)
(* lib/reference.c: the places a cluster is pointed from, and moving and   *)
(* swapping clusters through them.                                         *)
(*                                                                         *)
(* What a cluster contains is a unit: clusters are renumbered, units are   *)
(* not.  A filesystem is a record                                          *)
(*    next    what follows each cluster (fatgetnextcluster())              *)
(*    at      the unit that is in each cluster, NoUnit in a free one       *)
(*    root    the first cluster of the root directory, FAT_ROOT if it is   *)
(*            not among the clusters (FAT12 and FAT16)                     *)
(*    kind    of each directory entry of each unit                         *)
(*    first   the first cluster in each entry, FAT_UNUSED if empty         *)
(***************************************************************************)
EXTENDS Integers

CONSTANTS
    Last,       \* last cluster of the filesystem
    Units,      \* contents of clusters
    NoUnit,     \* the null pointer
    Slots       \* directory entries of a cluster: 0 .. Slots - 1

FAT_UNUSED == 0
FAT_EOF    == -1
FAT_BAD    == -2
FAT_ERR    == -1000
FAT_ROOT   == 1
FAT_FIRST  == 2

ASSUME RefsAssumption ==
    /\ Last \in Nat /\ Last >= FAT_FIRST
    /\ NoUnit \notin Units
    /\ Slots \in Nat \ {0}

Clusters == FAT_FIRST .. Last
Numbers  == Clusters \cup {FAT_ROOT}
Indices  == 0 .. Slots - 1
Nexts    == {FAT_UNUSED, FAT_EOF, FAT_BAD} \cup Clusters
DotKinds == {"dot", "dotdot"}
Kinds    == {"end", "deleted", "file", "dir"} \cup DotKinds

Filesystems ==
    [next  : [Clusters -> Nexts],
     at    : [Clusters \cup {FAT_ROOT} -> Units \cup {NoUnit}],
     root  : Clusters \cup {FAT_ROOT},
     kind  : [Units -> [Indices -> Kinds]],
     first : [Units -> [Indices -> Clusters \cup {FAT_UNUSED}]]]

(* A cluster reference: the boot sector, a directory entry, the cluster    *)
(* before, or none of them.                                                *)
Ref(directory, index, previous) ==
    [directory |-> directory, index |-> index, previous |-> previous]

Boot         == Ref(NoUnit, 0, -1)
Void         == Ref(NoUnit, 0, 0)
Entry(u, i)  == Ref(u, i, 0)
Following(c) == Ref(NoUnit, 0, c)

References == {Boot, Void} \cup {Entry(u, i) : u \in Units, i \in Indices}
                  \cup {Following(c) : c \in Clusters \cup {FAT_ROOT}}

IsEntry(r)   == r.directory # NoUnit
IsBoot(r)    == ~ IsEntry(r) /\ r.previous = -1
KindOf(fs, r) == fs.kind[r.directory][r.index]
IsDotFile(fs, r) == IsEntry(r) /\ KindOf(fs, r) \in DotKinds

(* fatreferenceisdirectory(): the dot files have the attribute, too.       *)
IsDirectory(fs, r) ==
    IsBoot(r) \/ (IsEntry(r) /\ KindOf(fs, r) \in {"dir"} \cup DotKinds)

(* fatgetnextcluster(): the root of FAT12 and FAT16 is not in the table.   *)
NextCluster(fs, c) ==
    IF c \in Clusters THEN fs.next[c]
    ELSE IF c = FAT_ROOT THEN FAT_EOF ELSE FAT_ERR

(* fatreferencegettarget() and fatreferencesettarget().                    *)
Target(fs, r) ==
    IF IsEntry(r) THEN fs.first[r.directory][r.index]
    ELSE IF IsBoot(r) THEN fs.root
    ELSE IF r.previous >= FAT_FIRST THEN NextCluster(fs, r.previous)
    ELSE FAT_ERR

SetTarget(fs, r, n) ==
    IF IsEntry(r)
    THEN [fs EXCEPT !.first[r.directory][r.index] =
                        IF n \in {FAT_EOF, FAT_ROOT} THEN FAT_UNUSED ELSE n]
    ELSE IF IsBoot(r)
    THEN [fs EXCEPT !.root = IF @ = FAT_ROOT THEN @ ELSE n]
    ELSE [fs EXCEPT !.next = [c \in Clusters |->
                        IF c = r.previous THEN n ELSE fs.next[c]]]

-----------------------------------------------------------------------------
(* fatclustermove() and fatclusterswap(), with the clusters written at     *)
(* once.  `unreadable` and `unwritable` are the clusters that fail to be.  *)
Result(res, fs) == [res |-> res, fs |-> fs]

MovedAlone(fs, r, new) ==
    LET current == Target(fs, r)
        at == [fs.at EXCEPT ![current] = NoUnit, ![new] = fs.at[current]]
        s  == SetTarget([fs EXCEPT !.at = at], r, new)
    IN  [s EXCEPT !.next = [c \in Clusters |->
            IF c = new THEN FAT_EOF ELSE IF c = current THEN FAT_UNUSED ELSE s.next[c]]]

Moved(fs, r, new) ==
    LET current == Target(fs, r)
        at == [fs.at EXCEPT ![current] = NoUnit, ![new] = fs.at[current]]
        s  == SetTarget([fs EXCEPT !.at = at], r, new)
    IN  [s EXCEPT !.next = [c \in Clusters |->
            IF c = new THEN fs.next[current]
            ELSE IF c = current THEN FAT_UNUSED ELSE s.next[c]]]

ClusterMove(fs, r, new, unreadable, unwritable) ==
    LET current == Target(fs, r)
    IN  IF current < FAT_FIRST \/ NextCluster(fs, new) # FAT_UNUSED
                                  THEN Result(-1, fs)
        ELSE IF current \in unreadable THEN Result(-2, fs)
        ELSE IF new \in unwritable     THEN Result(-5, fs)
        ELSE Result(0, Moved(fs, r, new))

(* The clusters may be consecutive, one way or the other.                  *)
SwappedInPlace(fs, r, q) ==
    LET a == Target(fs, r)
        b == Target(fs, q)
        at == [fs.at EXCEPT ![a] = fs.at[b], ![b] = fs.at[a]]
        s == SetTarget(SetTarget([fs EXCEPT !.at = at], r, b), q, a)
    IN  [s EXCEPT !.next = [c \in Clusters |->
            IF c = a THEN fs.next[b] ELSE IF c = b THEN fs.next[a] ELSE s.next[c]]]

Swapped(fs, r, q) ==
    LET a == Target(fs, r)
        b == Target(fs, q)
        nexta == IF fs.next[a] = b THEN a ELSE fs.next[a]
        nextb == IF fs.next[b] = a THEN b ELSE fs.next[b]
        at == [fs.at EXCEPT ![a] = fs.at[b], ![b] = fs.at[a]]
        s  == SetTarget(SetTarget([fs EXCEPT !.at = at], r, b), q, a)
    IN  [s EXCEPT !.next = [c \in Clusters |->
            IF c = a THEN nextb ELSE IF c = b THEN nexta ELSE s.next[c]]]

ClusterSwap(fs, r, q, unreadable, unwritable) ==
    LET a == Target(fs, r)
        b == Target(fs, q)
    IN  IF a < FAT_FIRST \/ b < FAT_FIRST THEN Result(-1, fs)
        ELSE IF a \in unreadable THEN Result(-2, fs)
        ELSE IF b \in unreadable THEN Result(-4, fs)
        ELSE IF b \in unwritable THEN Result(-5, fs)
        ELSE IF a \in unwritable THEN Result(-3, fs)
        ELSE Result(0, Swapped(fs, r, q))

-----------------------------------------------------------------------------
(* What the files are, whatever the numbers of their clusters: the unit    *)
(* each reference leads to, dot files aside.                               *)
UnitAt(fs, n) == IF n \in Clusters \cup {FAT_ROOT} THEN fs.at[n] ELSE NoUnit

Placed(fs) == {u \in Units : \E c \in Clusters \cup {FAT_ROOT} : fs.at[c] = u}
NumberOf(fs, u) == CHOOSE c \in Clusters \cup {FAT_ROOT} : fs.at[c] = u

(* The clusters that can be reached from some others through the table and *)
(* the files of the directories; the empty file leads nowhere.             *)
FileKinds == {"file", "dir"}
EntriesIn(fs, c) == {Entry(fs.at[c], i) : i \in Indices}
FilesIn(fs, c) ==
    {e \in EntriesIn(fs, c) : fs.at[c] # NoUnit /\ KindOf(fs, e) \in FileKinds}

ChainStep(fs, S) ==
    (S \cup {NextCluster(fs, c) : c \in S}) \cap (Clusters \cup {FAT_ROOT})
TreeStep(fs, S) ==
    (S \cup {NextCluster(fs, c) : c \in S}
       \cup {Target(fs, e) : e \in UNION {FilesIn(fs, c) : c \in S}})
    \cap (Clusters \cup {FAT_ROOT})

(* The references that make the files, dot files aside.  The filesystem is *)
(* sound if no two lead to the same cluster, none to itself, to a free one *)
(* or to one that nothing is in, and no unit is in two clusters.           *)
Links(fs) ==
    {Boot} \cup {Following(c) : c \in Clusters}
       \cup {e \in {Entry(u, i) : u \in Units, i \in Indices} :
                                     KindOf(fs, e) \in FileKinds}

Sound(fs) ==
    /\ \A r, q \in Links(fs) :
          Target(fs, r) \in Clusters /\ Target(fs, r) = Target(fs, q) => r = q
    /\ \A r \in Links(fs) : Target(fs, r) \in Clusters =>
          fs.next[Target(fs, r)] # FAT_UNUSED /\ fs.at[Target(fs, r)] # NoUnit
    /\ fs.at[fs.root] # NoUnit
    /\ \A c \in Clusters :
          fs.next[c] # c /\ (fs.next[c] = FAT_UNUSED => fs.at[c] = NoUnit)
    /\ \A c, d \in Clusters \cup {FAT_ROOT} :
          fs.at[c] # NoUnit /\ fs.at[c] = fs.at[d] => c = d

(* No chain has a bad cluster.                                             *)
AllGood(fs) ==
    \A r \in Links(fs) : Target(fs, r) \in Clusters =>
                             fs.next[Target(fs, r)] # FAT_BAD

(* No path is longer than there are clusters.                              *)
Closure(Grown(_), S) ==
    LET after[n \in 0 .. Last] ==
            IF n = 0 THEN S \cap (Clusters \cup {FAT_ROOT})
            ELSE UNION {Grown(T) : T \in {after[n - 1]}}
    IN  after[Last]

ChainFrom(fs, S) == LET Grown(T) == ChainStep(fs, T) IN Closure(Grown, S)
TreeFrom(fs, S)  == LET Grown(T) == TreeStep(fs, T) IN Closure(Grown, S)
Reachable(fs) == TreeFrom(fs, {fs.root})

(* The references of the clusters that are reached.                        *)
LiveRefs(fs) ==
    LET reached == Reachable(fs)
    IN  {Boot} \cup {Following(c) : c \in reached}
           \cup UNION {FilesIn(fs, c) : c \in reached}

Directories(fs) == {r \in LiveRefs(fs) : IsDirectory(fs, r)}
DirectoryClusters(fs) == ChainFrom(fs, {Target(fs, r) : r \in Directories(fs)})
FilesOf(fs, r) == UNION {FilesIn(fs, c) : c \in ChainFrom(fs, {Target(fs, r)})}

(* The dot files lead to the directory they are in and to the one that is  *)
(* in, the root being zero; those that do not are told by the reference of *)
(* the directory they are in.                                              *)
StaleDots(fs) ==
    {s \in Directories(fs) \X LiveRefs(fs) \X DotKinds :
        LET e  == s[2]
            to == Target(fs, IF s[3] = "dot" THEN e ELSE s[1])
            u  == fs.at[Target(fs, e)]
        IN  /\ e \in FilesOf(fs, s[1]) /\ KindOf(fs, e) = "dir" /\ Target(fs, e) \in Clusters
            /\ \E i \in Indices : /\ fs.kind[u][i] = s[3]
                                  /\ fs.first[u][i] # IF to = fs.root THEN FAT_UNUSED ELSE to}

DotsRight(fs) == StaleDots(fs) = {}

Files(fs) ==
    [root |-> UnitAt(fs, fs.root),
     first |-> [e \in Units \X Indices |->
         IF fs.kind[e[1]][e[2]] \in {"file", "dir"}
         THEN UnitAt(fs, fs.first[e[1]][e[2]]) ELSE NoUnit],
     next |-> [u \in Units |->
         IF u \in Placed(fs) THEN UnitAt(fs, NextCluster(fs, NumberOf(fs, u)))
                             ELSE NoUnit]]

=============================================================================
