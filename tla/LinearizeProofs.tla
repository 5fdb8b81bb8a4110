--------------------------- MODULE LinearizeProofs --------------------------
(***************************************************************************)
(* Proofs about Linearize, for any number of clusters, any filesystems,    *)
(* requests and failures that the assumptions allow.                       *)
(***************************************************************************)
EXTENDS Linearize, RenumberProofs

(* What holds whatever is moved: the numbers are others but no file has    *)
(* changed, the inverse FAT has references that lead where it says, the    *)
(* frames are where they can go on, and the next place is a cluster.       *)
Unchanging ==
    /\ fs \in Filesystems /\ Sound(fs) /\ AllGood(fs)
    /\ Files(fs) = Files(original)
    /\ RevSound(fs, rev)
    /\ stack \in Seq(GoodFrames(fs))
    /\ request.ref \in Starts(fs)
    /\ size \in Nat /\ cl \in FAT_ROOT .. Last + 1

LEMMA InitUnchanging == Init => Unchanging
<1> SUFFICES ASSUME Init
             PROVE  Unchanging
  OBVIOUS
<1>1. fs \in Filesystems /\ Sound(fs) /\ AllGood(fs) /\ original = fs
  BY RootsAssumption DEF Init
<1>2. RevSound(fs, rev)
  <2>1. NoInverse.ref = Void /\ NoInverse \in [ref : References, isdir : BOOLEAN]
    BY DEF NoInverse, InversePair, References
  <2>2. rev = [c \in Numbers |-> NoInverse]
    BY DEF Init, Numbers
  <2>3. rev \in InverseFats
    BY <2>1, <2>2 DEF InverseFats, Numbers
  <2> QED BY <2>1, <2>2, <2>3 DEF RevSound, Points
<1>3. request.ref \in Starts(fs)
  <2> DEFINE r == request.ref
  <2>1. Found(fs, r) /\ r \in References /\ (IsEntry(r) \/ IsBoot(r))
    BY RequestsAssumption DEF Init
  <2>2. CASE IsEntry(r)
    <3>1. \A c : ~ IsEntry(Following(c))
      BY DEF IsEntry, Following, Ref
    <3>2. ~ IsEntry(Boot) /\ ~ IsEntry(Void)
      BY DEF IsEntry, Boot, Void, Ref
    <3>3. r \in LiveRefs(fs)
      BY <2>1, <2>2 DEF Found
    <3> HIDE DEF r
    <3>4. \E c \in Reachable(fs) : r \in FilesIn(fs, c)
      BY <2>2, <3>1, <3>2, <3>3 DEF LiveRefs
    <3>5. KindOf(fs, r) \in FileKinds
      BY <3>4 DEF FilesIn
    <3>6. \E u \in Units, i \in Indices : r = Entry(u, i)
      BY <2>1, <2>2, <3>1, <3>2 DEF References
    <3> QED BY <3>5, <3>6 DEF Starts, r
  <2>3. CASE ~ IsEntry(r)
    <3>1. r.previous = -1 /\ r.directory = NoUnit
      BY <2>1, <2>3 DEF IsBoot, IsEntry
    <3>2. \A c \in Numbers : Following(c).previous # -1
      BY NumbersAre, SMTT(30) DEF Following, Ref, Numbers, FAT_ROOT, FAT_FIRST
    <3>3. Void.previous # -1 /\ \A u \in Units : \A i : Entry(u, i).directory # NoUnit
      BY RefsAssumption DEF Void, Entry, Ref
    <3>4. r = Boot
      BY <2>1, <3>1, <3>2, <3>3 DEF References, Numbers
    <3> QED BY <3>4 DEF Starts
  <2> QED BY <2>2, <2>3
<1>4. stack \in Seq(GoodFrames(fs))
  BY <1>3, NewFrameGood DEF Init
<1>5. size \in Nat /\ cl \in FAT_ROOT .. Last + 1
  BY RefsAssumption, SMTT(30) DEF Init, FAT_FIRST, FAT_ROOT
<1> QED BY <1>1, <1>2, <1>3, <1>4, <1>5 DEF Unchanging

-----------------------------------------------------------------------------
(* What the callback of fatdefragment() leaves: the numbers of two         *)
(* clusters may be exchanged, nothing else.                                *)
KeepsFiles(f, a) ==
    /\ IsState(a.s) /\ \E x, y : Renamed(f, a.s.fs, x, y)
    /\ RevSound(a.s.fs, a.s.rev)
    /\ NoAll(a.res)
    /\ a.cl \in FAT_ROOT .. Last + 1

(* What follows the last cluster is no bad cluster.                        *)
LEMMA NextPlaceIs ==
    ASSUME NEW f \in Filesystems, NEW c \in FAT_ROOT .. Last
    PROVE  NextPlace(f, c) \in c + 1 .. Last + 1
<1> DEFINE S == {n \in c + 1 .. Last + 1 : NextCluster(f, n) # FAT_BAD}
<1>1. Last + 1 \in c + 1 .. Last + 1 /\ c + 1 \in Nat
  BY RefsAssumption, SMTT(30) DEF FAT_ROOT
<1>2. NextCluster(f, Last + 1) = FAT_ERR
  BY RefsAssumption, SMTT(30) DEF NextCluster, Clusters, FAT_ROOT, FAT_FIRST
<1>3. S # {} /\ S \in SUBSET Nat
  <2>1. FAT_ERR # FAT_BAD
    BY DEF FAT_ERR, FAT_BAD
  <2>2. c + 1 .. Last + 1 \subseteq Nat
    BY <1>1, RefsAssumption
  <2> QED BY <1>1, <1>2, <2>1, <2>2
<1>4. PICK k \in S : \A j \in S : k <= j
  BY <1>3, LeastNumber
<1>5. ASSUME NEW m \in c + 1 .. k - 1
      PROVE  NextCluster(f, m) = FAT_BAD
  <2>1. m \in c + 1 .. Last + 1 /\ ~ (k <= m)
    BY <1>1, RefsAssumption, SMTT(30)
  <2> QED BY <1>4, <2>1
<1>6. /\ k \in c + 1 .. Last + 1 /\ NextCluster(f, k) # FAT_BAD
      /\ \A m \in c + 1 .. k - 1 : NextCluster(f, m) = FAT_BAD
  BY <1>5
<1> HIDE DEF S
<1> QED BY <1>6 DEF NextPlace

LEMMA StepKeeps ==
    ASSUME NEW f, NEW t, IsState(t), NEW x, NEW y, Renamed(f, t.fs, x, y),
           RevSound(t.fs, t.rev), NEW place \in FAT_ROOT .. Last + 1,
           NEW res, NoAll(res), NEW moved, NEW kill
    PROVE  KeepsFiles(f, Step(t, place, moved, kill, res))
<1> DEFINE a == Step(t, place, moved, kill, res)
<1>1. a.s = t /\ a.cl = place /\ a.res = res
  BY DEF Step
<1> HIDE DEF a
<1>2. KeepsFiles(f, a)
  BY <1>1 DEF KeepsFiles
<1> QED BY <1>2 DEF a

LEMMA MoveThereKeeps ==
    ASSUME NEW s, IsState(s), s.fs \in Filesystems, Sound(s.fs), RevSound(s.fs, s.rev),
           NEW call, call.ref \in Links(s.fs), Target(s.fs, call.ref) \in Clusters,
           cl \in Clusters, s.fs.next[cl] = FAT_UNUSED
    PROVE  KeepsFiles(s.fs, MoveThere(s, call))
<1> DEFINE f == s.fs
           r == call.ref
           target == Target(f, r)
           u == f.at[target]
           m == ClusterMove(f, r, cl, CannotRead(s), unwritable)
           rd == ReadInto(s, target)
           isdir == IsDirRef(f, call)
           v == InverseMoved(f, m.fs, s.rev, r, isdir)
           new == [rd EXCEPT !.fs = m.fs, !.dirty = @ \ {u},
                     !.rev = InverseMoved(f, m.fs, @, r, isdir)]
           late == [rd EXCEPT !.dirty = @ \cup {u}]
           entry == IF IsEntry(r) THEN Touched(new, r.directory) ELSE new
           a == MoveThere(s, call)
<1> SUFFICES KeepsFiles(f, a)
  OBVIOUS
<1>1. SameFiles(s, rd) /\ SameFiles(s, late)
  <2>1. SameFiles(s, rd)
    BY CacheKeeps
  <2> HIDE DEF rd
  <2> QED BY <2>1 DEF SameFiles, IsState, Fields
<1>2. m \in {Result(-2, f), Result(-5, f), Result(0, Moved(f, r, cl))}
  <2>1. target \in Int /\ ~ (target < FAT_FIRST)
    BY NumbersAre, SMTT(30) DEF FAT_FIRST
  <2>2. NextCluster(f, cl) = FAT_UNUSED
    BY DEF NextCluster
  <2> QED BY <2>1, <2>2 DEF ClusterMove
<1>3. cl \in FAT_ROOT .. Last /\ cl \in FAT_ROOT .. Last + 1
  BY RefsAssumption, SMTT(30) DEF Clusters, FAT_FIRST, FAT_ROOT
<1>4. Renamed(f, f, FAT_FIRST, FAT_FIRST)
  BY FirstIsCluster, KeptIsRenamed
<1>5. CASE m.res = -2
  <2>1. a = Step(s, cl, dirmoved, 1, {})
    BY <1>5 DEF MoveThere
  <2> HIDE DEF a
  <2> QED BY <1>3, <1>4, <2>1, NoAllIs, StepKeeps
<1>6. CASE m.res = -5
  <2>1. a = Step(late, cl, dirmoved, 1, {})
    BY <1>6 DEF MoveThere
  <2> HIDE DEF a, late
  <2>2. /\ IsState(late) /\ Renamed(f, late.fs, FAT_FIRST, FAT_FIRST)
        /\ RevSound(late.fs, late.rev)
    BY <1>1, <1>4 DEF SameFiles
  <2> QED BY <1>3, <2>1, <2>2, NoAllIs, StepKeeps
<1>7. CASE m.res \notin {-2, -5}
  <2>1. m = Result(0, Moved(f, r, cl))
    BY <1>2, <1>7 DEF Result
  <2>2. Renamed(f, m.fs, target, cl)
    BY <2>1, MovedIsRenamed DEF Result
  <2>3. RevSound(m.fs, v)
    <3> DEFINE g == m.fs
    <3>1. Renamed(f, g, target, cl)
      BY <2>2
    <3> HIDE DEF g
    <3>2. RevSound(g, InverseMoved(f, g, s.rev, r, isdir))
      BY <3>1, InverseMovedSound
    <3> QED BY <3>2 DEF g
  <2> DEFINE place == NextPlace(m.fs, cl)
  <2>4. a = Step(Deleted(entry, u), place, dirmoved, killed, Cond(request.recur))
    BY <1>7 DEF MoveThere
  <2>5. IsState(new) /\ new.fs = m.fs /\ new.rev = v
    <3> HIDE DEF m, rd
    <3>1. rd.rev = s.rev /\ IsState(rd)
      BY <1>1 DEF SameFiles
    <3> QED BY <3>1 DEF IsState, Fields
  <2>6. place \in cl + 1 .. Last + 1
    <3>1. m.fs \in Filesystems
      BY <2>2 DEF Renamed
    <3> HIDE DEF m
    <3> QED BY <1>3, <3>1, NextPlaceIs
  <2>7. place \in FAT_ROOT .. Last + 1
    <3> HIDE DEF place
    <3> QED BY <1>3, <2>6, RefsAssumption, SMTT(30) DEF FAT_ROOT
  <2> HIDE DEF new
  <2>8. SameFiles(new, entry)
    BY <2>5, CacheKeeps DEF SameFiles
  <2> HIDE DEF entry
  <2>9. SameFiles(entry, Deleted(entry, u))
    BY <2>8, CacheKeeps DEF SameFiles
  <2> DEFINE t == Deleted(entry, u)
  <2> HIDE DEF a, m, v, place
  <2>10. IsState(t) /\ t.fs = m.fs /\ t.rev = v
    BY <2>5, <2>8, <2>9 DEF SameFiles
  <2> HIDE DEF t
  <2>11. Renamed(f, t.fs, target, cl) /\ RevSound(t.fs, t.rev)
    BY <2>2, <2>3, <2>10
  <2> QED BY <2>4, <2>7, <2>10, <2>11, NoAllIs, StepKeeps DEF t
<1> QED BY <1>5, <1>6, <1>7

(* What is at the next place is exchanged, if it has a reference.          *)
LEMMA SwapThereKeeps ==
    ASSUME NEW s, IsState(s), s.fs \in Filesystems, Sound(s.fs), RevSound(s.fs, s.rev),
           NEW call, call.ref \in Links(s.fs), Target(s.fs, call.ref) \in Clusters,
           cl \in FAT_ROOT .. Last, cl # Target(s.fs, call.ref)
    PROVE  KeepsFiles(s.fs, SwapThere(s, call))
<1> DEFINE f == s.fs
           r == call.ref
           q == s.rev[cl].ref
           target == Target(f, r)
           u == f.at[target]
           w == f.at[cl]
           m == ClusterSwap(f, r, q, CannotRead(s), unwritable)
           rd == ReadInto(s, target)
           both == ReadInto(rd, cl)
           isdir == IsDirRef(f, call)
           qisdir == s.rev[cl].isdir
           v == InverseSwapped(f, m.fs, s.rev, r, isdir, q, qisdir)
           new == [both EXCEPT !.fs = m.fs, !.dirty = @ \ {u, w},
                     !.rev = InverseSwapped(f, m.fs, @, r, isdir, q, qisdir)]
           e1 == IF IsEntry(r) THEN Touched(new, r.directory) ELSE new
           e2 == IF IsEntry(q) THEN Touched(e1, q.directory) ELSE e1
           after == IF m.res = 0 THEN e2 ELSE s
           moved == dirmoved \/ (after.rev[target].isdir
                                /\ after.rev[target].ref.previous = 0)
           late5 == [both EXCEPT !.dirty = @ \cup {u, w}]
           late3 == [both EXCEPT !.dirty = (@ \cup {u}) \ {w}]
           place == NextPlace(after.fs, cl)
           a == SwapThere(s, call)
<1> SUFFICES KeepsFiles(f, a)
  OBVIOUS
<1>1. SameFiles(s, rd) /\ SameFiles(s, both)
  <2>1. SameFiles(s, rd)
    BY CacheKeeps
  <2> HIDE DEF rd
  <2>2. SameFiles(rd, both)
    BY <2>1, CacheKeeps DEF SameFiles
  <2> QED BY <2>1, <2>2 DEF SameFiles
<1>2. SameFiles(s, late5) /\ SameFiles(s, late3)
  <2> HIDE DEF both
  <2> QED BY <1>1 DEF SameFiles, IsState, Fields
<1>3. cl \in Numbers /\ cl \in FAT_ROOT .. Last + 1
  BY RefsAssumption, SMTT(30) DEF Numbers, Clusters, FAT_FIRST, FAT_ROOT
<1>4. \/ m \in {Result(res, f) : res \in {-1, -2, -3, -4, -5}}
      \/ /\ m = Result(0, Swapped(f, r, q))
         /\ ~ (Target(f, q) < FAT_FIRST)
  BY DEF ClusterSwap
<1>5. Renamed(f, f, FAT_FIRST, FAT_FIRST)
  BY FirstIsCluster, KeptIsRenamed
<1>6. a = CASE m.res = -2 -> Step(s, cl, dirmoved, 1, {})
            [] m.res = -4 -> Step(rd, cl, dirmoved, 1, {})
            [] m.res = -5 -> Step(late5, cl, dirmoved, 1, {})
            [] m.res = -3 -> Step(late3, cl, dirmoved, 1, {})
            [] m.res \in {0, -1} ->
                 Step(Deleted(Deleted(after, after.fs.at[cl]), after.fs.at[target]),
                      place, moved, killed, Cond(request.recur))
  BY DEF SwapThere
<1> HIDE DEF a
<1>7. ASSUME NEW t, SameFiles(s, t), a = Step(t, cl, dirmoved, 1, {})
      PROVE  KeepsFiles(f, a)
  <2>1. /\ IsState(t) /\ Renamed(f, t.fs, FAT_FIRST, FAT_FIRST)
        /\ RevSound(t.fs, t.rev)
    BY <1>5, <1>7 DEF SameFiles
  <2> HIDE DEF f
  <2> QED BY <1>3, <1>7, <2>1, NoAllIs, StepKeeps
<1>8. SameFiles(s, s)
  BY DEF SameFiles
<1>9. CASE m.res \in {-2, -3, -4, -5}
  <2> HIDE DEF m, rd, both, late5, late3, after, moved, place
  <2>1. \E t \in {s, rd, late5, late3} : a = Step(t, cl, dirmoved, 1, {})
    BY <1>6, <1>9
  <2>2. \A t \in {s, rd, late5, late3} : SameFiles(s, t)
    BY <1>1, <1>2, <1>8
  <2> HIDE DEF f
  <2> QED BY <1>7, <2>1, <2>2
<1>10. CASE m.res \in {0, -1}
  <2> DEFINE t == Deleted(Deleted(after, after.fs.at[cl]), after.fs.at[target])
  <2>1. a = Step(t, place, moved, killed, Cond(request.recur))
    <3> HIDE DEF m, rd, both, late5, late3, after, moved, place
    <3> QED BY <1>6, <1>10
  <2>2. /\ IsState(after) /\ \E x, y : Renamed(f, after.fs, x, y)
        /\ RevSound(after.fs, after.rev)
    <3>1. CASE m.res = -1
      BY <1>5, <3>1
    <3>2. CASE m.res = 0
      <4>1. m = Result(0, Swapped(f, r, q)) /\ ~ (Target(f, q) < FAT_FIRST)
        BY <1>4, <3>2 DEF Result
      <4>2. q \in Links(f) /\ Target(f, q) = cl
        <5>1. Target(f, Void) = FAT_ERR /\ FAT_ERR < FAT_FIRST
          BY SMTT(30) DEF Target, Void, Ref, IsEntry, IsBoot, FAT_ERR, FAT_FIRST
        <5>2. q # Void
          BY <4>1, <5>1
        <5> QED BY <1>3, <5>2 DEF RevSound, Points
      <4>3. cl \in Clusters
        BY <1>3, <4>1, <4>2, SMTT(30) DEF Numbers, FAT_ROOT, FAT_FIRST
      <4>4. Renamed(f, m.fs, target, cl)
        BY <4>1, <4>2, <4>3, SwappedIsRenamed DEF Result
      <4>5. RevSound(m.fs, v)
        <5> DEFINE g == m.fs
        <5>1. Renamed(f, g, target, cl)
          BY <4>4
        <5> HIDE DEF g
        <5>2. RevSound(g, InverseSwapped(f, g, s.rev, r, isdir, q, qisdir))
          BY <4>2, <5>1, InverseSwappedSound
        <5> QED BY <5>2 DEF g
      <4>6. IsState(new) /\ new.fs = m.fs /\ new.rev = v
        <5> HIDE DEF m, both
        <5>1. both.rev = s.rev /\ IsState(both)
          BY <1>1 DEF SameFiles
        <5> QED BY <5>1 DEF IsState, Fields
      <4> HIDE DEF new
      <4>7. SameFiles(new, e1)
        BY <4>6, CacheKeeps DEF SameFiles
      <4> HIDE DEF e1
      <4>8. SameFiles(e1, e2)
        BY <4>7, CacheKeeps DEF SameFiles
      <4>9. after = e2
        BY <3>2
      <4> HIDE DEF e2, m, v, after
      <4> QED BY <4>4, <4>5, <4>6, <4>7, <4>8, <4>9 DEF SameFiles
    <3> QED BY <1>10, <3>1, <3>2
  <2> HIDE DEF after
  <2>3. SameFiles(after, t)
    <3> DEFINE t1 == Deleted(after, after.fs.at[cl])
    <3>1. SameFiles(after, t1)
      BY <2>2, CacheKeeps
    <3> HIDE DEF t1
    <3>2. SameFiles(t1, Deleted(t1, after.fs.at[target]))
      BY <3>1, CacheKeeps DEF SameFiles
    <3> QED BY <3>1, <3>2 DEF SameFiles, t1
  <2>4. place \in cl + 1 .. Last + 1
    <3>1. after.fs \in Filesystems
      BY <2>2 DEF Renamed
    <3> QED BY <3>1, NextPlaceIs
  <2> HIDE DEF place, t, moved
  <2>5. place \in FAT_ROOT .. Last + 1
    BY <1>3, <2>4, RefsAssumption, SMTT(30) DEF FAT_ROOT
  <2>6. /\ IsState(t) /\ \E x, y : Renamed(f, t.fs, x, y)
        /\ RevSound(t.fs, t.rev)
    BY <2>2, <2>3 DEF SameFiles
  <2> HIDE DEF f
  <2> QED BY <2>1, <2>5, <2>6, NoAllIs, StepKeeps
<1>11. m.res \in {-2, -3, -4, -5, 0, -1}
  BY <1>4 DEF Result
<1> QED BY <1>9, <1>10, <1>11

(* fatdefragment()'s callback, whatever reference it is called for.        *)
LEMMA DefragmentKeeps ==
    ASSUME NEW s, IsState(s), s.fs \in Filesystems, Sound(s.fs), AllGood(s.fs),
           RevSound(s.fs, s.rev),
           NEW call, call.ref \in Called(s.fs),
           call.start \in Starts(s.fs), call.dir \in Starts(s.fs),
           cl \in FAT_ROOT .. Last + 1
    PROVE  KeepsFiles(s.fs, Defragment(s, call))
<1> DEFINE f == s.fs
           r == call.ref
           target == Target(f, r)
           keep(t, res) == Step(t, cl, dirmoved, killed, res)
           a == Defragment(s, call)
<1> SUFFICES KeepsFiles(f, a)
  OBVIOUS
<1>1. Renamed(f, f, FAT_FIRST, FAT_FIRST) /\ FAT_FIRST \in Clusters
  BY FirstIsCluster, KeptIsRenamed
<1>2. ASSUME NEW t, IsState(t), t.rev = s.rev, Renamed(f, t.fs, FAT_FIRST, FAT_FIRST),
             NEW res, NoAll(res)
      PROVE  KeepsFiles(f, keep(t, res))
  <2>1. RevSound(t.fs, t.rev)
    BY <1>1, <1>2, InverseKeptSound
  <2> QED BY <1>2, <2>1, StepKeeps
<1>3. target \in Int
  <2>1. CASE r \in Starts(f)
    BY <2>1, TargetIsInt
  <2>2. CASE r \notin Starts(f)
    BY <2>2, FollowingTarget DEF Called
  <2> QED BY <2>1, <2>2
<1>4. ASSUME ~ (target < FAT_FIRST), ~ IsDotFile(f, r)
      PROVE  r \in Links(f) /\ target \in Clusters
  <2>1. target >= FAT_ROOT /\ target # FAT_ROOT
    BY <1>3, <1>4, SMTT(30) DEF FAT_ROOT, FAT_FIRST
  <2> QED BY <1>4, <2>1, FollowedIsLink DEF Numbers, Called
<1>5. CASE killed # 0 \/ call.direction # 0
  <2>1. a = keep(s, {})
    BY <1>5 DEF Defragment
  <2> HIDE DEF a, keep
  <2> QED BY <1>1, <1>2, <2>1, NoAllIs
<1>6. CASE ~ (killed # 0 \/ call.direction # 0) /\ target < FAT_FIRST
  <2>1. a = keep(s, Cond(request.recur))
    BY <1>6 DEF Defragment
  <2> HIDE DEF a, keep
  <2> QED BY <1>1, <1>2, <2>1, NoAllIs
<1> DEFINE Goes == ~ (killed # 0 \/ call.direction # 0) /\ ~ (target < FAT_FIRST)
<1>7. CASE Goes /\ NextCluster(f, target) = FAT_BAD
  <2>1. IsDotFile(f, r)
    <3> SUFFICES ASSUME ~ IsDotFile(f, r)
                 PROVE  FALSE
      OBVIOUS
    <3>1. r \in Links(f) /\ target \in Clusters
      BY <1>4, <1>7
    <3>2. f.next[target] # FAT_BAD
      BY <3>1 DEF AllGood
    <3> QED BY <1>7, <3>1, <3>2 DEF NextCluster
  <2> DEFINE t == TargetSet(s, r, FAT_EOF)
  <2>2. a = keep(t, {})
    BY <1>7 DEF Defragment
  <2>3. IsState(t) /\ t.rev = s.rev /\ Renamed(f, t.fs, FAT_FIRST, FAT_FIRST)
    BY <2>1, DotSetRenames
  <2> HIDE DEF a, keep, t
  <2> QED BY <1>2, <2>2, <2>3, NoAllIs
<1> DEFINE Goes2 == Goes /\ ~ (NextCluster(f, target) = FAT_BAD)
<1>8. CASE Goes2 /\ cl > Last
  <2>1. a = keep(s, {})
    BY <1>8 DEF Defragment
  <2> HIDE DEF a, keep
  <2> QED BY <1>1, <1>2, <2>1, NoAllIs
<1> DEFINE Goes3 == Goes2 /\ ~ (cl > Last)
<1>9. ASSUME ~ (cl > Last)
      PROVE  cl \in FAT_ROOT .. Last /\ cl + 1 \in FAT_ROOT .. Last + 1
  BY <1>9, RefsAssumption, SMTT(30) DEF FAT_ROOT
<1>10. CASE Goes3 /\ cl = target
  <2>1. a = Step(s, cl + 1, dirmoved, killed, Cond(request.recur))
    BY <1>10 DEF Defragment
  <2> HIDE DEF a
  <2> QED BY <1>1, <1>9, <1>10, <2>1, NoAllIs, StepKeeps
<1> DEFINE Goes4 == Goes3 /\ ~ (cl = target)
<1>11. CASE Goes4 /\ IsDotFile(f, r)
  <2> DEFINE t == FixedDot(s, call)
  <2>1. a = keep(t, {})
    BY <1>11 DEF Defragment
  <2>2. IsState(t) /\ t.rev = s.rev /\ Renamed(f, t.fs, FAT_FIRST, FAT_FIRST)
    BY <1>11, FixedDotRenames
  <2> HIDE DEF a, keep, t
  <2> QED BY <1>2, <2>1, <2>2, NoAllIs
<1> DEFINE Goes5 == Goes4 /\ ~ IsDotFile(f, r)
<1>12. CASE Goes5 /\ NextCluster(f, cl) = FAT_UNUSED
  <2>1. a = MoveThere(s, call)
    BY <1>12 DEF Defragment
  <2>2. r \in Links(f) /\ target \in Clusters
    BY <1>4, <1>12
  <2>3. cl \in Clusters /\ f.next[cl] = FAT_UNUSED
    <3>1. FAT_EOF # FAT_UNUSED /\ FAT_ERR # FAT_UNUSED
      BY DEF FAT_EOF, FAT_UNUSED, FAT_ERR
    <3> QED BY <1>12, <3>1 DEF NextCluster
  <2> QED BY <2>1, <2>2, <2>3, MoveThereKeeps
<1>13. CASE Goes5 /\ ~ (NextCluster(f, cl) = FAT_UNUSED)
  <2>1. a = SwapThere(s, call)
    BY <1>13 DEF Defragment
  <2>2. r \in Links(f) /\ target \in Clusters
    BY <1>4, <1>13
  <2> QED BY <1>9, <1>13, <2>1, <2>2, SwapThereKeeps
<1> QED BY <1>5, <1>6, <1>7, <1>8, <1>10, <1>11, <1>12, <1>13

-----------------------------------------------------------------------------
(* What is invariant stays so when two numbers are exchanged.              *)
LEMMA UnchangingKept ==
    ASSUME Unchanging, NEW a, NEW b, Renamed(fs, fs', a, b),
           RevSound(fs', rev'), stack' \in Seq(GoodFrames(fs')),
           UNCHANGED <<original, request>>,
           size' \in Nat, cl' \in FAT_ROOT .. Last + 1
    PROVE  Unchanging'
<1>1. fs' \in Filesystems /\ Sound(fs') /\ AllGood(fs')
  <2>1. Sound(fs) /\ AllGood(fs) /\ fs' \in Filesystems
    BY DEF Unchanging, Renamed
  <2> QED BY <2>1, RenamedSound
<1>2. Files(fs') = Files(original')
  BY RenamedFiles DEF Unchanging
<1>3. request'.ref \in Starts(fs')
  BY StartsRenamed DEF Unchanging, Renamed
<1> QED BY <1>1, <1>2, <1>3 DEF Unchanging

LEMMA SameFilesKept ==
    ASSUME Unchanging, fs' = fs, rev' = rev, stack' \in Seq(GoodFrames(fs)),
           UNCHANGED <<original, request>>,
           size' \in Nat, cl' \in FAT_ROOT .. Last + 1
    PROVE  Unchanging'
BY DEF Unchanging

LEMMA CallCountKeeps == Unchanging /\ CallCount => Unchanging'
<1> SUFFICES ASSUME Unchanging, CallCount
             PROVE  Unchanging'
  OBVIOUS
<1>1. /\ fs \in Filesystems /\ Sound(fs) /\ stack \in Seq(GoodFrames(fs)) /\ Calling
      /\ UNCHANGED <<original, request>> /\ cl' \in FAT_ROOT .. Last + 1 /\ size' \in Nat
  BY DEF Unchanging, CallCount, defragmentstruct, linear, ghosts
<1>2. \E res : NoAll(res) /\ Returned(State, res)
  BY NoAllIs DEF CallCount
<1>3. IsState(State) /\ State.fs = fs /\ State.rev = rev
  BY StateIs
<1>4. fs' = fs /\ rev' = rev /\ stack' \in Seq(GoodFrames(fs))
  BY <1>1, <1>2, <1>3, Kept, CallReturned
<1> QED BY <1>1, <1>4, SameFilesKept

LEMMA ChooseKeeps == Unchanging /\ Choose => Unchanging'
<1> SUFFICES ASSUME Unchanging, Choose
             PROVE  Unchanging'
  OBVIOUS
<1>1. UNCHANGED <<original, request, size>> /\ size \in Nat
  BY DEF Choose, Unchanging, ghosts
<1>2. CASE UNCHANGED <<memory, traversal, start, cl>>
  BY <1>1, <1>2, SameFilesKept DEF memory, traversal, Unchanging
<1>3. CASE ~ Refused(Chosen) /\ Begin(Boot) /\ cl' = Chosen
  <2>1. fs' = fs /\ rev' = rev /\ stack' \in Seq(GoodFrames(fs))
    BY <1>3, BeginKeeps DEF Starts
  <2>2. Chosen \in FAT_ROOT .. Last - size + 1
    BY <1>3 DEF Refused
  <2>3. cl' \in FAT_ROOT .. Last + 1
    <3> HIDE DEF Chosen
    <3> QED BY <1>1, <1>3, <2>2, RefsAssumption, SMTT(30) DEF FAT_ROOT
  <2> QED BY <1>1, <2>1, <2>3, SameFilesKept
<1> QED BY <1>2, <1>3 DEF Choose

LEMMA CallCreateKeeps == Unchanging /\ CallCreate => Unchanging'
<1> SUFFICES ASSUME Unchanging, CallCreate
             PROVE  Unchanging'
  OBVIOUS
<1> DEFINE a == InverseCreate(State, Pending)
<1>1. /\ fs \in Filesystems /\ Sound(fs) /\ RevSound(fs, rev)
      /\ stack \in Seq(GoodFrames(fs)) /\ Calling
      /\ UNCHANGED <<original, request>> /\ cl' \in FAT_ROOT .. Last + 1 /\ size' \in Nat
  BY DEF Unchanging, CallCreate, defragmentstruct, linear, ghosts
<1>2. IsState(a.s) /\ a.s.fs = fs /\ RevSound(fs, a.s.rev) /\ NoAll(a.res)
  BY <1>1, CreateIsSound
<1>3. Returned(a.s, a.res)
  BY DEF CallCreate
<1> HIDE DEF a
<1>4. Renamed(fs, a.s.fs, FAT_FIRST, FAT_FIRST) /\ Renamed(fs, fs, FAT_FIRST, FAT_FIRST)
  BY <1>1, <1>2, FirstIsCluster, KeptIsRenamed
<1>5. fs' = fs /\ rev' = a.s.rev /\ stack' \in Seq(GoodFrames(fs))
  BY <1>1, <1>2, <1>3, <1>4, CallReturned
<1> QED BY <1>1, <1>2, <1>4, <1>5, UnchangingKept

LEMMA CallDefragmentKeeps == Unchanging /\ CallDefragment => Unchanging'
<1> SUFFICES ASSUME Unchanging, CallDefragment
             PROVE  Unchanging'
  OBVIOUS
<1> DEFINE a == Defragment(State, Pending)
<1>1. /\ fs \in Filesystems /\ Sound(fs) /\ AllGood(fs) /\ RevSound(fs, rev)
      /\ stack \in Seq(GoodFrames(fs)) /\ Calling
      /\ UNCHANGED <<original, request>> /\ cl \in FAT_ROOT .. Last + 1 /\ size' \in Nat
  BY DEF Unchanging, CallDefragment, linear
<1>2. Returned(a.s, a.res) /\ cl' = a.cl
  BY DEF CallDefragment
<1>3. KeepsFiles(fs, a)
  BY <1>1, StateIs, PendingIs, DefragmentKeeps
<1> HIDE DEF a
<1>4. IsState(a.s) /\ RevSound(a.s.fs, a.s.rev) /\ NoAll(a.res) /\ a.cl \in FAT_ROOT .. Last + 1
  BY <1>3 DEF KeepsFiles
<1>5. PICK x, y : Renamed(fs, a.s.fs, x, y)
  BY <1>3 DEF KeepsFiles
<1>6. fs' = a.s.fs /\ rev' = a.s.rev /\ stack' \in Seq(GoodFrames(a.s.fs))
  BY <1>1, <1>2, <1>4, <1>5, CallReturned
<1> QED BY <1>1, <1>2, <1>4, <1>5, <1>6, UnchangingKept

LEMMA CallFixDotKeeps == Unchanging /\ CallFixDot => Unchanging'
<1> SUFFICES ASSUME Unchanging, CallFixDot
             PROVE  Unchanging'
  OBVIOUS
<1>1. /\ fs \in Filesystems /\ Sound(fs) /\ RevSound(fs, rev)
      /\ stack \in Seq(GoodFrames(fs)) /\ Calling /\ FixDot
      /\ UNCHANGED <<original, request>> /\ cl' \in FAT_ROOT .. Last + 1 /\ size' \in Nat
  BY DEF Unchanging, CallFixDot, defragmentstruct, linear, ghosts
<1>2. Renamed(fs, fs', FAT_FIRST, FAT_FIRST) /\ rev' = rev /\ stack' \in Seq(GoodFrames(fs'))
  BY <1>1, FixDotKeeps
<1>3. RevSound(fs', rev')
  BY <1>1, <1>2, InverseKeptSound
<1> QED BY <1>1, <1>2, <1>3, UnchangingKept

(* Between the traversals, and the passage from an entry to another.       *)
LEMMA OthersKeep ==
    Unchanging /\ (Created \/ Ran \/ Fixed \/ Finish \/ Traversing \/ Signal
                     \/ UNCHANGED vars)
       => Unchanging'
<1> SUFFICES ASSUME Unchanging,
                    Created \/ Ran \/ Fixed \/ Finish \/ Traversing \/ Signal
                      \/ UNCHANGED vars
             PROVE  Unchanging'
  OBVIOUS
<1>1. /\ fs \in Filesystems /\ Sound(fs) /\ stack \in Seq(GoodFrames(fs))
      /\ request.ref \in Starts(fs) /\ Boot \in Starts(fs)
      /\ size \in Nat /\ cl \in FAT_ROOT .. Last + 1
  BY DEF Unchanging, Starts
<1>2. UNCHANGED defragmentstruct /\ UNCHANGED ghosts
  BY DEF Created, Ran, Fixed, Finish, Traversing, Signal, vars
<1>3. CASE UNCHANGED <<memory, traversal>>
  BY <1>1, <1>2, <1>3, SameFilesKept DEF memory, traversal, defragmentstruct, linear, ghosts
<1>4. CASE \E r \in Starts(fs) : Begin(r)
  <2>1. fs' = fs /\ rev' = rev /\ stack' \in Seq(GoodFrames(fs))
    BY <1>4, BeginKeeps
  <2> QED BY <1>1, <1>2, <2>1, SameFilesKept DEF defragmentstruct, linear, ghosts
<1>5. CASE Finish
  <2> DEFINE s == WrittenBack(State, dirty)
             t == InverseDelete(s)
  <2>1. SameFiles(State, s)
    BY StateIs, CacheKeeps
  <2> HIDE DEF s
  <2>2. SameFiles(s, t)
    BY <2>1 DEF SameFiles, IsState, Fields, InverseDelete
  <2>3. Memory(t) /\ UNCHANGED traversal
    BY <1>5 DEF Finish, s
  <2> HIDE DEF t
  <2>4. fs' = fs /\ rev' = rev /\ stack' = stack
    BY <2>1, <2>2, <2>3, StateIs DEF SameFiles, Memory, traversal
  <2> QED BY <1>1, <1>2, <2>4, SameFilesKept DEF defragmentstruct, linear, ghosts
<1>6. CASE Traversing
  <2>1. fs' = fs /\ rev' = rev /\ stack' \in Seq(GoodFrames(fs))
    BY <1>1, <1>6, AdvanceKeeps, ReturnKeeps DEF Traversing
  <2> QED BY <1>1, <1>2, <2>1, SameFilesKept DEF defragmentstruct, linear, ghosts
<1>7. CASE Created \/ Ran \/ Fixed
  BY <1>1, <1>3, <1>4, <1>7 DEF Created, Ran, Fixed
<1>8. CASE Signal \/ UNCHANGED vars
  BY <1>3, <1>8 DEF Signal, vars
<1> QED BY <1>5, <1>6, <1>7, <1>8

LEMMA Invariance == Spec => []Unchanging
<1>1. Init => Unchanging
  BY InitUnchanging
<1>2. Unchanging /\ [Next]_vars => Unchanging'
  BY CallCountKeeps, ChooseKeeps, CallCreateKeeps, CallDefragmentKeeps,
     CallFixDotKeeps, OthersKeep DEF Next, Work
<1> QED BY <1>1, <1>2, PTL DEF Spec

(* Whatever fatlinearize() and fatdefragment() move, and whatever fails or *)
(* interrupts them, no file changes.                                       *)
THEOREM NoFileChanges == Spec => []FilesUnchanged
<1>1. Unchanging => FilesUnchanged
  BY DEF Unchanging, FilesUnchanged
<1> QED BY <1>1, Invariance, PTL

(* The inverse FAT that the moves and the swaps update never leads astray: *)
(* at any moment, after an error or a signal too, the reference it has for *)
(* a cluster is one that leads to that cluster.                            *)
THEOREM InverseLeads == Spec => []RevSound(fs, rev)
<1>1. Unchanging => RevSound(fs, rev)
  BY DEF Unchanging
<1> QED BY <1>1, Invariance, PTL

-----------------------------------------------------------------------------
(* What is counted: the frames of a traversal, each in the unit its        *)
(* reference is in, and the references of the inverse FAT.                 *)
FramesOn(frames, u) ==
    Cardinality({k \in DOMAIN frames : frames[k].ref.directory = u})
CountsIn(v, u) == Cardinality({c \in Clusters : v[c].ref.directory = u})

Exact(rc, v, frames) ==
    \A u \in Units : rc[u] = FramesOn(frames, u) + CountsIn(v, u)

(* What is counted is in the cache, what is dirty too.                     *)
Held(rc, ca, di) ==
    /\ rc \in [Units -> Int]
    /\ ca \subseteq Units /\ di \subseteq ca
    /\ \A u \in Units : rc[u] # 0 => u \in ca

LEMMA ClustersFinite == IsFiniteSet(Clusters)
BY NumbersFinite, FS_Subset DEF Numbers

LEMMA FramesFinite ==
    ASSUME NEW S, NEW frames \in Seq(S), NEW u
    PROVE  /\ IsFiniteSet({k \in DOMAIN frames : frames[k].ref.directory = u})
           /\ FramesOn(frames, u) \in Nat
           /\ \A k \in DOMAIN frames : frames[k].ref.directory = u => FramesOn(frames, u) > 0
<1> DEFINE A == {k \in DOMAIN frames : frames[k].ref.directory = u}
<1>1. DOMAIN frames = 1 .. Len(frames) /\ Len(frames) \in Int /\ 1 \in Int
  OBVIOUS
<1>2. IsFiniteSet(1 .. Len(frames))
  BY <1>1, FS_Interval
<1>3. A \in SUBSET (1 .. Len(frames))
  BY <1>1
<1>4. IsFiniteSet(A)
  <2> HIDE DEF A
  <2> QED BY <1>2, <1>3, FS_Subset
<1>5. Cardinality(A) \in Nat /\ (A # {} => Cardinality(A) # 0)
  <2> HIDE DEF A
  <2> QED BY <1>4, FS_CardinalityType, FS_EmptySet
<1>6. Cardinality(A) = FramesOn(frames, u)
  BY DEF FramesOn
<1>7. \A k \in DOMAIN frames : frames[k].ref.directory = u => k \in A
  OBVIOUS
<1>8. IsFiniteSet({k \in DOMAIN frames : frames[k].ref.directory = u})
  BY <1>4
<1> HIDE DEF A
<1> QED BY <1>5, <1>6, <1>7, <1>8

LEMMA CountsFinite ==
    ASSUME NEW v, NEW u
    PROVE  /\ IsFiniteSet({c \in Clusters : v[c].ref.directory = u})
           /\ CountsIn(v, u) \in Nat
           /\ \A c \in Clusters : v[c].ref.directory = u => CountsIn(v, u) > 0
<1> DEFINE A == {c \in Clusters : v[c].ref.directory = u}
<1>1. IsFiniteSet(A)
  BY ClustersFinite, FS_Subset
<1>2. Cardinality(A) \in Nat /\ (A # {} => Cardinality(A) # 0)
  <2> HIDE DEF A
  <2> QED BY <1>1, FS_CardinalityType, FS_EmptySet
<1>3. Cardinality(A) = CountsIn(v, u)
  BY DEF CountsIn
<1>4. \A c \in Clusters : v[c].ref.directory = u => c \in A
  OBVIOUS
<1>5. IsFiniteSet({c \in Clusters : v[c].ref.directory = u})
  BY <1>1
<1> HIDE DEF A
<1> QED BY <1>2, <1>3, <1>4, <1>5

LEMMA NoFrames == \A u : FramesOn(<<>>, u) = 0
<1> TAKE u
<1>1. {k \in DOMAIN <<>> : <<>>[k].ref.directory = u} = {}
  OBVIOUS
<1> QED BY <1>1, FS_EmptySet DEF FramesOn

(* One more frame.                                                         *)
LEMMA FramesPush ==
    ASSUME NEW S, NEW G \in S, NEW rest \in Seq(S), NEW u
    PROVE  FramesOn(<<G>> \o rest, u)
             = FramesOn(rest, u) + (IF G.ref.directory = u THEN 1 ELSE 0)
<1> DEFINE frames == <<G>> \o rest
           A == {k \in DOMAIN rest : rest[k].ref.directory = u}
           B == {k \in DOMAIN frames : frames[k].ref.directory = u}
           C == {k \in B : k # 1}
           shift == [k \in A |-> k + 1]
<1>1. /\ DOMAIN rest = 1 .. Len(rest) /\ DOMAIN frames = 1 .. Len(rest) + 1
      /\ Len(rest) \in Nat /\ frames[1] = G
      /\ \A k \in 1 .. Len(rest) : frames[k + 1] = rest[k]
      /\ \A k \in 2 .. Len(rest) + 1 : frames[k] = rest[k - 1]
  OBVIOUS
<1>2. IsFiniteSet(A)
  BY FramesFinite
<1>3. shift \in Bijection(A, C)
  <2>1. \A k \in A : k \in 1 .. Len(rest) /\ k + 1 \in C
    <3> TAKE k \in A
    <3>1. k \in 1 .. Len(rest) /\ rest[k].ref.directory = u
      BY <1>1
    <3>2. k + 1 \in 1 .. Len(rest) + 1 /\ k + 1 # 1
      BY <1>1, <3>1
    <3>3. frames[k + 1] = rest[k]
      BY <1>1, <3>1
    <3> HIDE DEF frames
    <3> QED BY <1>1, <3>1, <3>2, <3>3
  <2>2. \A j \in C : \E k \in A : j = k + 1
    <3> TAKE j \in C
    <3>1. j \in 1 .. Len(rest) + 1 /\ j # 1 /\ frames[j].ref.directory = u
      BY <1>1
    <3>2. j - 1 \in 1 .. Len(rest) /\ j \in 2 .. Len(rest) + 1 /\ j = (j - 1) + 1
      BY <1>1, <3>1
    <3>3. frames[j] = rest[j - 1]
      BY <1>1, <3>2
    <3> HIDE DEF frames
    <3>4. j - 1 \in A
      BY <1>1, <3>1, <3>2, <3>3
    <3> QED BY <3>2, <3>4
  <2>3. \A j, k \in A : j + 1 = k + 1 => j = k
    BY <1>1, <2>1
  <2> HIDE DEF A, C
  <2>4. shift \in [A -> C]
    BY <2>1
  <2>5. \A j, k \in A : shift[j] = shift[k] => j = k
    BY <2>3
  <2>6. \A j \in C : \E k \in A : shift[k] = j
    BY <2>2
  <2> QED BY <2>4, <2>5, <2>6 DEF Bijection, Injection, Surjection, IsInjective
<1>4. IsFiniteSet(C) /\ Cardinality(C) = Cardinality(A)
  <2>1. ExistsBijection(A, C)
    BY <1>3 DEF ExistsBijection
  <2> HIDE DEF A, C
  <2> QED BY <1>2, <2>1, FS_Bijection
<1>5. B = IF G.ref.directory = u THEN C \cup {1} ELSE C
  <2>1. 1 \in DOMAIN frames
    BY <1>1
  <2> HIDE DEF frames
  <2> QED BY <1>1, <2>1
<1>6. 1 \notin C
  OBVIOUS
<1>7. Cardinality(B) = Cardinality(C) + (IF G.ref.directory = u THEN 1 ELSE 0)
  <2> HIDE DEF B, C
  <2>1. IsFiniteSet(C) /\ Cardinality(C) \in Nat
    BY <1>4, FS_CardinalityType
  <2>2. Cardinality(C \cup {1}) = Cardinality(C) + 1
    BY <1>6, <2>1, FS_AddElement
  <2> QED BY <1>5, <2>1, <2>2
<1>8. FramesOn(frames, u) = Cardinality(B) /\ FramesOn(rest, u) = Cardinality(A)
  BY DEF FramesOn
<1> HIDE DEF A, B, C, frames
<1>9. FramesOn(frames, u) = FramesOn(rest, u) + (IF G.ref.directory = u THEN 1 ELSE 0)
  BY <1>4, <1>7, <1>8
<1> QED BY <1>9 DEF frames

(* One more reference in the inverse FAT.                                  *)
LEMMA CountsAdd ==
    ASSUME NEW v, NEW w, NEW t, v[t].ref.directory = NoUnit,
           \A c \in Clusters : c # t => w[c].ref = v[c].ref,
           NEW u \in Units
    PROVE  CountsIn(w, u) = CountsIn(v, u)
             + (IF t \in Clusters /\ w[t].ref.directory = u THEN 1 ELSE 0)
<1> DEFINE A == {c \in Clusters : v[c].ref.directory = u}
           B == {c \in Clusters : w[c].ref.directory = u}
<1>1. t \notin A
  BY RefsAssumption
<1>2. B = IF t \in Clusters /\ w[t].ref.directory = u THEN A \cup {t} ELSE A
  <2>1. ASSUME NEW c \in Clusters, c # t
        PROVE  c \in A <=> c \in B
    BY <2>1
  <2>2. t \in B <=> (t \in Clusters /\ w[t].ref.directory = u)
    OBVIOUS
  <2>3. A \subseteq Clusters /\ B \subseteq Clusters
    OBVIOUS
  <2> HIDE DEF A, B
  <2> QED BY <1>1, <2>1, <2>2, <2>3
<1>3. IsFiniteSet(A) /\ CountsIn(v, u) = Cardinality(A) /\ CountsIn(w, u) = Cardinality(B)
  BY CountsFinite DEF CountsIn
<1> HIDE DEF A, B
<1>4. Cardinality(A) \in Nat
  BY <1>3, FS_CardinalityType
<1>5. Cardinality(A \cup {t}) = Cardinality(A) + 1
  BY <1>1, <1>3, FS_AddElement
<1> QED BY <1>2, <1>3, <1>4, <1>5

-----------------------------------------------------------------------------
(* The frames of a recursion: each is for the entry that the one below is  *)
(* at, and knows its directory and the one that is in.                     *)
Nested(G, H) ==
    /\ H.pc = "entries" /\ H.index \in Indices /\ G.ref = Entry(H.unit, H.index)
    /\ G.start = H.ref /\ G.dir = H.start

Chained(frames, r) ==
    /\ \A k \in 1 .. Len(frames) - 1 : Nested(frames[k], frames[k + 1])
    /\ frames # <<>> => LET G == frames[Len(frames)]
                        IN  G.ref = r /\ G.start = r /\ G.dir = r

Scanned(frames, ca) ==
    frames # <<>> /\ Head(frames).pc = "entries" => Head(frames).unit \in ca

LEMMA ChainedPush ==
    ASSUME NEW S, NEW G \in S, NEW rest \in Seq(S), NEW r
    PROVE  Chained(<<G>> \o rest, r) <=>
              IF rest = <<>> THEN G.ref = r /\ G.start = r /\ G.dir = r
              ELSE Nested(G, Head(rest)) /\ Chained(rest, r)
<1> DEFINE frames == <<G>> \o rest
<1>1. /\ Len(frames) = Len(rest) + 1 /\ Len(rest) \in Nat /\ frames[1] = G
      /\ frames # <<>>
      /\ \A k \in 1 .. Len(rest) : frames[k + 1] = rest[k]
  OBVIOUS
<1>2. CASE rest = <<>>
  <2>1. Len(frames) = 1
    BY <1>1, <1>2
  <2> HIDE DEF frames
  <2>2. 1 .. Len(frames) - 1 = {}
    BY <2>1
  <2>3. Chained(frames, r) => G.ref = r /\ G.start = r /\ G.dir = r
    BY <1>1, <2>1 DEF Chained
  <2>4. G.ref = r /\ G.start = r /\ G.dir = r => Chained(frames, r)
    BY <1>1, <2>1, <2>2 DEF Chained
  <2> QED BY <1>2, <2>3, <2>4 DEF frames
<1>3. CASE rest # <<>>
  <2>1. Len(rest) \in Nat \ {0} /\ Head(rest) = rest[1]
    BY <1>3
  <2>2. frames[Len(frames)] = rest[Len(rest)] /\ frames[2] = rest[1]
    BY <1>1, <2>1
  <2>3. ASSUME Chained(frames, r)
        PROVE  Nested(G, rest[1]) /\ Chained(rest, r)
    <3>1. 1 \in 1 .. Len(frames) - 1
      BY <1>1, <2>1
    <3>2. Nested(frames[1], frames[2])
      BY <2>3, <3>1 DEF Chained
    <3>3. ASSUME NEW k \in 1 .. Len(rest) - 1
          PROVE  Nested(rest[k], rest[k + 1])
      <4>1. k + 1 \in 1 .. Len(frames) - 1 /\ k \in 1 .. Len(rest) /\ k + 1 \in 1 .. Len(rest)
        BY <1>1, <2>1
      <4>2. Nested(frames[k + 1], frames[(k + 1) + 1])
        BY <2>3, <4>1 DEF Chained
      <4> HIDE DEF frames
      <4> QED BY <1>1, <4>1, <4>2
    <3> HIDE DEF frames
    <3> QED BY <1>1, <2>2, <2>3, <3>2, <3>3 DEF Chained
  <2>4. ASSUME Nested(G, rest[1]), Chained(rest, r)
        PROVE  Chained(frames, r)
    <3>1. ASSUME NEW k \in 1 .. Len(frames) - 1
          PROVE  Nested(frames[k], frames[k + 1])
      <4>1. k \in 1 .. Len(rest)
        BY <1>1
      <4>2. CASE k = 1
        BY <1>1, <2>2, <2>4, <4>2
      <4>3. CASE k # 1
        <5>1. k - 1 \in 1 .. Len(rest) - 1 /\ k - 1 \in 1 .. Len(rest) /\ (k - 1) + 1 = k
          BY <4>1, <4>3
        <5>2. Nested(rest[k - 1], rest[k])
          BY <2>4, <5>1 DEF Chained
        <5>3. frames[k] = rest[k - 1] /\ frames[k + 1] = rest[k]
          BY <1>1, <4>1, <5>1
        <5> QED BY <5>2, <5>3
      <4> QED BY <4>2, <4>3
    <3> HIDE DEF frames
    <3> QED BY <1>3, <2>2, <2>4, <3>1 DEF Chained
  <2> HIDE DEF frames
  <2>5. Chained(frames, r) <=> (Nested(G, Head(rest)) /\ Chained(rest, r))
    BY <2>1, <2>3, <2>4
  <2> QED BY <1>3, <2>5 DEF frames
<1> QED BY <1>2, <1>3

(* The frame that runs may be another one of the same reference.           *)
LEMMA ChainedTop ==
    ASSUME NEW S, NEW rest \in Seq(S), NEW r,
           NEW G \in S, NEW H \in S, H.ref = G.ref, H.start = G.start, H.dir = G.dir,
           Chained(<<G>> \o rest, r)
    PROVE  Chained(<<H>> \o rest, r)
<1>1. CASE rest = <<>>
  BY <1>1, ChainedPush
<1>2. CASE rest # <<>>
  <2>1. Nested(G, Head(rest)) /\ Chained(rest, r)
    BY <1>2, ChainedPush
  <2>2. Nested(H, Head(rest))
    BY <2>1 DEF Nested
  <2> QED BY <1>2, <2>1, <2>2, ChainedPush
<1> QED BY <1>1, <1>2

LEMMA BelowLast ==
    ASSUME NEW n \in Nat, NEW j \in 1 .. n, j # n
    PROVE  j \in 1 .. n - 1 /\ j + 1 \in 1 .. n
BY SMTT(30)

(* Every unit that a frame has a pointer to is counted, or is the one that *)
(* is searched.                                                            *)
LEMMA PointersAreCounted ==
    ASSUME NEW f, NEW frames \in Seq(GoodFrames(f)), NEW r, Chained(frames, r),
           NEW k \in DOMAIN frames, NEW u \in Pointers(frames[k])
    PROVE  \/ u \in Units /\ \E j \in DOMAIN frames : frames[j].ref.directory = u
           \/ k = 1 /\ frames[k].pc = "entries" /\ u = frames[k].unit
<1>1. DOMAIN frames = 1 .. Len(frames) /\ Len(frames) \in Nat /\ k \in 1 .. Len(frames)
  OBVIOUS
<1>2. u # NoUnit /\ \/ u = frames[k].ref.directory
                    \/ u = frames[k].start.directory
                    \/ u = frames[k].dir.directory
                    \/ frames[k].pc = "entries" /\ u = frames[k].unit
  BY DEF Pointers
<1>3. \A j \in 1 .. Len(frames) : frames[j].ref.directory \in Units \cup {NoUnit}
  <2> TAKE j \in 1 .. Len(frames)
  <2>1. frames[j] \in GoodFrames(f)
    BY <1>1
  <2>2. frames[j].ref \in Starts(f)
    BY <2>1 DEF GoodFrames
  <2> QED BY <2>2 DEF Starts, Boot, Entry, Ref
<1>4. \A j \in 1 .. Len(frames) : \E i \in 1 .. Len(frames) : frames[j].start = frames[i].ref
  <2> TAKE j \in 1 .. Len(frames)
  <2>1. CASE j = Len(frames)
    BY <1>1, <2>1 DEF Chained
  <2>2. CASE j # Len(frames)
    <3>1. j \in 1 .. Len(frames) - 1 /\ j + 1 \in 1 .. Len(frames)
      BY <1>1, <2>2, BelowLast
    <3>2. frames[j].start = frames[j + 1].ref
      BY <3>1 DEF Chained, Nested
    <3> QED BY <3>1, <3>2
  <2> QED BY <2>1, <2>2
<1>5. \A j \in 1 .. Len(frames) : \E i \in 1 .. Len(frames) : frames[j].dir = frames[i].ref
  <2> TAKE j \in 1 .. Len(frames)
  <2>1. CASE j = Len(frames)
    BY <1>1, <2>1 DEF Chained
  <2>2. CASE j # Len(frames)
    <3>1. j \in 1 .. Len(frames) - 1 /\ j + 1 \in 1 .. Len(frames)
      BY <1>1, <2>2, BelowLast
    <3>2. frames[j].dir = frames[j + 1].start
      BY <3>1 DEF Chained, Nested
    <3> QED BY <1>4, <3>1, <3>2
  <2> QED BY <2>1, <2>2
<1>6. CASE frames[k].pc = "entries" /\ u = frames[k].unit /\ k # 1
  <2>1. k - 1 \in 1 .. Len(frames) - 1 /\ (k - 1) + 1 = k /\ k - 1 \in 1 .. Len(frames)
    BY <1>1, <1>6
  <2>2. frames[k - 1].ref = Entry(frames[k].unit, frames[k].index)
    BY <2>1 DEF Chained, Nested
  <2>3. frames[k - 1].ref.directory = u
    BY <1>6, <2>2 DEF Entry, Ref
  <2> QED BY <1>1, <1>2, <1>3, <2>1, <2>3
<1>7. ASSUME NEW j \in 1 .. Len(frames), u = frames[j].ref.directory
      PROVE  u \in Units /\ \E i \in DOMAIN frames : frames[i].ref.directory = u
  BY <1>1, <1>2, <1>3, <1>7
<1>8. CASE u = frames[k].ref.directory
  BY <1>1, <1>7, <1>8
<1>9. CASE u = frames[k].start.directory
  BY <1>1, <1>4, <1>7, <1>9
<1>10. CASE u = frames[k].dir.directory
  BY <1>1, <1>5, <1>7, <1>10
<1> QED BY <1>2, <1>6, <1>8, <1>9, <1>10

LEMMA CountedIsHeld ==
    ASSUME NEW rc, NEW v, NEW S, NEW frames \in Seq(S), Exact(rc, v, frames),
           NEW ca, NEW di, Held(rc, ca, di)
    PROVE  /\ rc \in [Units -> Nat]
           /\ \A u \in Units :
                 /\ \A k \in DOMAIN frames : frames[k].ref.directory = u => rc[u] # 0 /\ u \in ca
                 /\ \A c \in Clusters : v[c].ref.directory = u => rc[u] # 0 /\ u \in ca
<1>1. ASSUME NEW u \in Units
      PROVE  /\ rc[u] = FramesOn(frames, u) + CountsIn(v, u)
             /\ FramesOn(frames, u) \in Nat /\ CountsIn(v, u) \in Nat
  BY FramesFinite, CountsFinite DEF Exact
<1>2. \A u \in Units : rc[u] \in Nat
  <2> TAKE u \in Units
  <2> QED BY <1>1
<1>3. ASSUME NEW u \in Units, NEW k \in DOMAIN frames, frames[k].ref.directory = u
      PROVE  rc[u] # 0
  <2>1. FramesOn(frames, u) > 0
    BY <1>3, FramesFinite
  <2> QED BY <1>1, <2>1
<1>4. ASSUME NEW u \in Units, NEW c \in Clusters, v[c].ref.directory = u
      PROVE  rc[u] # 0
  <2>1. CountsIn(v, u) > 0
    BY <1>4, CountsFinite
  <2> QED BY <1>1, <2>1
<1>5. \A u \in Units : rc[u] # 0 => u \in ca
  BY DEF Held
<1>6. rc \in [Units -> Nat]
  BY <1>2 DEF Held
<1> QED BY <1>3, <1>4, <1>5, <1>6

LEMMA NothingIsDangling ==
    ASSUME NEW f, stack \in Seq(GoodFrames(f)), NEW r, Chained(stack, r),
           Exact(refer, rev, stack), Held(refer, cached, dirty), Scanned(stack, cached)
    PROVE  NoDangling
<1> SUFFICES ASSUME NEW k \in DOMAIN stack, NEW u \in Pointers(stack[k])
             PROVE  u \in cached
  BY DEF NoDangling
<1>1. CASE u \in Units /\ \E j \in DOMAIN stack : stack[j].ref.directory = u
  BY <1>1, CountedIsHeld
<1>2. CASE k = 1 /\ stack[k].pc = "entries" /\ u = stack[k].unit
  BY <1>2 DEF Scanned
<1> QED BY <1>1, <1>2, PointersAreCounted

-----------------------------------------------------------------------------
(* What is counted is not deleted, whatever the cache does.                *)
HeldIn(s) == IsState(s) /\ Held(s.refer, s.cached, s.dirty)
Still(s, t) == SameFiles(s, t) /\ t.refer = s.refer /\ HeldIn(t)

LEMMA StillIs ==
    /\ \A s : HeldIn(s) => Still(s, s)
    /\ \A s, t, x : Still(s, t) /\ Still(t, x) => Still(s, x)
BY DEF Still, SameFiles, HeldIn

LEMMA CacheStill ==
    ASSUME NEW s, HeldIn(s)
    PROVE  /\ \A c : s.fs.at[c] \in Units =>
                 LET t == ReadInto(s, c)
                 IN  Still(s, t) /\ t.cached = s.cached \cup {s.fs.at[c]} /\ t.dirty = s.dirty
           /\ \A u \in Units :
                 LET t == Touched(s, u)
                 IN  Still(s, t) /\ t.cached = s.cached \cup {u}
           /\ \A u : LET t == Deleted(s, u)
                     IN  /\ Still(s, t) /\ t.cached \subseteq s.cached
                         /\ s.cached \ {u} \subseteq t.cached
           /\ \A us : LET t == WrittenBack(s, us)
                      IN  Still(s, t) /\ t.cached = s.cached
<1>1. IsState(s) /\ Held(s.refer, s.cached, s.dirty)
  BY DEF HeldIn
<1>2. ASSUME NEW c, s.fs.at[c] \in Units
      PROVE  LET t == ReadInto(s, c)
             IN  Still(s, t) /\ t.cached = s.cached \cup {s.fs.at[c]} /\ t.dirty = s.dirty
  <2> DEFINE t == ReadInto(s, c)
  <2>1. SameFiles(s, t)
    BY <1>1, CacheKeeps
  <2>2. t.refer = s.refer /\ t.cached = s.cached \cup {s.fs.at[c]} /\ t.dirty = s.dirty
    BY <1>1 DEF IsState, Fields, ReadInto
  <2> HIDE DEF t
  <2>3. Still(s, t) /\ t.cached = s.cached \cup {s.fs.at[c]} /\ t.dirty = s.dirty
    BY <1>1, <1>2, <2>1, <2>2 DEF Still, HeldIn, SameFiles, Held
  <2> QED BY <2>3 DEF t
<1>3. ASSUME NEW u \in Units
      PROVE  LET t == Touched(s, u)
             IN  Still(s, t) /\ t.cached = s.cached \cup {u}
  <2> DEFINE t == Touched(s, u)
  <2>1. SameFiles(s, t)
    BY <1>1, CacheKeeps
  <2>2. t.refer = s.refer /\ t.cached = s.cached \cup {u} /\ t.dirty = s.dirty \cup {u}
    BY <1>1 DEF IsState, Fields, Touched
  <2> HIDE DEF t
  <2>3. Still(s, t) /\ t.cached = s.cached \cup {u}
    BY <1>1, <1>3, <2>1, <2>2 DEF Still, HeldIn, SameFiles, Held
  <2> QED BY <2>3 DEF t
<1>4. ASSUME NEW u
      PROVE  LET t == Deleted(s, u)
             IN  /\ Still(s, t) /\ t.cached \subseteq s.cached
                 /\ s.cached \ {u} \subseteq t.cached
  <2> DEFINE t == Deleted(s, u)
  <2>1. SameFiles(s, t)
    BY <1>1, CacheKeeps
  <2>2. CASE Deletable(s, u)
    <3>1. t.refer = s.refer /\ t.cached = s.cached \ {u} /\ t.dirty = s.dirty
      BY <1>1, <2>2 DEF IsState, Fields, Deleted
    <3>2. s.refer[u] = 0 /\ u \notin s.dirty
      BY <2>2 DEF Deletable
    <3> HIDE DEF t
    <3>3. Still(s, t) /\ t.cached \subseteq s.cached /\ s.cached \ {u} \subseteq t.cached
      BY <1>1, <2>1, <3>1, <3>2 DEF Still, HeldIn, SameFiles, Held
    <3> QED BY <3>3 DEF t
  <2>3. CASE ~ Deletable(s, u)
    <3>1. t = s
      BY <2>3 DEF Deleted
    <3> HIDE DEF t
    <3>2. Still(s, t) /\ t.cached \subseteq s.cached /\ s.cached \ {u} \subseteq t.cached
      BY <1>1, <2>1, <3>1 DEF Still, HeldIn
    <3> QED BY <3>2 DEF t
  <2> QED BY <2>2, <2>3
<1>5. ASSUME NEW us
      PROVE  LET t == WrittenBack(s, us)
             IN  Still(s, t) /\ t.cached = s.cached
  <2> DEFINE t == WrittenBack(s, us)
  <2>1. SameFiles(s, t)
    BY <1>1, CacheKeeps
  <2>2. t.refer = s.refer /\ t.cached = s.cached /\ t.dirty \subseteq s.dirty
    BY <1>1 DEF IsState, Fields, WrittenBack
  <2> HIDE DEF t
  <2>3. Still(s, t) /\ t.cached = s.cached
    BY <1>1, <2>1, <2>2 DEF Still, HeldIn, SameFiles, Held
  <2> QED BY <2>3 DEF t
<1> QED BY <1>2, <1>3, <1>4, <1>5

LEMMA DismissedStill ==
    ASSUME NEW s, HeldIn(s), NEW frame
    PROVE  LET t == Dismissed(s, frame)
           IN  /\ Still(s, t) /\ t.cached \subseteq s.cached
               /\ s.cached \ {frame.prev} \subseteq t.cached
               /\ s.refer[frame.prev] # 0 => t.cached = s.cached
<1> DEFINE t == Dismissed(s, frame)
           x == WrittenBack(s, {frame.prev})
<1>1. Still(s, x) /\ x.cached = s.cached
  BY CacheStill
<1>2. CASE DELETE \in frame.res /\ s.refer[frame.prev] = 0
  <2>1. t = Deleted(x, frame.prev)
    BY <1>2 DEF Dismissed
  <2> HIDE DEF t, x
  <2>2. HeldIn(x)
    BY <1>1 DEF Still
  <2>3. Still(x, t) /\ t.cached \subseteq x.cached /\ x.cached \ {frame.prev} \subseteq t.cached
    BY <2>1, <2>2, CacheStill
  <2>4. Still(s, t)
    BY <1>1, <2>3, StillIs
  <2>5. /\ Still(s, t) /\ t.cached \subseteq s.cached
        /\ s.cached \ {frame.prev} \subseteq t.cached
        /\ s.refer[frame.prev] # 0 => t.cached = s.cached
    BY <1>1, <1>2, <2>3, <2>4
  <2> QED BY <2>5 DEF t
<1>3. CASE ~ (DELETE \in frame.res /\ s.refer[frame.prev] = 0)
  <2>1. t = s
    BY <1>3 DEF Dismissed
  <2> HIDE DEF t
  <2>2. /\ Still(s, t) /\ t.cached \subseteq s.cached
        /\ s.cached \ {frame.prev} \subseteq t.cached
        /\ s.refer[frame.prev] # 0 => t.cached = s.cached
    BY <2>1, StillIs
  <2> QED BY <2>2 DEF t
<1> QED BY <1>2, <1>3

LEMMA ReferIs ==
    ASSUME NEW s, HeldIn(s), NEW u \in Units \cup {NoUnit}, NEW n \in Int
    PROVE  LET t == Refer(s, u, n)
           IN  /\ SameFiles(s, t) /\ t.cached = s.cached /\ t.dirty = s.dirty
               /\ t.refer \in [Units -> Int]
               /\ \A w \in Units : t.refer[w] = s.refer[w] + (IF w = u THEN n ELSE 0)
               /\ (u # NoUnit => u \in s.cached) => HeldIn(t)
<1> DEFINE t == Refer(s, u, n)
<1>1. IsState(s) /\ Held(s.refer, s.cached, s.dirty) /\ SameFiles(s, t)
  BY CacheKeeps DEF HeldIn
<1>2. s.refer \in [Units -> Int]
  BY <1>1 DEF Held
<1>3. /\ t.cached = s.cached /\ t.dirty = s.dirty /\ t.refer \in [Units -> Int]
      /\ \A w \in Units : t.refer[w] = s.refer[w] + (IF w = u THEN n ELSE 0)
  <2>1. CASE u = NoUnit
    <3>1. t = s
      BY <2>1 DEF Refer
    <3> HIDE DEF t
    <3>2. \A w \in Units : w # u /\ s.refer[w] + 0 = s.refer[w]
      BY <1>2, <2>1, RefsAssumption
    <3> QED BY <1>2, <3>1, <3>2
  <2>2. CASE u # NoUnit
    <3>1. t = [s EXCEPT !.refer = [s.refer EXCEPT ![u] = @ + n]]
      BY <2>2 DEF Refer
    <3> DEFINE rc == [s.refer EXCEPT ![u] = @ + n]
    <3>2. u \in Units
      BY <2>2
    <3>3. rc \in [Units -> Int]
      BY <1>2, <3>2
    <3>4. \A w \in Units : rc[w] = s.refer[w] + (IF w = u THEN n ELSE 0)
      BY <1>2, <3>2
    <3>5. t = [s EXCEPT !.refer = rc]
      BY <3>1
    <3> HIDE DEF t, rc
    <3>6. t.cached = s.cached /\ t.dirty = s.dirty /\ t.refer = rc
      BY <1>1, <3>5 DEF IsState, Fields
    <3> QED BY <3>3, <3>4, <3>6
  <2> QED BY <2>1, <2>2
<1> HIDE DEF t
<1>4. ASSUME u # NoUnit => u \in s.cached
      PROVE  HeldIn(t)
  <2>1. ASSUME NEW w \in Units, t.refer[w] # 0
        PROVE  w \in t.cached
    <3>1. CASE w = u
      BY <1>3, <1>4, <3>1, RefsAssumption
    <3>2. CASE w # u
      <4>1. t.refer[w] = s.refer[w]
        BY <1>2, <1>3, <3>2
      <4> QED BY <1>1, <1>3, <2>1, <4>1 DEF Held
    <3> QED BY <3>1, <3>2
  <2> QED BY <1>1, <1>3, <2>1 DEF HeldIn, Held, SameFiles
<1> QED BY <1>1, <1>3, <1>4 DEF t

-----------------------------------------------------------------------------
(* What a frame is after a call.                                           *)
Chains(f, G, res, n) ==
    /\ G.res = res /\ G.scan = n
    /\ IF CHAIN \in res /\ n >= FAT_ROOT THEN G.pc = "chain"
       ELSE G.pc = IF RECUR \in res /\ IsDirectory(f, G.ref) /\ ~ IsDotFile(f, G.ref)
                   THEN "enter" ELSE "end"

LEMMA AfterCallIs ==
    ASSUME Top \in Frame, Calling, NEW s, NEW res \in SUBSET Flags, ORIG \notin res
    PROVE  LET G == AfterCall(s, res)
               first == Target(s.fs, Top.ref)
           IN  /\ G.ref = Top.ref /\ G.start = Top.start /\ G.dir = Top.dir
               /\ \/ G.status = Top.status
                  \/ /\ Top.pc = "enter" /\ G.pc = "leave" /\ G.status = -1
                     /\ ~ (first < FAT_ROOT)
               /\ Top.pc = "self" => IF IsDeleted(s.fs, Top.ref) THEN G.pc = "end" /\ G.res = Top.res
                                     ELSE Chains(s.fs, G, res, first)
               /\ Top.pc = "chain" => Chains(s.fs, G, res, NextCluster(s.fs, Top.scan))
               /\ Top.pc = "enter" =>
                     /\ G.res = Top.res /\ G.pc \in {"leave", "entries"}
                     /\ G.pc = "leave" => first < FAT_ROOT \/ G.status = -1
               /\ G.pc = "entries" =>
                     /\ Top.pc = "enter" /\ ~ (first < FAT_ROOT) /\ first \notin CannotRead(s)
                     /\ G.index = -1 /\ G.unit = s.fs.at[first] /\ G.prev = s.fs.at[first]
               /\ Top.pc = "leave" => G.pc = "again" /\ G.res = Top.res
               /\ Top.pc \in {"again", "againchain"} => G.pc \in {"againchain", "end"} /\ G.res = res
<1> DEFINE F == Top
           G == AfterCall(s, res)
           f == s.fs
           first == Target(f, F.ref)
<1>1. /\ F.pc \in Pcs \ {"entries", "end"} /\ F \in Frame
  BY DEF Calling, Frame
<1>2. G = CASE F.pc = "self" ->
                 IF IsDeleted(f, F.ref) THEN [F EXCEPT !.pc = "end"]
                 ELSE AfterChain(f, Scanning(f, F, F.ref, res))
            [] F.pc = "chain" -> AfterChain(f, ScanningTable(f, F, res))
            [] F.pc = "enter" ->
                 IF first < FAT_ROOT THEN [F EXCEPT !.pc = "leave"]
                 ELSE IF first \in CannotRead(s)
                      THEN [[F EXCEPT !.pc = "leave"] EXCEPT !.status = -1]
                 ELSE [F EXCEPT !.pc = "entries", !.index = -1,
                                !.unit = f.at[first], !.prev = f.at[first]]
            [] F.pc = "leave" -> [F EXCEPT !.pc = "again"]
            [] F.pc = "again" -> AfterAgain(Scanning(f, F, F.ref, res))
            [] F.pc = "againchain" -> AfterAgain(ScanningTable(f, F, res))
  BY DEF AfterCall
<1> DEFINE Same == G.ref = F.ref /\ G.start = F.start /\ G.dir = F.dir
<1> DEFINE Like(K) == /\ K.ref = F.ref /\ K.start = F.start /\ K.dir = F.dir
                      /\ K.status = F.status
           On(n) == [F EXCEPT !.res = res, !.scan = n]
<1>3. ASSUME NEW n
      PROVE  /\ Like(AfterChain(f, On(n))) /\ Chains(f, AfterChain(f, On(n)), res, n)
             /\ Like(AfterAgain(On(n)))
             /\ AfterAgain(On(n)).pc \in {"againchain", "end"} /\ AfterAgain(On(n)).res = res
  <2> DEFINE H == On(n)
  <2> HIDE DEF F
  <2>1. \A p : LET K == [H EXCEPT !.pc = p]
               IN  /\ K.ref = F.ref /\ K.start = F.start /\ K.dir = F.dir
                   /\ K.status = F.status /\ K.pc = p /\ K.res = res /\ K.scan = n
    BY <1>1 DEF Frame
  <2>2. H.res = res /\ H.scan = n /\ H.ref = F.ref
    BY <1>1 DEF Frame
  <2> HIDE DEF H
  <2>3. ASSUME CHAIN \in res /\ n >= FAT_ROOT
        PROVE  AfterChain(f, H) = [H EXCEPT !.pc = "chain"]
    BY <2>2, <2>3 DEF AfterChain
  <2>4. ASSUME ~ (CHAIN \in res /\ n >= FAT_ROOT)
        PROVE  AfterChain(f, H) = [H EXCEPT !.pc =
                  IF RECUR \in res /\ IsDirectory(f, F.ref) /\ ~ IsDotFile(f, F.ref)
                  THEN "enter" ELSE "end"]
    BY <2>2, <2>4 DEF AfterChain
  <2>5. \/ AfterAgain(H) = [H EXCEPT !.pc = "againchain"]
        \/ AfterAgain(H) = [H EXCEPT !.pc = "end"]
    BY DEF AfterAgain
  <2>6. Like(AfterChain(f, H)) /\ Chains(f, AfterChain(f, H), res, n)
    <3>1. CASE CHAIN \in res /\ n >= FAT_ROOT
      BY <2>1, <2>3, <3>1 DEF Chains
    <3> DEFINE p == IF RECUR \in res /\ IsDirectory(f, F.ref) /\ ~ IsDotFile(f, F.ref)
                    THEN "enter" ELSE "end"
               K == [H EXCEPT !.pc = p]
    <3>2. Like(K) /\ K.pc = p /\ K.res = res /\ K.scan = n
      <4> HIDE DEF p
      <4> QED BY <2>1
    <3>3. CASE ~ (CHAIN \in res /\ n >= FAT_ROOT)
      <4>1. AfterChain(f, H) = K
        BY <2>4, <3>3
      <4> HIDE DEF K
      <4> QED BY <3>2, <3>3, <4>1 DEF Chains
    <3> QED BY <3>1, <3>3
  <2>7. /\ Like(AfterAgain(H))
        /\ AfterAgain(H).pc \in {"againchain", "end"} /\ AfterAgain(H).res = res
    BY <2>1, <2>5
  <2> QED BY <2>6, <2>7 DEF H
<1>4. Scanning(f, F, F.ref, res) = On(first)
  BY DEF Scanning
<1>5. ScanningTable(f, F, res) = On(NextCluster(f, F.scan))
  BY <1>1 DEF ScanningTable, Frame
<1> HIDE DEF G, F, f, first, On
<1>6. CASE F.pc = "self" /\ IsDeleted(f, F.ref)
  <2>1. G = [F EXCEPT !.pc = "end"]
    BY <1>2, <1>6
  <2>2. Same /\ G.status = F.status /\ G.pc = "end" /\ G.res = F.res
    BY <1>1, <2>1 DEF Frame
  <2> QED BY <1>6, <2>2 DEF G, F, f, first
<1>7. CASE F.pc = "self" /\ ~ IsDeleted(f, F.ref)
  <2>1. G = AfterChain(f, Scanning(f, F, F.ref, res))
    BY <1>2, <1>7
  <2>2. Same /\ G.status = F.status /\ Chains(f, G, res, first)
    BY <1>3, <1>4, <2>1
  <2>3. G.pc # "entries"
    BY <2>2 DEF Chains
  <2> QED BY <1>7, <2>2, <2>3 DEF G, F, f, first
<1>8. CASE F.pc = "chain"
  <2>1. G = AfterChain(f, ScanningTable(f, F, res))
    BY <1>2, <1>8
  <2>2. Same /\ G.status = F.status /\ Chains(f, G, res, NextCluster(f, F.scan))
    BY <1>3, <1>5, <2>1
  <2>3. G.pc # "entries"
    BY <2>2 DEF Chains
  <2> QED BY <1>8, <2>2, <2>3 DEF G, F, f, first
<1>9. CASE F.pc = "enter" /\ first < FAT_ROOT
  <2>1. G = [F EXCEPT !.pc = "leave"]
    BY <1>2, <1>9
  <2>2. Same /\ G.status = F.status /\ G.pc = "leave" /\ G.res = F.res
    BY <1>1, <2>1 DEF Frame
  <2> QED BY <1>9, <2>2 DEF G, F, f, first
<1>10. CASE F.pc = "enter" /\ ~ (first < FAT_ROOT) /\ first \in CannotRead(s)
  <2> DEFINE H == [F EXCEPT !.pc = "leave"]
  <2>1. G = [H EXCEPT !.status = -1]
    BY <1>2, <1>10
  <2>2. H \in Frame /\ H.ref = F.ref /\ H.start = F.start /\ H.dir = F.dir /\ H.pc = "leave"
        /\ H.res = F.res
    BY <1>1 DEF Frame, Pcs
  <2> HIDE DEF H
  <2>3. Same /\ G.status = -1 /\ G.pc = "leave" /\ G.res = F.res
    BY <2>1, <2>2 DEF Frame
  <2> QED BY <1>10, <2>3 DEF G, F, f, first
<1>11. CASE F.pc = "enter" /\ ~ (first < FAT_ROOT) /\ first \notin CannotRead(s)
  <2> DEFINE u == f.at[first]
  <2>1. G = [F EXCEPT !.pc = "entries", !.index = -1, !.unit = u, !.prev = u]
    BY <1>2, <1>11
  <2> HIDE DEF u
  <2>2. Same /\ G.status = F.status /\ G.pc = "entries" /\ G.res = F.res
        /\ G.index = -1 /\ G.unit = u /\ G.prev = u
    BY <1>1, <2>1 DEF Frame
  <2> QED BY <1>11, <2>2 DEF G, F, f, first, u
<1>12. CASE F.pc = "leave"
  <2>1. G = [F EXCEPT !.pc = "again"]
    BY <1>2, <1>12
  <2>2. Same /\ G.status = F.status /\ G.pc = "again" /\ G.res = F.res
    BY <1>1, <2>1 DEF Frame
  <2> QED BY <1>12, <2>2 DEF G, F, f, first
<1>13. CASE F.pc \in {"again", "againchain"}
  <2>1. G \in {AfterAgain(Scanning(f, F, F.ref, res)), AfterAgain(ScanningTable(f, F, res))}
    BY <1>2, <1>13
  <2>2. Same /\ G.status = F.status /\ G.pc \in {"againchain", "end"} /\ G.res = res
    BY <1>3, <1>4, <1>5, <2>1
  <2> QED BY <1>13, <2>2 DEF G, F, f, first
<1>14. F.pc \in {"self", "chain", "enter", "leave", "again", "againchain"}
  BY <1>1 DEF Pcs
<1> QED BY <1>6, <1>7, <1>8, <1>9, <1>10, <1>11, <1>12, <1>13, <1>14

-----------------------------------------------------------------------------
(* What is counted is what the frames and the inverse FAT point to,        *)
(* whatever the traversal does next.                                       *)
Counting(frames, r, rc, v, ca, di) ==
    /\ Chained(frames, r) /\ Exact(rc, v, frames)
    /\ Held(rc, ca, di) /\ Scanned(frames, ca)

LEMMA StateHeld ==
    Held(refer, cached, dirty) =>
       /\ HeldIn(State) /\ State.refer = refer /\ State.cached = cached /\ State.dirty = dirty
BY StateIs DEF HeldIn, State

LEMMA ExactPushed ==
    ASSUME NEW S, NEW rest \in Seq(S), NEW F \in S, NEW rc, NEW v
    PROVE  Exact(rc, v, <<F>> \o rest) <=>
             \A u \in Units : rc[u] = FramesOn(rest, u) + CountsIn(v, u)
                                        + (IF F.ref.directory = u THEN 1 ELSE 0)
<1>1. ASSUME NEW u \in Units
      PROVE  /\ FramesOn(<<F>> \o rest, u)
                  = FramesOn(rest, u) + (IF F.ref.directory = u THEN 1 ELSE 0)
             /\ FramesOn(rest, u) \in Nat /\ CountsIn(v, u) \in Nat
  BY FramesPush, FramesFinite, CountsFinite
<1>2. ASSUME NEW u \in Units
      PROVE  FramesOn(<<F>> \o rest, u) + CountsIn(v, u)
               = FramesOn(rest, u) + CountsIn(v, u) + (IF F.ref.directory = u THEN 1 ELSE 0)
  BY <1>1
<1> QED BY <1>2 DEF Exact

(* The frame that runs may be another one of the same reference.           *)
LEMMA ExactTop ==
    ASSUME NEW S, NEW rest \in Seq(S), NEW F \in S, NEW G \in S, G.ref = F.ref,
           NEW rc, NEW v
    PROVE  Exact(rc, v, <<F>> \o rest) <=> Exact(rc, v, <<G>> \o rest)
BY ExactPushed

LEMMA TopReplaced ==
    ASSUME NEW S, NEW rest \in Seq(S), NEW F \in S, NEW G \in S,
           G.ref = F.ref, G.start = F.start, G.dir = F.dir,
           NEW r, NEW rc, NEW v,
           Chained(<<F>> \o rest, r), Exact(rc, v, <<F>> \o rest)
    PROVE  Chained(<<G>> \o rest, r) /\ Exact(rc, v, <<G>> \o rest)
BY ChainedTop, ExactTop

LEMMA AfterReadStill ==
    ASSUME fs \in Filesystems, Sound(fs), Top \in GoodFrames(fs),
           NEW s, HeldIn(s), NEW a, NEW b, Renamed(fs, s.fs, a, b)
    PROVE  LET first == Target(s.fs, Top.ref)
               t == AfterRead(s)
           IN  /\ Still(s, t) /\ s.cached \subseteq t.cached
               /\ Top.pc = "enter" /\ ~ (first < FAT_ROOT) =>
                     /\ first \in Numbers /\ Top.ref \in Links(s.fs)
                     /\ s.fs.at[first] \in Placed(s.fs)
               /\ Top.pc = "enter" /\ ~ (first < FAT_ROOT) /\ first \notin CannotRead(s) =>
                     s.fs.at[first] \in t.cached
<1> DEFINE f == s.fs
           first == Target(f, Top.ref)
           t == AfterRead(s)
<1>1. /\ f \in Filesystems /\ Sound(f) /\ Starts(f) = Starts(fs)
      /\ \A r : IsDotFile(f, r) <=> IsDotFile(fs, r)
  BY RenamedSound, StartsRenamed DEF Renamed
<1>2. Top.ref \in Starts(f) /\ (Top.pc = "enter" => ~ IsDotFile(f, Top.ref))
  BY <1>1 DEF GoodFrames
<1>3. first \in Int
  BY <1>1, <1>2, TargetIsInt
<1>4. (first >= FAT_ROOT) <=> ~ (first < FAT_ROOT)
  <2> HIDE DEF first
  <2> QED BY <1>3, SMTT(30) DEF FAT_ROOT
<1>5. ASSUME Top.pc = "enter", ~ (first < FAT_ROOT)
      PROVE  first \in Numbers /\ Top.ref \in Links(f) /\ f.at[first] \in Placed(f)
  <2>1. Top.ref \in Links(f) /\ first \in Numbers
    BY <1>1, <1>2, <1>4, <1>5, FollowedIsLink
  <2> QED BY <1>1, <2>1, LeadsToUnit
<1>6. CASE Top.pc = "enter" /\ ~ (first < FAT_ROOT) /\ first \notin CannotRead(s)
  <2>1. t = ReadInto(s, first)
    BY <1>4, <1>6 DEF AfterRead
  <2>2. f.at[first] \in Units
    BY <1>5, <1>6 DEF Placed
  <2> HIDE DEF t, first, f
  <2>3. Still(s, t) /\ t.cached = s.cached \cup {f.at[first]}
    BY <2>1, <2>2, CacheStill DEF f
  <2>4. Still(s, t) /\ s.cached \subseteq t.cached /\ f.at[first] \in t.cached
    BY <2>3
  <2> QED BY <1>5, <1>6, <2>4 DEF t, f, first
<1>7. CASE ~ (Top.pc = "enter" /\ ~ (first < FAT_ROOT) /\ first \notin CannotRead(s))
  <2>1. t = s
    BY <1>4, <1>7 DEF AfterRead
  <2> HIDE DEF t, first, f
  <2>2. Still(s, t) /\ s.cached \subseteq t.cached
    BY <2>1, StillIs
  <2> QED BY <1>5, <1>7, <2>2 DEF t, f, first
<1> QED BY <1>6, <1>7

(* A call to the callback, which counted what it put in the inverse FAT.   *)
LEMMA CallCounts ==
    ASSUME stack \in Seq(GoodFrames(fs)), Calling, fs \in Filesystems, Sound(fs),
           NEW r, Chained(stack, r),
           NEW s, HeldIn(s), Exact(s.refer, s.rev, stack),
           NEW a, NEW b, Renamed(fs, s.fs, a, b),
           NEW res, res \subseteq NORMAL, Returned(s, res)
    PROVE  /\ Counting(stack', r, refer', rev', cached', dirty')
           /\ s.cached \subseteq cached' /\ refer' = s.refer
<1> DEFINE t == AfterRead(s)
           G == AfterCall(s, res)
           rest == Tail(stack)
           first == Target(s.fs, Top.ref)
<1>1. /\ Top \in GoodFrames(fs) /\ Top \in Frame /\ rest \in Seq(GoodFrames(fs))
      /\ stack = <<Top>> \o rest
  <2>1. stack # <<>>
    BY DEF Calling
  <2> QED BY <2>1, TopIsGood DEF GoodFrames, Top
<1>2. NoAll(res) /\ res \in SUBSET Flags /\ ORIG \notin res
  BY DEF NoAll, NORMAL, Flags, CHAIN, RECUR, DELETE, ORIG, ALL
<1>3. IsState(s)
  BY DEF HeldIn
<1>4. G \in GoodFrames(s.fs)
  BY <1>2, <1>3, FrameAfterCall
<1>5. GoodFrames(s.fs) = GoodFrames(fs)
  <2>1. s.fs.kind = fs.kind
    BY DEF Renamed
  <2>2. Placed(s.fs) = Placed(fs)
    BY RenamedFiles
  <2> QED BY <2>1, <2>2, StartsRenamed
<1>6. /\ G.ref = Top.ref /\ G.start = Top.start /\ G.dir = Top.dir
      /\ G.pc = "entries" => /\ Top.pc = "enter" /\ ~ (first < FAT_ROOT)
                             /\ first \notin CannotRead(s) /\ G.unit = s.fs.at[first]
  BY <1>1, <1>2, AfterCallIs
<1>7. /\ Still(s, t) /\ s.cached \subseteq t.cached
      /\ Top.pc = "enter" /\ ~ (first < FAT_ROOT) /\ first \notin CannotRead(s) =>
            s.fs.at[first] \in t.cached
  BY <1>1, AfterReadStill
<1>8. /\ Memory(t) /\ stack' = <<G>> \o rest
  BY DEF Returned
<1> HIDE DEF t, G, rest, first
<1>9. refer' = s.refer /\ rev' = s.rev /\ cached' = t.cached /\ dirty' = t.dirty
  BY <1>7, <1>8 DEF Memory, Still, SameFiles
<1>10. Chained(stack', r)
  BY <1>1, <1>4, <1>5, <1>6, <1>8, ChainedTop
<1>11. Exact(refer', rev', stack')
  BY <1>1, <1>4, <1>5, <1>6, <1>8, <1>9, ExactTop
<1>12. Held(refer', cached', dirty')
  BY <1>7, <1>9 DEF Still, HeldIn
<1>13. Head(stack') = G
  BY <1>8
<1>14. Scanned(stack', cached')
  BY <1>6, <1>7, <1>9, <1>13 DEF Scanned
<1> QED BY <1>7, <1>9, <1>10, <1>11, <1>12, <1>14 DEF Counting

(* What the search goes on with: the entry that follows in the same        *)
(* cluster, the first one of the next cluster, or an error.                *)
LEMMA NextEntryIs ==
    ASSUME NEW s, s.fs \in Filesystems, Sound(s.fs),
           NEW F \in GoodFrames(s.fs), F.pc = "entries"
    PROVE  LET e == NextEntry(s, F)
               next == Files(s.fs).next[F.unit]
           IN  /\ F.unit \in Units /\ F.index \in -1 .. Slots - 1
               /\ \/ /\ F.index + 1 \in Indices
                     /\ e.unit = F.unit /\ e.index = F.index + 1
                     /\ e.err = IF s.fs.kind[e.unit][e.index] = "end" THEN 1 ELSE 0
                  \/ /\ F.index = Slots - 1
                     /\ next \in Units /\ e.unit = next /\ e.index = 0
                     /\ e.err = IF s.fs.kind[e.unit][e.index] = "end" THEN 1 ELSE 0
                  \/ /\ F.index = Slots - 1
                     /\ e.unit = NoUnit /\ e.err \in {-1, -2, -3}
                     /\ e.err = -1 => next = NoUnit
<1> DEFINE f == s.fs
           c == NumberOf(f, F.unit)
           n == NextCluster(f, c)
           At(u, i) == [unit |-> u, index |-> i,
                        err |-> IF f.kind[u][i] = "end" THEN 1 ELSE 0]
           None(err) == [unit |-> NoUnit, index |-> 0, err |-> err]
           e == NextEntry(s, F)
           next == Files(f).next[F.unit]
<1>1. e = IF F.index + 1 < Slots THEN At(F.unit, F.index + 1)
          ELSE IF n \in {FAT_EOF, FAT_UNUSED} THEN None(-1)
          ELSE IF n < FAT_FIRST THEN None(-2)
          ELSE IF n \in CannotRead(s) THEN None(-3)
          ELSE At(f.at[n], 0)
  BY DEF NextEntry
<1>2. F.unit \in Placed(f) /\ F \in Frame
  BY DEF GoodFrames
<1>3. F.unit \in Units /\ F.index \in -1 .. Slots - 1
  BY <1>2 DEF Placed, Frame
<1>4. c \in Numbers /\ f.at[c] = F.unit
  BY <1>2 DEF Placed, NumberOf, Numbers
<1>5. n \in Nexts \cup {FAT_EOF}
  BY <1>4 DEF NextCluster, Filesystems, Numbers, Nexts
<1>6. next = UnitAt(f, n)
  BY <1>2, <1>3 DEF Files
<1>7. n \in Clusters => next = f.at[n] /\ next \in Units
  <2> SUFFICES ASSUME n \in Clusters
               PROVE  next = f.at[n] /\ next \in Units
    OBVIOUS
  <2>1. f.at[n] # NoUnit
    BY <1>4, LinksLead DEF Numbers
  <2>2. f.at[n] \in Units \cup {NoUnit}
    <3> HIDE DEF n
    <3> QED BY DEF Filesystems
  <2> HIDE DEF n, next
  <2> QED BY <1>6, <2>1, <2>2 DEF UnitAt
<1>8. n \notin Clusters => next = NoUnit
  <2> SUFFICES ASSUME n \notin Clusters
               PROVE  next = NoUnit
    OBVIOUS
  <2> HIDE DEF n, next
  <2>1. n # FAT_ROOT
    BY <1>5, NumbersAre DEF Nexts, FAT_ROOT, FAT_EOF, FAT_UNUSED, FAT_BAD
  <2> QED BY <1>6, <2>1 DEF UnitAt
<1>9. (n \in {FAT_EOF, FAT_UNUSED} => n \notin Clusters) /\ (n \in Int) /\ (n \in Clusters <=> ~ (n < FAT_FIRST))
  <2> HIDE DEF n
  <2>1. n \in Nexts
    BY <1>5 DEF Nexts
  <2>2. n \in Int /\ (n >= FAT_FIRST <=> n \in Clusters)
    BY <2>1, NumbersAre
  <2>3. ~ (n < FAT_FIRST) <=> n >= FAT_FIRST
    BY <2>2, SMTT(30) DEF FAT_FIRST
  <2> QED BY <2>2, <2>3, NumbersAre DEF Numbers
<1>10. CASE F.index + 1 < Slots
  <2>1. F.index + 1 \in Indices
    BY <1>3, <1>10, RefsAssumption, SMTT(30) DEF Indices
  <2>2. e = At(F.unit, F.index + 1)
    BY <1>1, <1>10
  <2> QED BY <1>3, <2>1, <2>2
<1>11. CASE ~ (F.index + 1 < Slots)
  <2>1. F.index = Slots - 1
    BY <1>3, <1>11, RefsAssumption, SMTT(30)
  <2>2. CASE n \in {FAT_EOF, FAT_UNUSED}
    <3>1. e = None(-1)
      BY <1>1, <1>11, <2>2
    <3>2. next = NoUnit
      BY <1>8, <1>9, <2>2
    <3> HIDE DEF n, e, next
    <3>3. e.unit = NoUnit /\ e.err = -1
      BY <3>1
    <3> QED BY <1>3, <2>1, <3>2, <3>3 DEF e, next
  <2>3. CASE n \notin {FAT_EOF, FAT_UNUSED} /\ n < FAT_FIRST
    <3>1. e = None(-2)
      BY <1>1, <1>11, <2>3
    <3> HIDE DEF n, e, next
    <3>2. e.unit = NoUnit /\ e.err = -2 /\ -2 # -1
      BY <3>1
    <3> QED BY <1>3, <2>1, <3>2 DEF e, next
  <2>4. CASE n \notin {FAT_EOF, FAT_UNUSED} /\ ~ (n < FAT_FIRST) /\ n \in CannotRead(s)
    <3>1. e = None(-3)
      BY <1>1, <1>11, <2>4
    <3> HIDE DEF n, e, next
    <3>2. e.unit = NoUnit /\ e.err = -3 /\ -3 # -1
      BY <3>1
    <3> QED BY <1>3, <2>1, <3>2 DEF e, next
  <2>5. CASE n \notin {FAT_EOF, FAT_UNUSED} /\ ~ (n < FAT_FIRST) /\ n \notin CannotRead(s)
    <3>1. e = At(f.at[n], 0)
      BY <1>1, <1>11, <2>5
    <3>2. next = f.at[n] /\ next \in Units
      BY <1>7, <1>9, <2>5
    <3> HIDE DEF n, next
    <3>3. e = At(next, 0)
      BY <3>1, <3>2
    <3> HIDE DEF e
    <3>4. e.unit = next /\ e.index = 0 /\ e.err = IF f.kind[next][0] = "end" THEN 1 ELSE 0
      BY <3>3
    <3> QED BY <1>3, <2>1, <3>2, <3>4 DEF e, next
  <2> QED BY <2>2, <2>3, <2>4, <2>5
<1> QED BY <1>10, <1>11

(* The passage to the next entry.                                          *)
LEMMA AdvanceCounts ==
    ASSUME stack \in Seq(GoodFrames(fs)), fs \in Filesystems, Sound(fs), Advance,
           NEW r, Counting(stack, r, refer, rev, cached, dirty)
    PROVE  Counting(stack', r, refer', rev', cached', dirty')
<1> DEFINE F == Top
           rest == Tail(stack)
           e == NextEntry(State, F)
           s == IF e.unit \in {NoUnit, F.unit} THEN State
                ELSE [State EXCEPT !.cached = @ \cup {e.unit}]
           t == IF e.unit = F.prev THEN s ELSE Dismissed(s, F)
           here == [F EXCEPT !.unit = e.unit, !.index = e.index]
           entry == Entry(e.unit, e.index)
           new == NewFrame(entry, F.ref, F.start)
           gone(failed) == [F EXCEPT !.pc = "leave", !.status = IF failed THEN -1 ELSE @]
<1>1. /\ F \in GoodFrames(fs) /\ F \in Frame /\ F.pc = "entries"
      /\ rest \in Seq(GoodFrames(fs)) /\ stack = <<F>> \o rest
  <2>1. stack # <<>>
    BY DEF Advance
  <2> QED BY <2>1, TopIsGood DEF GoodFrames, Top, Advance
<1>2. /\ Chained(stack, r) /\ Exact(refer, rev, stack) /\ Held(refer, cached, dirty)
      /\ HeldIn(State) /\ State.refer = refer /\ State.rev = rev /\ State.fs = fs
      /\ State.cached = cached /\ State.dirty = dirty
      /\ F.unit \in cached
  <2>1. stack # <<>>
    BY DEF Advance
  <2> QED BY <1>1, <2>1, StateHeld, StateIs DEF Counting, Scanned, Top
<1>3. stack' \in Seq(GoodFrames(fs)) /\ fs' = fs /\ rev' = rev
  BY AdvanceKeeps
<1>4. \/ \E failed \in BOOLEAN : e.err # 0 /\ Memory(Dismissed(s, F)) /\ stack' = <<gone(failed)>> \o rest
      \/ e.err = 0 /\ Memory(t) /\ stack' = <<Looped(here)>> \o rest
      \/ e.err = 0 /\ Memory(Refer(t, e.unit, 1)) /\ stack' = <<new, here>> \o rest
  <2>1. CASE e.err # 0
    <3>0. Leave(s, F, e.err < -1)
      BY <2>1, Zenon DEF Advance
    <3>1. Memory(Dismissed(s, F)) /\ stack' = <<gone(e.err < -1)>> \o rest
      <4> HIDE DEF e
      <4> QED BY <3>0 DEF Leave
    <3>2. gone(e.err < -1) \in {gone(TRUE), gone(FALSE)}
      <4>1. CASE e.err < -1
        BY <4>1
      <4>2. CASE ~ (e.err < -1)
        BY <4>2
      <4> QED BY <4>1, <4>2
    <3> HIDE DEF gone, e
    <3> QED BY <2>1, <3>1, <3>2
  <2>2. CASE e.err = 0
    BY <2>2 DEF Advance
  <2> QED BY <2>1, <2>2
<1>9. Still(State, s) /\ (e.unit # NoUnit => e.unit \in Units /\ e.unit \in s.cached)
  <2>1. e.unit \in Units \cup {NoUnit}
    BY <1>1, <1>2, NextEntryIs
  <2> HIDE DEF e
  <2>2. CASE e.unit \in {NoUnit, F.unit}
    BY <1>2, <2>1, <2>2, StillIs
  <2>3. CASE e.unit \notin {NoUnit, F.unit}
    <3> DEFINE x == [State EXCEPT !.cached = @ \cup {e.unit}]
    <3>1. /\ IsState(x) /\ x.fs = State.fs /\ x.rev = State.rev /\ x.refer = State.refer
          /\ x.cached = State.cached \cup {e.unit} /\ x.dirty = State.dirty
      BY StateIs DEF IsState, Fields, State
    <3> HIDE DEF x
    <3>2. Still(State, x) /\ e.unit \in x.cached
      BY <1>2, <2>1, <2>3, <3>1 DEF Still, SameFiles, HeldIn, Held
    <3> QED BY <2>1, <2>3, <3>2 DEF x
  <2> QED BY <2>2, <2>3
<1>5. CASE \E failed \in BOOLEAN : e.err # 0 /\ Memory(Dismissed(s, F)) /\ stack' = <<gone(failed)>> \o rest
  <2>1. PICK failed \in BOOLEAN : Memory(Dismissed(s, F)) /\ stack' = <<gone(failed)>> \o rest
    BY <1>5
  <2> DEFINE G == gone(failed)
             x == Dismissed(s, F)
  <2>2. G \in GoodFrames(fs)
    <3>1. Head(stack') = G /\ stack' # <<>>
      BY <2>1
    <3> HIDE DEF G
    <3> QED BY <1>3, <3>1
  <2>3. G.ref = F.ref /\ G.start = F.start /\ G.dir = F.dir /\ G.pc = "leave"
    <3>1. \A z : LET H == [F EXCEPT !.pc = "leave", !.status = z]
                 IN  H.ref = F.ref /\ H.start = F.start /\ H.dir = F.dir /\ H.pc = "leave"
      BY <1>1 DEF Frame
    <3> QED BY <3>1
  <2>4. Still(State, x)
    <3> HIDE DEF s
    <3>1. HeldIn(s)
      BY <1>9 DEF Still
    <3>2. Still(s, x)
      BY <3>1, DismissedStill
    <3> HIDE DEF x
    <3> QED BY <1>9, <3>2, StillIs
  <2> HIDE DEF G, x, s
  <2>5. refer' = refer /\ Held(refer', cached', dirty')
    BY <1>2, <2>1, <2>4 DEF Still, HeldIn, Memory, x
  <2>6. stack' = <<G>> \o rest
    BY <2>1 DEF G
  <2>7. Chained(stack', r) /\ Exact(refer', rev', stack')
    <3> HIDE DEF F, rest
    <3>1. Chained(<<G>> \o rest, r) /\ Exact(refer, rev, <<G>> \o rest)
      BY <1>1, <1>2, <2>2, <2>3, TopReplaced
    <3> QED BY <1>3, <2>5, <2>6, <3>1
  <2>8. Head(stack') = G
    BY <2>6
  <2> QED BY <2>3, <2>5, <2>7, <2>8 DEF Counting, Scanned
<1>6. ASSUME e.err = 0
      PROVE  /\ e.unit \in Units /\ e.index \in Indices
             /\ Still(State, t) /\ e.unit \in t.cached
             /\ here \in Frame /\ here.ref = F.ref /\ here.start = F.start /\ here.dir = F.dir
             /\ here.pc = "entries" /\ here.unit = e.unit /\ here.index = e.index
  <2>1. e.unit \in Units /\ e.index \in Indices
    BY <1>1, <1>2, <1>6, EntryFound DEF Placed
  <2>2. e.index \in -1 .. Slots - 1
    BY <2>1, RefsAssumption, SMTT(30) DEF Indices
  <2> HIDE DEF e
  <2>3. /\ here \in Frame /\ here.ref = F.ref /\ here.start = F.start /\ here.dir = F.dir
        /\ here.pc = "entries" /\ here.unit = e.unit /\ here.index = e.index
    BY <1>1, <2>1, <2>2 DEF Frame
  <2> HIDE DEF here
  <2>4. Still(State, s) /\ e.unit \in s.cached
    BY <1>9, <2>1, RefsAssumption
  <2> HIDE DEF s
  <2>5. Still(State, t) /\ e.unit \in t.cached
    <3>1. CASE e.unit = F.prev
      BY <2>4, <3>1
    <3>2. CASE e.unit # F.prev
      <4>1. HeldIn(s)
        BY <2>4 DEF Still
      <4> DEFINE x == Dismissed(s, F)
      <4>2. Still(s, x) /\ s.cached \ {F.prev} \subseteq x.cached
        BY <4>1, DismissedStill
      <4> HIDE DEF x
      <4>3. Still(State, x) /\ e.unit \in x.cached
        BY <2>4, <3>2, <4>2, StillIs
      <4> QED BY <3>2, <4>3 DEF x
    <3> QED BY <3>1, <3>2
  <2> HIDE DEF t
  <2> QED BY <2>1, <2>3, <2>5
<1>7. CASE e.err = 0 /\ Memory(t) /\ stack' = <<Looped(here)>> \o rest
  <2> DEFINE G == Looped(here)
  <2>1. G.ref = F.ref /\ G.start = F.start /\ G.dir = F.dir /\ G.pc = "entries" /\ G.unit = e.unit
    <3> HIDE DEF here, e
    <3> QED BY <1>6, <1>7 DEF Looped, Frame
  <2>2. G \in GoodFrames(fs) /\ Head(stack') = G
    <3> HIDE DEF G
    <3>1. Head(stack') = G /\ stack' # <<>>
      BY <1>7 DEF G
    <3> QED BY <1>3, <3>1
  <2> HIDE DEF G, t, e, here
  <2>3. refer' = refer /\ Held(refer', cached', dirty') /\ e.unit \in cached'
    BY <1>2, <1>6, <1>7 DEF Still, HeldIn, Memory
  <2>4. stack' = <<G>> \o rest
    BY <1>7 DEF G
  <2>5. Chained(stack', r) /\ Exact(refer', rev', stack')
    <3> HIDE DEF F, rest
    <3>1. Chained(<<G>> \o rest, r) /\ Exact(refer, rev, <<G>> \o rest)
      BY <1>1, <1>2, <2>1, <2>2, TopReplaced
    <3> QED BY <1>3, <2>3, <2>4, <3>1
  <2> QED BY <2>1, <2>2, <2>3, <2>5 DEF Counting, Scanned
<1>8. CASE e.err = 0 /\ Memory(Refer(t, e.unit, 1)) /\ stack' = <<new, here>> \o rest
  <2> DEFINE low == <<here>> \o rest
             x == Refer(t, e.unit, 1)
  <2>1. stack' = <<new>> \o low
    BY <1>1, <1>8
  <2>2. here \in GoodFrames(fs) /\ new \in GoodFrames(fs) /\ low \in Seq(GoodFrames(fs))
    <3> HIDE DEF here, new, e
    <3>1. DOMAIN stack' = 1 .. Len(stack') /\ Len(stack') = Len(rest) + 2
            /\ Len(rest) \in Nat /\ stack'[1] = new /\ stack'[2] = here
      BY <1>1, <1>8
    <3>2. 1 \in DOMAIN stack' /\ 2 \in DOMAIN stack'
      BY <3>1
    <3>3. here \in GoodFrames(fs) /\ new \in GoodFrames(fs)
      BY <1>3, <3>1, <3>2
    <3> QED BY <1>1, <3>3
  <2>3. new.ref = entry /\ new.start = F.ref /\ new.dir = F.start /\ new.pc = "self"
        /\ new.ref.directory = e.unit
    BY DEF NewFrame, Entry, Ref
  <2>4. HeldIn(t) /\ t.refer = refer /\ t.rev = rev
    BY <1>2, <1>6, <1>8 DEF Still, SameFiles
  <2> HIDE DEF t, new, here
  <2>5. /\ SameFiles(t, x) /\ HeldIn(x)
        /\ \A w \in Units : x.refer[w] = t.refer[w] + (IF w = e.unit THEN 1 ELSE 0)
    <3> HIDE DEF e
    <3> QED BY <1>6, <1>8, <2>4, ReferIs
  <2>6. Chained(low, r) /\ Exact(refer, rev, low)
    <3> HIDE DEF F, rest, e
    <3> QED BY <1>1, <1>2, <1>6, <1>8, <2>2, TopReplaced
  <2>7. Nested(new, here)
    <3> HIDE DEF F
    <3> QED BY <1>6, <1>8, <2>3 DEF Nested, entry
  <2>8. low # <<>> /\ Head(low) = here
    BY <1>1
  <2> HIDE DEF low, e, x
  <2>9. refer' = x.refer /\ rev' = rev /\ Held(refer', cached', dirty')
    BY <1>3, <1>8, <2>5 DEF HeldIn, Memory, x
  <2>10. Chained(stack', r)
    BY <2>1, <2>2, <2>6, <2>7, <2>8, ChainedPush
  <2>11. \A u \in Units : /\ refer'[u] = refer[u] + (IF u = e.unit THEN 1 ELSE 0)
                          /\ refer[u] = FramesOn(low, u) + CountsIn(rev, u)
    BY <2>4, <2>5, <2>6, <2>9 DEF Exact
  <2>12. Exact(refer', rev', stack')
    <3>1. \A u \in Units : FramesOn(<<new>> \o low, u)
                   = FramesOn(low, u) + (IF e.unit = u THEN 1 ELSE 0)
      BY <2>2, <2>3, FramesPush
    <3>2. ASSUME NEW u \in Units
          PROVE  refer'[u] = FramesOn(<<new>> \o low, u) + CountsIn(rev, u)
      <4>1. FramesOn(low, u) \in Nat /\ CountsIn(rev, u) \in Nat
        BY <2>2, FramesFinite, CountsFinite
      <4> QED BY <2>11, <3>1, <4>1
    <3> QED BY <2>1, <2>9, <3>2 DEF Exact
  <2>13. Head(stack') = new
    BY <2>1
  <2> QED BY <2>3, <2>9, <2>10, <2>12, <2>13 DEF Counting, Scanned
<1> HIDE DEF e, t, here, new
<1> QED BY <1>4, <1>5, <1>7, <1>8

(* The end of a frame.                                                     *)
LEMMA ReturnCounts ==
    ASSUME stack \in Seq(GoodFrames(fs)), Return,
           NEW r, Counting(stack, r, refer, rev, cached, dirty)
    PROVE  /\ Counting(stack', r, refer', rev', cached', dirty')
           /\ stack' = <<>> => cached' = cached
<1> DEFINE F == Top
           rest == Tail(stack)
           H == Head(rest)
           low == Tail(rest)
           u == F.ref.directory
           s == Refer(State, u, -1)
           gone == [H EXCEPT !.pc = "leave", !.status = -1]
<1>1. /\ F \in GoodFrames(fs) /\ F \in Frame
      /\ rest \in Seq(GoodFrames(fs)) /\ stack = <<F>> \o rest
  <2>1. stack # <<>>
    BY DEF Return
  <2> QED BY <2>1, TopIsGood DEF GoodFrames, Top
<1>2. /\ Chained(stack, r) /\ Exact(refer, rev, stack) /\ Held(refer, cached, dirty)
      /\ HeldIn(State) /\ State.refer = refer /\ State.rev = rev /\ State.fs = fs
      /\ State.cached = cached /\ State.dirty = dirty
  BY StateHeld, StateIs DEF Counting
<1>3. stack' \in Seq(GoodFrames(fs)) /\ fs' = fs /\ rev' = rev
  BY ReturnKeeps
<1>4. u \in Units \cup {NoUnit}
  <2>1. F.ref \in Starts(fs)
    BY <1>1 DEF GoodFrames
  <2> QED BY <2>1 DEF Starts, Boot, Entry, Ref
<1>5. u # NoUnit => u \in cached
  <2>1. 1 \in DOMAIN stack /\ stack[1] = F
    BY <1>1
  <2> QED BY <1>2, <1>4, <2>1, CountedIsHeld
<1>6. /\ SameFiles(State, s) /\ HeldIn(s) /\ s.cached = cached
      /\ \A w \in Units : s.refer[w] = refer[w] - (IF w = u THEN 1 ELSE 0)
  <2> HIDE DEF F, u
  <2>1. -1 \in Int
    OBVIOUS
  <2>2. /\ SameFiles(State, s) /\ HeldIn(s) /\ s.cached = cached
        /\ \A w \in Units : s.refer[w] = refer[w] + (IF w = u THEN -1 ELSE 0)
    BY <1>2, <1>4, <1>5, <2>1, ReferIs
  <2>3. \A w \in Units : refer[w] + (IF w = u THEN -1 ELSE 0) = refer[w] - (IF w = u THEN 1 ELSE 0)
    BY <1>2 DEF Held
  <2> QED BY <2>2, <2>3
<1>7. \/ rest = <<>> /\ Memory(s) /\ stack' = rest
      \/ rest # <<>> /\ Memory(s) /\ stack' = <<Looped(H)>> \o low
      \/ rest # <<>> /\ Memory(Dismissed(s, H)) /\ stack' = <<gone>> \o low
  BY DEF Return
<1> HIDE DEF s, u, rest, low, H, F
<1>8. Exact(s.refer, rev, rest)
  <2>1. ASSUME NEW w \in Units
        PROVE  s.refer[w] = FramesOn(rest, w) + CountsIn(rev, w)
    <3>1. FramesOn(rest, w) \in Nat /\ CountsIn(rev, w) \in Nat
      BY <1>1, FramesFinite, CountsFinite
    <3>2. refer[w] = FramesOn(rest, w) + CountsIn(rev, w) + (IF u = w THEN 1 ELSE 0)
      BY <1>1, <1>2, ExactPushed DEF u
    <3> QED BY <1>6, <3>1, <3>2
  <2> QED BY <2>1 DEF Exact
<1>9. ASSUME rest # <<>>
      PROVE  /\ H \in GoodFrames(fs) /\ H \in Frame /\ low \in Seq(GoodFrames(fs))
             /\ rest = <<H>> \o low
             /\ Chained(rest, r) /\ H.pc = "entries" /\ H.unit = u
  <2>1. /\ H \in GoodFrames(fs) /\ low \in Seq(GoodFrames(fs)) /\ rest = <<H>> \o low
    BY <1>1, <1>9 DEF H, low
  <2>2. Nested(F, H) /\ Chained(rest, r)
    BY <1>1, <1>2, <1>9, ChainedPush DEF H
  <2> QED BY <2>1, <2>2 DEF Nested, u, Entry, Ref, GoodFrames
<1>10. CASE rest = <<>> /\ Memory(s) /\ stack' = rest
  <2>1. refer' = s.refer /\ cached' = s.cached /\ dirty' = s.dirty
    BY <1>10 DEF Memory
  <2>2. Chained(<<>>, r)
    BY DEF Chained
  <2> QED BY <1>3, <1>6, <1>8, <1>10, <2>1, <2>2 DEF Counting, HeldIn, Scanned
<1>11. CASE rest # <<>> /\ Memory(s) /\ stack' = <<Looped(H)>> \o low
  <2> DEFINE G == Looped(H)
  <2>1. G.ref = H.ref /\ G.start = H.start /\ G.dir = H.dir /\ G.unit = H.unit
    BY <1>9, <1>11 DEF Looped, Frame
  <2> HIDE DEF G
  <2>2. stack' = <<G>> \o low
    BY <1>11 DEF G
  <2>3. Head(stack') = G /\ stack' # <<>>
    BY <2>2
  <2>4. G \in GoodFrames(fs)
    BY <1>3, <2>3
  <2>5. Chained(<<G>> \o low, r) /\ Exact(s.refer, rev, <<G>> \o low)
    <3>1. Chained(<<H>> \o low, r) /\ Exact(s.refer, rev, <<H>> \o low)
      BY <1>8, <1>9, <1>11
    <3>2. H \in GoodFrames(fs) /\ low \in Seq(GoodFrames(fs))
      BY <1>9, <1>11
    <3> HIDE DEF s
    <3> QED BY <2>1, <2>4, <3>1, <3>2, TopReplaced
  <2>6. refer' = s.refer /\ cached' = s.cached /\ dirty' = s.dirty
    BY <1>11 DEF Memory
  <2>7. u # NoUnit
    BY <1>9, <1>11, RefsAssumption DEF GoodFrames, Placed
  <2> QED BY <1>3, <1>5, <1>6, <1>9, <1>11, <2>1, <2>2, <2>3, <2>5, <2>6, <2>7
          DEF Counting, HeldIn, Scanned
<1>12. CASE rest # <<>> /\ Memory(Dismissed(s, H)) /\ stack' = <<gone>> \o low
  <2> DEFINE G == gone
             x == Dismissed(s, H)
  <2>1. G.ref = H.ref /\ G.start = H.start /\ G.dir = H.dir /\ G.pc = "leave"
    BY <1>9, <1>12 DEF Frame
  <2>2. Still(s, x)
    BY <1>6, DismissedStill
  <2> HIDE DEF G, x
  <2>3. stack' = <<G>> \o low
    BY <1>12 DEF G
  <2>4. Head(stack') = G /\ stack' # <<>>
    BY <2>3
  <2>5. G \in GoodFrames(fs)
    BY <1>3, <2>4
  <2>6. Chained(<<G>> \o low, r) /\ Exact(s.refer, rev, <<G>> \o low)
    <3>1. Chained(<<H>> \o low, r) /\ Exact(s.refer, rev, <<H>> \o low)
      BY <1>8, <1>9, <1>12
    <3>2. H \in GoodFrames(fs) /\ low \in Seq(GoodFrames(fs))
      BY <1>9, <1>12
    <3> HIDE DEF s
    <3> QED BY <2>1, <2>5, <3>1, <3>2, TopReplaced
  <2>7. refer' = s.refer /\ Held(refer', cached', dirty')
    BY <1>12, <2>2 DEF Memory, Still, HeldIn, x
  <2> QED BY <1>3, <2>1, <2>3, <2>4, <2>6, <2>7 DEF Counting, Scanned
<1> QED BY <1>7, <1>10, <1>11, <1>12

(* A traversal begins.                                                     *)
LEMMA BeginCounts ==
    ASSUME NEW r \in Starts(fs), Begin(r),
           stack = <<>>, Exact(refer, rev, stack), Held(refer, cached, dirty),
           r.directory # NoUnit => r.directory \in cached
    PROVE  Counting(stack', r, refer', rev', cached', dirty') /\ cached' = cached
<1> DEFINE F == NewFrame(r, r, r)
           u == r.directory
           s == Refer(State, u, 1)
<1>1. F \in GoodFrames(fs) /\ F.ref = r /\ F.start = r /\ F.dir = r /\ F.pc = "self"
  <2>1. F \in GoodFrames(fs)
    BY NewFrameGood
  <2> QED BY <2>1 DEF NewFrame
<1>2. /\ HeldIn(State) /\ State.refer = refer /\ State.rev = rev /\ State.cached = cached
  BY StateHeld, StateIs
<1>3. u \in Units \cup {NoUnit}
  BY DEF Starts, Boot, Entry, Ref
<1>4. Memory(s) /\ stack' = <<F>> \o <<>>
  BY DEF Begin
<1> HIDE DEF F
<1>5. /\ SameFiles(State, s) /\ HeldIn(s) /\ s.cached = cached
      /\ \A w \in Units : s.refer[w] = refer[w] + (IF w = u THEN 1 ELSE 0)
  <2>1. 1 \in Int
    OBVIOUS
  <2>2. u # NoUnit => u \in cached
    OBVIOUS
  <2> HIDE DEF u
  <2> QED BY <1>2, <1>3, <2>1, <2>2, ReferIs
<1> HIDE DEF s
<1>6. rev' = rev /\ refer' = s.refer /\ cached' = cached /\ Held(refer', cached', dirty')
  BY <1>2, <1>4, <1>5 DEF Memory, SameFiles, HeldIn
<1>7. <<>> \in Seq(GoodFrames(fs))
  OBVIOUS
<1>8. Chained(stack', r)
  BY <1>1, <1>4, <1>7, ChainedPush
<1>9. \A w \in Units : refer[w] = FramesOn(<<>>, w) + CountsIn(rev, w)
  BY DEF Exact
<1>10. Exact(refer', rev', stack')
  <2>1. ASSUME NEW w \in Units
        PROVE  refer'[w] = FramesOn(<<>>, w) + CountsIn(rev, w) + (IF F.ref.directory = w THEN 1 ELSE 0)
    BY <1>1, <1>5, <1>6, <1>9
  <2> QED BY <1>1, <1>4, <1>6, <1>7, <2>1, ExactPushed
<1>11. Head(stack') = F
  BY <1>4
<1> QED BY <1>1, <1>6, <1>8, <1>10, <1>11 DEF Counting, Scanned

-----------------------------------------------------------------------------
(* No entry leads to the root directory of FAT12 and FAT16.                *)
LEMMA RootIsOfBoot ==
    ASSUME NEW f \in Filesystems, Sound(f), NEW r \in Links(f), Target(f, r) = FAT_ROOT
    PROVE  r.directory = NoUnit
<1>1. CASE \E u \in Units, i \in Indices : r = Entry(u, i) /\ KindOf(f, r) \in FileKinds
  <2>1. PICK u \in Units, i \in Indices : r = Entry(u, i) /\ KindOf(f, r) \in FileKinds
    BY <1>1
  <2>2. Target(f, r) = f.first[u][i] /\ f.kind[u][i] \in FileKinds
    BY <2>1, LinkTargets DEF KindOf, Entry, Ref
  <2>3. f.first[u][i] \in Clusters
    BY <2>2, LinksLead DEF Numbers
  <2> QED BY <2>2, <2>3, NumbersAre
<1>2. CASE r = Boot \/ \E c \in Clusters : r = Following(c)
  BY <1>2 DEF Boot, Following, Ref
<1> QED BY <1>1, <1>2 DEF Links

(* Making the inverse FAT counts what it writes: the unit of an entry, if  *)
(* the cluster it leads to had no reference.                               *)
LEMMA CreateCounts ==
    ASSUME stack \in Seq(GoodFrames(fs)), Calling, fs \in Filesystems, Sound(fs),
           RevSound(fs, rev),
           NEW base, Counting(stack, base, refer, rev, cached, dirty)
    PROVE  LET a == InverseCreate(State, Pending)
           IN  HeldIn(a.s) /\ Exact(a.s.refer, a.s.rev, stack) /\ a.res \subseteq NORMAL
<1> DEFINE r == Pending.ref
           u == r.directory
           target == Target(fs, r)
           d == Flag(IsDirRef(fs, Pending))
           w == InverseSet(fs, rev, r, d)
           new == [State EXCEPT !.rev = w]
           a == InverseCreate(State, Pending)
<1>1. /\ HeldIn(State) /\ State.refer = refer /\ State.rev = rev /\ State.fs = fs
      /\ State.cached = cached /\ State.dirty = dirty
      /\ Exact(refer, rev, stack) /\ Held(refer, cached, dirty)
  BY StateHeld, StateIs DEF Counting
<1>2. {} \subseteq NORMAL /\ {DELETE} \subseteq NORMAL
  BY DEF NORMAL
<1>3. HeldIn(new) /\ new.refer = refer /\ new.rev = w /\ new.cached = cached /\ new.dirty = dirty
  BY <1>1 DEF State, HeldIn, IsState, Fields
<1> HIDE DEF new
<1>4. \/ a.s = State /\ a.res \in {{}, {DELETE}}
      \/ /\ ~ IsDotFile(fs, r) /\ a.res = NORMAL
         /\ target >= FAT_FIRST => rev[target].ref = Void
         /\ a.s = IF target < FAT_ROOT THEN new ELSE Refer(new, u, 1)
  BY StateIs DEF InverseCreate, Answer, new
<1>5. CASE a.s = State /\ a.res \in {{}, {DELETE}}
  BY <1>1, <1>2, <1>5
<1>6. CASE /\ ~ IsDotFile(fs, r) /\ a.res = NORMAL
           /\ target >= FAT_FIRST => rev[target].ref = Void
           /\ a.s = IF target < FAT_ROOT THEN new ELSE Refer(new, u, 1)
  <2>1. CASE target < FAT_ROOT
    <3>1. w = rev
      BY <2>1 DEF InverseSet
    <3> QED BY <1>1, <1>3, <1>6, <2>1, <3>1
  <2>2. CASE ~ (target < FAT_ROOT)
    <3>1. r \in Called(fs)
      BY PendingIs
    <3>2. target \in Int
      <4>1. CASE r \in Starts(fs)
        BY <4>1, TargetIsInt
      <4>2. CASE r \notin Starts(fs)
        BY <3>1, <4>2, FollowingTarget DEF Called
      <4> QED BY <4>1, <4>2
    <3>3. target >= FAT_ROOT
      BY <2>2, <3>2, SMTT(30) DEF FAT_ROOT
    <3>4. r \in Links(fs) /\ target \in Numbers
      BY <1>6, <3>1, <3>3, FollowedIsLink DEF Called
    <3>5. u \in Units \cup {NoUnit}
      <4> HIDE DEF r
      <4> QED BY <3>4 DEF Links, Boot, Following, Entry, Ref
    <3>6. u # NoUnit => u \in cached
      <4>1. r = Top.ref \/ r = Following(Top.scan)
        <5>1. Top.pc \in Pcs \ {"entries", "end"}
          BY TopIsGood DEF Calling, GoodFrames, Frame
        <5> QED BY <5>1 DEF Pending, Call, Pcs
      <4>2. 1 \in DOMAIN stack /\ stack[1] = Top
        BY DEF Calling, Top
      <4>3. Top.ref.directory \in Units => Top.ref.directory \in cached
        BY <1>1, <4>2, CountedIsHeld
      <4>4. Following(Top.scan).directory = NoUnit
        BY DEF Following, Ref
      <4> HIDE DEF r
      <4> QED BY <3>5, <4>1, <4>3, <4>4
    <3>7. /\ rev[target].ref.directory = NoUnit
          /\ target \notin Clusters => u = NoUnit
      <4>1. Void.directory = NoUnit
        BY DEF Void, Ref
      <4>2. CASE target \in Clusters
        BY <1>6, <4>1, <4>2, NumbersAre
      <4>3. CASE target = FAT_ROOT
        <5>1. Points(fs, rev, target)
          BY <3>4 DEF RevSound
        <5> HIDE DEF r
        <5>2. u = NoUnit
          BY <3>4, <4>3, RootIsOfBoot
        <5>3. rev[target].ref # Void => rev[target].ref.directory = NoUnit
          BY <4>3, <5>1, RootIsOfBoot DEF Points
        <5> QED BY <4>1, <4>3, <5>2, <5>3, NumbersAre
      <4> HIDE DEF target, u
      <4> QED BY <3>4, <4>2, <4>3 DEF Numbers
    <3>8. /\ w[target].ref = r
          /\ \A c \in Clusters : c # target => w[c].ref = rev[c].ref
      <4>1. rev \in InverseFats
        BY DEF RevSound
      <4> HIDE DEF r, d
      <4> QED BY <2>2, <3>4, <4>1 DEF InverseSet, InversePair, InverseFats, Numbers
    <3> HIDE DEF w, target, r, d
    <3>9. a.s = Refer(new, u, 1)
      BY <1>6, <2>2
    <3>10. /\ HeldIn(a.s) /\ a.s.rev = w
           /\ \A x \in Units : a.s.refer[x] = refer[x] + (IF x = u THEN 1 ELSE 0)
      <4>1. 1 \in Int
        OBVIOUS
      <4> DEFINE z == Refer(new, u, 1)
      <4> HIDE DEF u
      <4>2. /\ SameFiles(new, z) /\ HeldIn(z)
            /\ \A x \in Units : z.refer[x] = refer[x] + (IF x = u THEN 1 ELSE 0)
        BY <1>3, <3>5, <3>6, <4>1, ReferIs
      <4> HIDE DEF a, z
      <4> QED BY <1>3, <3>9, <4>2 DEF z, SameFiles
    <3> HIDE DEF a, u
    <3>11. ASSUME NEW x \in Units
           PROVE  a.s.refer[x] = FramesOn(stack, x) + CountsIn(a.s.rev, x)
      <4>1. CountsIn(w, x) = CountsIn(rev, x)
              + (IF target \in Clusters /\ w[target].ref.directory = x THEN 1 ELSE 0)
        BY <3>7, <3>8, CountsAdd
      <4>2. (target \in Clusters /\ w[target].ref.directory = x) <=> x = u
        BY <3>7, <3>8, RefsAssumption DEF u
      <4>3. CountsIn(w, x) = CountsIn(rev, x) + (IF x = u THEN 1 ELSE 0)
        BY <4>1, <4>2
      <4>4. refer[x] = FramesOn(stack, x) + CountsIn(rev, x)
        BY <1>1 DEF Exact
      <4>5. FramesOn(stack, x) \in Nat /\ CountsIn(rev, x) \in Nat
        BY FramesFinite, CountsFinite
      <4> QED BY <3>10, <4>3, <4>4, <4>5
    <3>12. HeldIn(a.s) /\ Exact(a.s.refer, a.s.rev, stack) /\ a.res \subseteq NORMAL
      BY <1>6, <3>10, <3>11 DEF Exact
    <3> QED BY <3>12 DEF a
  <2> QED BY <2>1, <2>2
<1> QED BY <1>4, <1>5, <1>6

-----------------------------------------------------------------------------
(* While the clusters are counted and the inverse FAT is made, what is     *)
(* counted is what is pointed to; if the command is refused, nothing.      *)
Makes  == {"count", "create"}
MadeOf == IF phase = "create" THEN Boot ELSE request.ref

Making ==
    /\ phase \in Makes => Counting(stack, MadeOf, refer, rev, cached, dirty)
    /\ phase = "count" => \A c \in Clusters : rev[c].ref = Void
    /\ phase = "refused" => stack = <<>> /\ \A u \in Units : refer[u] = 0

LEMMA InitMaking == Init => Making
<1> SUFFICES ASSUME Init
             PROVE  Making
  OBVIOUS
<1> DEFINE r == request.ref
           F == NewFrame(r, r, r)
           q == r.directory
<1>1. Unchanging
  BY InitUnchanging
<1>2. r \in Starts(fs) /\ q \in Units \cup {NoUnit}
  BY <1>1 DEF Unchanging, Starts, Boot, Entry, Ref
<1>3. /\ F \in GoodFrames(fs) /\ F.ref = r /\ F.start = r /\ F.dir = r /\ F.pc = "self"
  <2>1. F \in GoodFrames(fs)
    BY <1>2, NewFrameGood
  <2> QED BY <2>1 DEF NewFrame
<1>4. stack = <<F>> \o <<>> /\ <<>> \in Seq(GoodFrames(fs)) /\ Head(stack) = F
  BY DEF Init
<1>5. /\ refer = [u \in Units |-> IF u = q THEN 1 ELSE 0]
      /\ cached = {q} \ {NoUnit} /\ dirty = {}
      /\ \A c \in Clusters : rev[c].ref = Void
  BY DEF Init, NoInverse, InversePair
<1>6. /\ phase \in Makes
      /\ phase = "create" => r = Boot
  <2>1. request \in Requests /\ phase = IF request.option = "defragment" THEN "create" ELSE "count"
    BY DEF Init
  <2>2. request.option = "defragment" => IsBoot(r) /\ r.directory = NoUnit
    BY <2>1, RequestsAssumption DEF OfRoot, IsBoot, IsEntry
  <2>3. \A u \in Units, i \in Indices : Entry(u, i).directory # NoUnit
    BY RefsAssumption DEF Entry, Ref
  <2> QED BY <1>2, <2>1, <2>2, <2>3 DEF Starts, Makes
<1> HIDE DEF F
<1>7. Chained(stack, r)
  BY <1>3, <1>4, ChainedPush
<1>8. Exact(refer, rev, stack)
  <2>1. ASSUME NEW w \in Units
        PROVE  refer[w] = FramesOn(<<>>, w) + CountsIn(rev, w) + (IF F.ref.directory = w THEN 1 ELSE 0)
    <3>1. {c \in Clusters : rev[c].ref.directory = w} = {}
      BY <1>5, RefsAssumption DEF Void, Ref
    <3>2. CountsIn(rev, w) = 0
      BY <3>1, FS_EmptySet DEF CountsIn
    <3> QED BY <1>3, <1>5, <3>2, NoFrames
  <2> QED BY <1>3, <1>4, <2>1, ExactPushed
<1>9. Held(refer, cached, dirty)
  BY <1>2, <1>5, RefsAssumption DEF Held
<1>10. Scanned(stack, cached)
  BY <1>3, <1>4 DEF Scanned
<1>11. MadeOf = r
  BY <1>6 DEF MadeOf
<1> QED BY <1>5, <1>6, <1>7, <1>8, <1>9, <1>10, <1>11 DEF Making, Counting, Makes

(* What a traversal does between calls.                                    *)
LEMMA TraversingMakes ==
    ASSUME Unchanging, Making, Traversing
    PROVE  Making'
<1>1. /\ fs \in Filesystems /\ Sound(fs) /\ stack \in Seq(GoodFrames(fs))
      /\ UNCHANGED <<phase, request>>
  BY DEF Unchanging, Traversing, defragmentstruct
<1>2. rev' = rev
  BY <1>1, AdvanceKeeps, ReturnKeeps DEF Traversing
<1>3. MadeOf' = MadeOf
  BY <1>1 DEF MadeOf
<1>4. phase \in Makes => Counting(stack, MadeOf, refer, rev, cached, dirty)
  BY DEF Making
<1>5. phase \in Makes => Counting(stack', MadeOf, refer', rev', cached', dirty')
  BY <1>1, <1>4, AdvanceCounts, ReturnCounts DEF Traversing
<1>6. phase # "refused"
  BY DEF Traversing, Advance, Return, Making
<1> QED BY <1>1, <1>2, <1>3, <1>5, <1>6 DEF Making

LEMMA CallCountMakes ==
    ASSUME Unchanging, Making, CallCount
    PROVE  Making'
<1>1. /\ fs \in Filesystems /\ Sound(fs) /\ stack \in Seq(GoodFrames(fs)) /\ Calling
      /\ phase = "count" /\ UNCHANGED <<phase, request>>
  BY DEF Unchanging, CallCount
<1>2. PICK res : res \subseteq NORMAL /\ Returned(State, res)
  <2>1. {} \subseteq NORMAL /\ {DELETE} \subseteq NORMAL /\ \A recur : Cond(recur) \subseteq NORMAL
    BY DEF NORMAL, Cond
  <2> QED BY <2>1 DEF CallCount
<1>3. Counting(stack, MadeOf, refer, rev, cached, dirty)
  BY <1>1 DEF Making, Makes
<1>4. /\ HeldIn(State) /\ State.refer = refer /\ State.rev = rev
      /\ Chained(stack, MadeOf) /\ Exact(refer, rev, stack)
  BY <1>3, StateHeld, StateIs DEF Counting
<1>5. Renamed(fs, State.fs, FAT_FIRST, FAT_FIRST)
  BY <1>1, Kept
<1>6. Counting(stack', MadeOf, refer', rev', cached', dirty')
  BY <1>1, <1>2, <1>4, <1>5, CallCounts
<1>7. rev' = rev
  <2>1. NoAll(res)
    BY <1>2 DEF NoAll, NORMAL, Flags, CHAIN, RECUR, DELETE, ALL
  <2> QED BY <1>1, <1>2, <1>5, <2>1, StateIs, CallReturned
<1>8. MadeOf' = MadeOf
  BY <1>1 DEF MadeOf
<1> QED BY <1>1, <1>6, <1>7, <1>8 DEF Making

LEMMA ChooseMakes ==
    ASSUME Unchanging, Making, Choose
    PROVE  Making'
<1>1. /\ phase = "count" /\ stack = <<>>
      /\ \/ phase' = "refused" /\ UNCHANGED <<memory, traversal>>
         \/ phase' = "create" /\ Begin(Boot)
  BY DEF Choose
<1>2. /\ Exact(refer, rev, stack) /\ Held(refer, cached, dirty)
      /\ \A c \in Clusters : rev[c].ref = Void
  BY <1>1 DEF Making, Makes, Counting
<1>3. CASE phase' = "refused" /\ UNCHANGED <<memory, traversal>>
  <2>1. ASSUME NEW w \in Units
        PROVE  refer[w] = 0
    <3>1. {c \in Clusters : rev[c].ref.directory = w} = {}
      BY <1>2, RefsAssumption DEF Void, Ref
    <3>2. CountsIn(rev, w) = 0
      BY <3>1, FS_EmptySet DEF CountsIn
    <3>3. FramesOn(stack, w) = 0
      BY <1>1, NoFrames
    <3> QED BY <1>2, <3>2, <3>3 DEF Exact
  <2> QED BY <1>1, <1>3, <2>1 DEF Making, Makes, memory, traversal
<1>4. CASE phase' = "create" /\ Begin(Boot)
  <2>1. Boot \in Starts(fs) /\ Boot.directory = NoUnit
    BY DEF Starts, Boot, Ref
  <2>2. Counting(stack', Boot, refer', rev', cached', dirty')
    BY <1>1, <1>2, <1>4, <2>1, BeginCounts
  <2>3. MadeOf' = Boot
    BY <1>4 DEF MadeOf
  <2> QED BY <1>4, <2>2, <2>3 DEF Making
<1> QED BY <1>1, <1>3, <1>4

LEMMA CallCreateMakes ==
    ASSUME Unchanging, Making, CallCreate
    PROVE  Making'
<1> DEFINE a == InverseCreate(State, Pending)
<1>1. /\ fs \in Filesystems /\ Sound(fs) /\ stack \in Seq(GoodFrames(fs)) /\ Calling
      /\ RevSound(fs, rev) /\ phase = "create" /\ phase' = phase
  BY DEF Unchanging, CallCreate
<1>2. Counting(stack, Boot, refer, rev, cached, dirty) /\ Chained(stack, Boot)
  BY <1>1 DEF Making, Makes, MadeOf, Counting
<1>3. HeldIn(a.s) /\ Exact(a.s.refer, a.s.rev, stack) /\ a.res \subseteq NORMAL
  BY <1>1, <1>2, CreateCounts
<1>4. a.s.fs = fs
  BY <1>1, CreateIsSound
<1>5. Returned(a.s, a.res)
  BY DEF CallCreate
<1>6. Renamed(fs, a.s.fs, FAT_FIRST, FAT_FIRST)
  <2> HIDE DEF a
  <2> QED BY <1>1, <1>4, FirstIsCluster, KeptIsRenamed
<1> HIDE DEF a
<1>7. Counting(stack', Boot, refer', rev', cached', dirty')
  BY <1>1, <1>2, <1>3, <1>5, <1>6, CallCounts
<1>8. MadeOf' = Boot
  BY <1>1 DEF MadeOf
<1> QED BY <1>1, <1>7, <1>8 DEF Making

LEMMA OthersMake ==
    ASSUME Unchanging, Making,
           \/ Created \/ CallDefragment \/ Ran \/ CallFixDot \/ Fixed \/ Finish \/ Signal
           \/ UNCHANGED vars
    PROVE  Making'
<1>1. CASE UNCHANGED vars
  BY <1>1 DEF Making, MadeOf, vars, memory, traversal, defragmentstruct
<1>2. CASE Created \/ CallDefragment \/ Ran \/ CallFixDot \/ Fixed \/ Finish \/ Signal
  <2>1. phase' \in Phases \ {"count", "create", "refused"}
    BY <1>2 DEF Created, CallDefragment, Ran, CallFixDot, Fixed, Finish, Signal, Phases, Ended
  <2> QED BY <2>1 DEF Making, Makes
<1> QED BY <1>1, <1>2

LEMMA MakingInvariant == Spec => []Making
<1>1. Init => Making
  BY InitMaking
<1>2. Unchanging /\ Making /\ [Next]_vars => Making'
  BY TraversingMakes, CallCountMakes, ChooseMakes, CallCreateMakes, OthersMake DEF Next, Work
<1> QED BY <1>1, <1>2, Invariance, PTL DEF Spec

(* What the usage counters of the units say while the clusters are counted *)
(* and the inverse FAT is made: how many frames and references of the      *)
(* inverse FAT are in each unit, so none that is pointed to can be deleted *)
(* from the cache; and a command that is refused leaves nothing counted.   *)
CountedWhileMade ==
    /\ phase \in Makes =>
          /\ refer \in [Units -> Nat] /\ Exact(refer, rev, stack)
          /\ NoDangling /\ InversePointers \subseteq cached
    /\ phase = "refused" => \A u \in Units : refer[u] = 0

(* fatreferenceexecute() and fatinversecreate() count each pointer once    *)
(* and give it back once, whatever cannot be read: no unit is deleted      *)
(* while a pointer to it is still followed.                                *)
THEOREM MadeAsCounted == Spec => []CountedWhileMade
<1>1. Unchanging /\ Making => CountedWhileMade
  <2> SUFFICES ASSUME Unchanging, Making
               PROVE  CountedWhileMade
    OBVIOUS
  <2>1. stack \in Seq(GoodFrames(fs)) /\ rev \in InverseFats
    BY DEF Unchanging, RevSound
  <2>2. ASSUME phase \in Makes
        PROVE  /\ refer \in [Units -> Nat] /\ Exact(refer, rev, stack)
               /\ NoDangling /\ InversePointers \subseteq cached
    <3>1. /\ Chained(stack, MadeOf) /\ Exact(refer, rev, stack)
          /\ Held(refer, cached, dirty) /\ Scanned(stack, cached)
      BY <2>2 DEF Making, Counting
    <3>2. NoDangling
      BY <2>1, <3>1, NothingIsDangling
    <3>3. /\ refer \in [Units -> Nat]
          /\ \A u \in Units, c \in Clusters : rev[c].ref.directory = u => u \in cached
      BY <2>1, <3>1, CountedIsHeld
    <3>4. \A c \in Clusters : rev[c].ref.directory \in Units \cup {NoUnit}
      <4>1. \A c \in Clusters : rev[c].ref \in References
        BY <2>1 DEF InverseFats
      <4> QED BY <4>1 DEF References, Boot, Void, Entry, Following, Ref
    <3> QED BY <3>1, <3>2, <3>3, <3>4 DEF InversePointers
  <2> QED BY <2>2 DEF CountedWhileMade, Making
<1> QED BY <1>1, Invariance, MakingInvariant, PTL
=============================================================================
