------------------------------ MODULE MoveArea ------------------------------
(***************************************************************************)
(* fatmovearea() and fatcompact() of lib/complex.c: each cluster found in  *)
(* an area is moved to the first free cluster of another.  No inverse FAT  *)
(* is needed, so a directory is only kept in the cache by the traversal.   *)
(***************************************************************************)
EXTENDS Traverse

CONSTANTS
    Requests,     \* arguments: the two areas
    Signals       \* may SIGINT or SIGTERM arrive?

(* The search in an area of one cluster may never end.                     *)
ASSUME AreasAssumption ==
    \A q \in Requests : /\ q.srcbegin \in Clusters /\ q.srcend \in Clusters
                        /\ q.dstbegin \in Clusters /\ q.dstend \in Clusters
                        /\ q.dstbegin # q.dstend

(* Chains may have bad clusters, but none is shared by two files, or free. *)
ASSUME RootsAssumption == \A f \in Roots : f \in Filesystems /\ Sound(f)

VARIABLES
    phase,
    request,
    last,         \* f->last: where a free cluster was last found
    dirmoved,     \* s->dirmoved
    killed,       \* set by a signal (-1) or by an error (1)
    original      \* the filesystem at the beginning

moveareastruct == <<request, dirmoved>>
vars == <<memory, disk, traversal, phase, last, moveareastruct, killed, original>>

(* The type of the state.                                                  *)
TypeOK ==
    /\ fs \in Filesystems
    /\ refer \in [Units -> Nat]
    /\ cached \subseteq Units /\ dirty \subseteq cached
    /\ \A k \in DOMAIN stack : stack[k] \in Frame
    /\ status \in {0, -1}
    /\ phase \in {"run", "fix", "flush", "done"}
    /\ last \in Clusters /\ dirmoved \in BOOLEAN /\ killed \in {-1, 0, 1}

Init ==
    /\ fs \in Roots
    /\ original = fs
    /\ rev = [c \in Clusters \cup {FAT_ROOT} |-> NoInverse]
    /\ refer = [u \in Units |-> 0]
    /\ cached = {} /\ dirty = {}
    /\ unreadable \in BadReads /\ unwritable \in BadWrites
    /\ stack = <<NewFrame(Boot, Boot, Boot)>> /\ status = 0
    /\ phase = "run"
    /\ request \in Requests
    /\ last = request.dstbegin
    /\ dirmoved = FALSE /\ killed = 0

-----------------------------------------------------------------------------
(* lib/table.c: areas of clusters that go on from the first after the      *)
(* last.  An area of one cluster is taken as all.                          *)
IsBetween(c, begin, end) ==
    /\ begin < end => c \in begin .. end
    /\ begin > end => c >= begin \/ c <= end

(* Steps from one cluster to another, going on from the first after the    *)
(* last.                                                                   *)
Distance(from, to) == (to - from) % (Last - FAT_FIRST + 1)

(* fatclusterfindfreebetween(): the first free cluster of the area, in a   *)
(* circle from f->last.                                                    *)
FindFreeAfter(f, begin, end, start) ==
    LET found == {c \in start .. Last : IsBetween(c, begin, end)
                                          /\ NextCluster(f, c) = FAT_UNUSED}
    IN  IF found = {} THEN FAT_ERR
        ELSE CHOOSE c \in found : \A d \in found : c <= d

FindFree(f, begin, end, start) ==
    LET size  == Distance(begin, end) + 1
        first == IF IsBetween(start, begin, end) THEN Distance(begin, start) ELSE 0
        steps(c) == (Distance(begin, c) - first) % size
        found == {c \in Clusters : IsBetween(c, begin, end)
                                      /\ NextCluster(f, c) = FAT_UNUSED}
    IN  IF found = {} THEN FAT_ERR
        ELSE CHOOSE c \in found : \A d \in found : steps(c) <= steps(d)

-----------------------------------------------------------------------------
Step(s, dest, moved, kill, res) ==
    [s |-> s, last |-> IF dest = FAT_ERR THEN last ELSE dest, dirmoved |-> moved,
     killed |-> kill, res |-> res]

(* The cluster is moved, written, and may be deleted from the cache.       *)
MoveTo(s, call, dest) ==
    LET r == call.ref
        target == Target(s.fs, r)
        u == s.fs.at[target]
        m == ClusterMove(s.fs, r, dest, CannotRead(s), unwritable)
        rd == ReadInto(s, target)
        new == [rd EXCEPT !.fs = m.fs, !.dirty = @ \ {u}]
        entry == IF IsEntry(r) THEN Touched(new, r.directory) ELSE new
    IN  CASE m.res = -2 -> Step(s, dest, dirmoved, 1, {})
          [] m.res = -5 ->
               Step([rd EXCEPT !.dirty = @ \cup {u}], dest, dirmoved, 1, {})
          [] m.res = 0  ->
               Step(Deleted(entry, u), dest, dirmoved \/ IsDirectory(s.fs, r),
                    killed, NORMAL)

(* _fatmovearea(), on a call in any direction.                             *)
Callback(s, call) ==
    LET r == call.ref
        target == Target(s.fs, r)
        dest == FindFree(s.fs, request.dstbegin, request.dstend, last)
        keep(t, res) == Step(t, last, dirmoved, killed, res)
        compacted == IsBetween(target, request.dstbegin, request.dstend)
                       /\ dest > target
    IN  IF killed # 0 THEN keep(s, {})
        ELSE IF IsBoot(r) /\ s.fs.root = FAT_ROOT THEN keep(s, NORMAL)
        ELSE IF target < FAT_FIRST THEN keep(s, NORMAL)
        ELSE IF NextCluster(s.fs, target) = FAT_BAD
             THEN keep(TargetSet(s, r, FAT_EOF), {})
        ELSE IF IsDotFile(s.fs, r) THEN keep(FixedDot(s, call), {})
        ELSE IF ~ IsBetween(target, request.srcbegin, request.srcend)
             THEN keep(s, NORMAL)
        ELSE IF dest = FAT_ERR THEN Step(s, FAT_ERR, dirmoved, killed, {})
        ELSE IF compacted THEN Step(s, dest, dirmoved, killed, NORMAL)
        ELSE MoveTo(s, call, dest)

CallMoveArea ==
    /\ phase = "run" /\ Calling
    /\ \E a \in {Callback(State, Pending)} :
           /\ Returned(a.s, a.res)
           /\ last' = a.last /\ dirmoved' = a.dirmoved /\ killed' = a.killed
    /\ UNCHANGED <<disk, phase, request, original>>

Ran ==
    /\ phase = "run" /\ stack = <<>>
    /\ IF killed # 0 /\ dirmoved THEN phase' = "fix" /\ Begin(Boot)
       ELSE phase' = "flush" /\ UNCHANGED <<memory, traversal>>
    /\ UNCHANGED <<disk, last, moveareastruct, killed, original>>

CallFixDot ==
    /\ phase = "fix" /\ Calling
    /\ FixDot
    /\ UNCHANGED <<disk, phase, last, moveareastruct, killed, original>>

Fixed ==
    /\ phase = "fix" /\ stack = <<>>
    /\ phase' = "flush"
    /\ UNCHANGED <<memory, disk, traversal, last, moveareastruct, killed, original>>

Finish ==
    /\ phase = "flush"
    /\ Memory(WrittenBack(State, dirty))
    /\ phase' = "done"
    /\ UNCHANGED <<disk, traversal, last, moveareastruct, killed, original>>

Signal ==
    /\ Signals /\ killed = 0 /\ phase \in {"run", "fix"}
    /\ killed' = -1
    /\ UNCHANGED <<memory, disk, traversal, phase, last, moveareastruct, original>>

Traversing == /\ Advance \/ Return
              /\ UNCHANGED <<disk, phase, last, moveareastruct, killed, original>>

Work == CallMoveArea \/ Ran \/ CallFixDot \/ Fixed \/ Finish \/ Traversing

-----------------------------------------------------------------------------
(* Do files have the contents they had?  Does one have a bad cluster?      *)
FilesUnchanged == Files(fs) = Files(original)
FilesBad(f) == \E c \in Reachable(f) : NextCluster(f, c) = FAT_BAD

Succeeded == phase = "done" /\ killed = 0 /\ status = 0

InSource(c)      == IsBetween(c, request.srcbegin, request.srcend)
InDestination(c) == IsBetween(c, request.dstbegin, request.dstend)

Left(f) == {c \in Reachable(f) \cap Clusters : InSource(c) /\ ~ InDestination(c)}
Room(f) == {c \in Clusters : InDestination(c) /\ f.next[c] = FAT_UNUSED}
RoomForAll == Cardinality(Left(original)) <= Cardinality(Room(original))

(* Unless something failed or there was no room, no cluster that can be    *)
(* reached is left in the source area (and out of the destination).        *)
Emptied == Succeeded /\ RoomForAll => Left(fs) = {}

Area == request.dstbegin .. request.dstend
Compacting == /\ request.srcbegin = request.dstbegin
              /\ request.srcend = request.dstend
              /\ request.dstbegin < request.dstend

(* Compacting leaves no free cluster before a cluster that can be reached. *)
Compacted ==
    Succeeded /\ Compacting =>
       \A c \in Reachable(fs) \cap Area, n \in Area :
          fs.next[n] = FAT_UNUSED => c < n

(* The clusters go where they were asked to.                               *)
AreaEmptied == Emptied /\ Compacted

(* The dot files follow the directories, and are fixed after a signal or   *)
(* an error, unless there was no room or a directory has a bad cluster: it *)
(* is not entered then.                                                    *)
DotsFollow ==
    phase = "done" /\ RoomForAll /\ unreadable = {} /\ DotsRight(original)
       => DotsRight(fs) \/ FilesBad(original)
=============================================================================
