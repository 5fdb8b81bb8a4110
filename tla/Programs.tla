------------------------------ MODULE Programs ------------------------------
(***************************************************************************)
(* Programs that run one traversal after another: tools/fatshrink.c, which *)
(* empties the end of the filesystem by moving clusters (MoveArea) and     *)
(* then cuts what is left there (Truncate); the commands of fattool.c that *)
(* mend a filesystem (Repair): cutbad, then unreachable fix; its command   *)
(* hole, which empties an area and marks it as bad; and tools/fatbackup.c. *)
(***************************************************************************)
EXTENDS MoveArea, Truncate, Repair, Backup

(* A request has also the fields                                           *)
(*    program            movearea, shrink, repair, hole or backup          *)
(*    move, truncate     options -m and -t of fatshrink                    *)
(* The area that fatshrink empties is the end of the filesystem; a hole is *)
(* emptied into all that is not in it.                                     *)
NextOf(c) == IF c = Last THEN FAT_FIRST ELSE c + 1

ASSUME ProgramsAssumption ==
    \A q \in Requests :
        /\ q.program \in {"movearea", "shrink", "repair", "hole", "backup"}
        /\ q.move \in BOOLEAN /\ q.truncate \in BOOLEAN
        /\ q.program = "shrink" =>
              /\ q.dstbegin = FAT_FIRST /\ q.srcbegin = q.dstend + 1
              /\ q.srcend = Last
        /\ q.program = "hole" =>
              q.dstbegin = NextOf(q.srcend) /\ NextOf(q.dstend) = q.srcbegin

VARIABLES
    stage,        \* what the program is doing
    user,         \* the struct of the callback
    sizes,        \* size of each directory entry, in clusters
    before        \* ghost: the filesystem when the cut began

program == <<stage, user, sizes, before>>
allvars == <<vars, program>>

Ended  == {"end", "truncated", "refused", "killed", "holed", "saved"}
Stages == {"check", "move", "cut", "cutbad", "unreachable", "backup"} \cup Ended

bound == request.dstend

(* The type of the state; what is dirty is in the cache, and entries lead  *)
(* to clusters, whatever was cut.                                          *)
ProgramsTypeOK ==
    /\ TypeOK
    /\ stage \in Stages
    /\ user \in truncatestruct \cup cutbadstruct \cup backupstruct
    /\ sizes \in [Units -> [Indices -> 0 .. Last]]
    /\ before \in Filesystems

(* The chain from a reference, and the sizes that are right.               *)
ClustersFrom(f, r) == ChainFrom(f, {Target(f, r)}) \cap Clusters
SizesOf(f) ==
    [u \in Units |-> [i \in Indices |->
        IF f.kind[u][i] = "file" THEN Cardinality(ClustersFrom(f, Entry(u, i)))
        ELSE 0]]

ProgramsInit ==
    /\ Init
    /\ stage = CASE request.program \in {"movearea", "hole"} -> "move"
                 [] request.program = "shrink" -> "check"
                 [] request.program = "repair" -> "cutbad"
                 [] request.program = "backup" -> "backup"
    /\ user = CASE request.program = "repair" -> NoneBad
                [] request.program = "backup" -> NothingCopied
                [] OTHER -> NoCut
    /\ sizes = SizesOf(fs)
    /\ before = fs

Full == [fs |-> fs, rev |-> rev, refer |-> refer, cached |-> cached,
         dirty |-> dirty, user |-> user, sizes |-> sizes,
         dead |-> FALSE, smashed |-> FALSE]

same == <<disk, phase, last, moveareastruct, killed, original>>

-----------------------------------------------------------------------------
Moving ==
    /\ stage = "move"
    /\ Work
    /\ UNCHANGED program

Interrupt ==
    /\ stage = "move"
    /\ Signal
    /\ UNCHANGED program

(* main() of fatshrink: fatclusterfindallocated() on the area to be left   *)
(* out, before moving the clusters and after.  A move that was interrupted *)
(* or failed is not told from one that had no room.                        *)
Allocated ==
    \E c \in Clusters :
        /\ IF request.srcbegin = request.srcend THEN c = request.srcbegin
           ELSE IsBetween(c, request.srcbegin, request.srcend)
        /\ NextCluster(fs, c) \notin {FAT_UNUSED, FAT_BAD}

GoTo(s) ==
    /\ stage' = s
    /\ UNCHANGED <<memory, traversal, same, user, sizes, before>>

CutOrRefuse ==
    IF request.truncate
    THEN /\ stage' = "cut"
         /\ Begin(Boot)
         /\ before' = fs
         /\ UNCHANGED <<same, user, sizes>>
    ELSE GoTo("refused")

Check ==
    /\ stage = "check"
    /\ IF ~ Allocated         THEN GoTo("end")
       ELSE IF request.move THEN GoTo("move")
       ELSE CutOrRefuse

CheckAgain ==
    /\ stage = "move" /\ phase = "done" /\ request.program # "hole"
    /\ IF request.program = "movearea" \/ ~ Allocated THEN GoTo("end")
       ELSE CutOrRefuse

(* The command hole marks the area, if nothing is left there; one that     *)
(* goes on from the first cluster is emptied and not marked.               *)
Marked == [fs EXCEPT !.next = [c \in Clusters |->
              IF c \in request.srcbegin .. request.srcend THEN FAT_BAD ELSE @[c]]]

Hole ==
    /\ stage = "move" /\ phase = "done" /\ request.program = "hole"
    /\ stage' = IF Allocated THEN "refused" ELSE "holed"
    /\ Memory([State EXCEPT !.fs = IF Allocated THEN fs ELSE Marked])
    /\ UNCHANGED <<traversal, same, user, sizes, before>>

-----------------------------------------------------------------------------
(* What a callback did; it may be the end of the program.                  *)
Did(a) ==
    \/ /\ a.s.dead \/ a.s.smashed
       /\ GoTo("killed")
    \/ /\ ~ a.s.dead
       /\ Returned(a.s, a.res)
       /\ user' = a.s.user /\ sizes' = a.s.sizes
       /\ UNCHANGED <<stage, same, before>>

CallTruncate ==
    /\ stage = "cut" /\ Calling
    /\ \E a \in {Truncated(Full, Pending, bound)} : Did(a)

CallCutBad ==
    /\ stage = "cutbad" /\ Calling
    /\ \E a \in {CutBad(Full, Pending)} : Did(a)

CallCreate ==
    /\ stage = "unreachable" /\ Calling
    /\ \E a \in {InverseCreate(Full, Pending)} : Did(a)

CallCopy ==
    /\ stage = "backup" /\ Calling
    /\ \E a \in {CopyDirectory(Full, Pending)} : Did(a)

Traversal ==
    /\ stage \in {"cut", "cutbad", "unreachable", "backup"}
    /\ Advance \/ Return
    /\ UNCHANGED <<same, program>>

Flushed(s) ==
    /\ Memory(WrittenBack(s, s.dirty))
    /\ UNCHANGED <<traversal, same, user, sizes, before>>

(* fatuflush(), and the number of sectors is changed.                      *)
Truncation ==
    /\ stage = "cut" /\ stack = <<>>
    /\ stage' = "truncated"
    /\ Flushed(State)

(* cutbad itself looks for the unreachable clusters and frees none: its    *)
(* call has fix 0.  The command unreachable fix is given next, if all      *)
(* could be written.                                                       *)
BadCut ==
    /\ stage = "cutbad" /\ stack = <<>>
    /\ LET s == WrittenBack(State, dirty)
           next == [s EXCEPT !.cached = {}]
       IN  IF s.dirty = {}
           THEN /\ stage' = "unreachable"
                /\ Memory(next)
                /\ stack' = <<NewFrame(Boot, Boot, Boot)>> /\ status' = 0
                /\ UNCHANGED <<same, user, sizes, before>>
           ELSE stage' = "end" /\ Flushed(State)

(* Nothing is freed if the inverse FAT could not be made.                  *)
Unreachable ==
    /\ stage = "unreachable" /\ stack = <<>>
    /\ stage' = "end"
    /\ Flushed(IF status = 0 THEN UnreachedFreed(State) ELSE State)

(* Nothing is written in the filesystem that is copied.                    *)
Copy ==
    /\ stage = "backup" /\ stack = <<>>
    /\ GoTo("saved")

ProgramsWork ==
    \/ Moving \/ Check \/ CheckAgain \/ Hole \/ CallTruncate \/ CallCutBad
    \/ CallCreate \/ CallCopy \/ Traversal \/ Truncation \/ BadCut \/ Unreachable
    \/ Copy

ProgramsNext == ProgramsWork \/ Interrupt

ProgramsSpec == ProgramsInit /\ [][ProgramsNext]_allvars /\ WF_allvars(ProgramsWork)

-----------------------------------------------------------------------------
(* Moving clusters changes no file, whatever ends it, and a program that   *)
(* refuses to shrink or to make a hole has changed none, nor has a hole    *)
(* that was made a cluster of a file: only a chain that has a bad cluster  *)
(* is cut.                                                                 *)
FilesUnmoved ==
    /\ stage \in {"check", "move", "refused", "holed"}
          => FilesUnchanged \/ FilesBad(original)
    /\ stage = "holed" /\ ~ FilesBad(original) => ~ FilesBad(fs)

Done == stage \in {"end", "truncated", "holed"}

(* Whatever was moved, cut or freed, no reference that is reached leads to *)
(* a free cluster.                                                         *)
NothingLeadsToFree ==
    Done =>
       \A r \in LiveRefs(fs) : Target(fs, r) \in Clusters =>
           NextCluster(fs, Target(fs, r)) # FAT_UNUSED

(* What fattruncate() leaves, from what there was before.                  *)
Cuts(f, c) == c > bound \/ NextCluster(f, c) = FAT_BAD

CutImage(f) ==
    [f EXCEPT !.next = [c \in Clusters |->
                  IF Cuts(f, f.next[c]) THEN FAT_EOF ELSE f.next[c]],
              !.first = [u \in Units |-> [i \in Indices |->
                  IF Cuts(f, f.first[u][i]) THEN FAT_UNUSED ELSE f.first[u][i]]]]

Removed(f) == {r \in LiveRefs(CutImage(f)) :
                 /\ IsEntry(r) /\ KindOf(f, r) = "dir"
                 /\ Target(f, r) > bound /\ NextCluster(f, Target(f, r)) # FAT_BAD}

(* No cluster of the root of FAT32, that has no entry to be cut in, is     *)
(* over the bound.                                                         *)
RootWithin(f) == \A c \in ChainFrom(f, {f.root}) : c <= bound

WasCut == stage = "truncated" /\ status = 0 /\ RootWithin(before)

(* Truncating is ending each chain before its first cluster over the bound *)
(* or bad; the directories that begin over the bound are no longer there.  *)
CutThere ==
    WasCut =>
       LET image == CutImage(before)
       IN  /\ LiveRefs(fs) = LiveRefs(image) \ Removed(before)
           /\ \A r \in LiveRefs(fs) : Target(fs, r) = Target(image, r)

CutDirectoriesEmpty(f) ==
    \A c \in DirectoryClusters(f) : Cuts(f, c) => FilesIn(f, c) = {}

(* The clusters that are cut are freed, unless files were in the part of a *)
(* directory that is cut.                                                  *)
NothingLost ==
    WasCut /\ CutDirectoriesEmpty(before) =>
       \A c \in Reachable(before) \cap Clusters :
           c \in Reachable(fs) \/ fs.next[c] \in {FAT_UNUSED, FAT_BAD}

(* The sizes in the entries of files are those of their chains, also when  *)
(* they end at a bad cluster, unless it is fattruncate() that cuts there.  *)
SizesRight ==
    Done /\ (request.program = "repair" \/ ~ FilesBad(original)) =>
       \A r \in LiveRefs(fs) : IsEntry(r) /\ KindOf(fs, r) = "file"
           => sizes[r.directory][r.index] = Cardinality(ClustersFrom(fs, r))

(* With -m no file is cut if there is room for all the clusters and        *)
(* nothing stops the move.                                                 *)
NoNeedlessCut ==
    /\ Done /\ request.program = "shrink" /\ request.move
    /\ RoomForAll /\ killed = 0 /\ unreadable = {}
    => FilesUnchanged \/ FilesBad(original)

(* After the repair, the clusters in use are those of files and            *)
(* directories, and none of these leads to a bad cluster.                  *)
Repaired ==
    stage = "end" /\ request.program = "repair" /\ status = 0 /\ dirty = {} =>
       /\ \A c \in Clusters :
             fs.next[c] \notin {FAT_UNUSED, FAT_BAD} <=> c \in Reachable(fs)
       /\ \A c \in Clusters : fs.next[c] = FAT_BAD <=> original.next[c] = FAT_BAD

(* Truncation cuts what is over the bound, all of it and only when it must. *)
CutAtBound == CutThere /\ NothingLost /\ NoNeedlessCut

(* The copy has the tree of the filesystem: each directory cluster and     *)
(* each link of a chain, although the only entries of the table that are   *)
(* copied are those the traversal happened to read.                        *)
TreeSaved ==
    stage = "saved" /\ unreadable = {} =>
       LET copy == Restored(fs, user)
       IN  /\ fs = original /\ LiveRefs(copy) = LiveRefs(original)
           /\ \A r \in LiveRefs(copy) : Target(copy, r) = Target(original, r)

(* What a program leaves is consistent: references, sizes, clusters in     *)
(* use, or the copy of it all.                                             *)
Consistent ==
    ProgramsTypeOK /\ NothingLeadsToFree /\ SizesRight /\ Repaired /\ TreeSaved

(* The traversals end although the callbacks cut, move and delete what     *)
(* they are at, and one program after the other: fairness is that of a     *)
(* process that is run, a signal may not come.                             *)
ProgramsEnd == <>(stage \in Ended)
=============================================================================
