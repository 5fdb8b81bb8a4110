----------------------------- MODULE Linearize -----------------------------
(***************************************************************************)
(* fatlinearize() and fatdefragment() of lib/complex.c, and the command    *)
(* linear of fattool, which counts the clusters by a traversal to tell     *)
(* where they are to go.  Then the inverse FAT is made by another, and one *)
(* more moves each cluster it finds to the next place, by swapping if that *)
(* is used; a signal or an error of a read or a write cuts this short; the *)
(* dot files may be then fixed by a last one.                              *)
(***************************************************************************)
EXTENDS Traverse

CONSTANTS
    Requests,     \* arguments: the reference, recur, option, number
    Signals       \* may SIGINT or SIGTERM arrive?

VARIABLES
    phase,        \* the traversal that runs, or what is between them
    request,
    size,         \* clusters counted by the command linear
    start,        \* where the first cluster goes
    cl,           \* d->cl: where the next cluster goes
    dirmoved,     \* d->dirmoved
    killed,       \* set by a signal (-1) or by an error (1)
    original,     \* the filesystem at the beginning
    astray        \* was a dot file taken for the next cluster?

ghosts == <<original, astray>>
linear == <<size, start>>
defragmentstruct == <<request, linear, cl, dirmoved>>
vars == <<memory, disk, traversal, phase, defragmentstruct, killed, ghosts>>

(* The option of the command: where the file starts, where its longest     *)
(* linear part would have it start, where there are most free clusters, a  *)
(* number, or none, and none counts if it is for the root; or the whole    *)
(* filesystem is defragmented.                                             *)
OfRoot  == {"root", "defragment"}
Options == {"start", "min", "free", "number", ""} \cup OfRoot

ASSUME RequestsAssumption ==
    \A q \in Requests :
        /\ q.ref \in References
        /\ q.recur \in BOOLEAN /\ q.option \in Options /\ q.number \in Int
        /\ IF q.option \in OfRoot THEN IsBoot(q.ref) ELSE IsEntry(q.ref)

(* fatinversecreate() does not follow a cluster that is pointed to twice,  *)
(* and a chain is cut at a bad cluster: such files are not kept.           *)
ASSUME RootsAssumption ==
    \A f \in Roots : f \in Filesystems /\ Sound(f) /\ AllGood(f)

Ended  == {"done", "refused"}
Phases == {"count", "create", "run", "fix", "fixagain", "flush"} \cup Ended

(* The type of the state.                                                  *)
TypeOK ==
    /\ fs \in Filesystems
    /\ rev \in InverseFats
    /\ refer \in [Units -> Nat]
    /\ cached \subseteq Units /\ dirty \subseteq cached
    /\ \A k \in DOMAIN stack : stack[k] \in Frame
    /\ status \in {0, -1}
    /\ phase \in Phases
    /\ size \in Nat /\ start \in Clusters \cup {FAT_ROOT}
    /\ cl \in FAT_ROOT .. Last + 1 /\ dirmoved \in BOOLEAN /\ killed \in {-1, 0, 1}

(* fileoptiontoreference(): the root directory is read, and has the file.  *)
Found(f, r) ==
    IsEntry(r) => /\ r \in LiveRefs(f)
                  /\ NumberOf(f, r.directory) \notin unreadable

Init ==
    /\ fs \in Roots
    /\ original = fs
    /\ rev = [c \in Clusters \cup {FAT_ROOT} |-> NoInverse]
    /\ unreadable \in BadReads /\ unwritable \in BadWrites
    /\ request \in Requests
    /\ Found(fs, request.ref)
    /\ refer = [u \in Units |-> IF u = request.ref.directory THEN 1 ELSE 0]
    /\ cached = {request.ref.directory} \ {NoUnit} /\ dirty = {}
    /\ stack = <<NewFrame(request.ref, request.ref, request.ref)>> /\ status = 0
    /\ phase = IF request.option = "defragment" THEN "create" ELSE "count"
    /\ size = 0 /\ start = FAT_FIRST /\ cl = FAT_FIRST
    /\ dirmoved = FALSE /\ killed = 0 /\ astray = FALSE

-----------------------------------------------------------------------------
(* _fatcountclusters().                                                    *)
CallCount ==
    /\ phase = "count" /\ Calling
    /\ LET r == Pending.ref
       IN  IF Pending.direction # 0 THEN Returned(State, {}) /\ UNCHANGED size
           ELSE IF IsDotFile(fs, r) THEN Returned(State, {DELETE}) /\ UNCHANGED size
           ELSE /\ Returned(State, Cond(request.recur))
                /\ size' = size + (IF IsEntry(r) \/ IsBoot(r) THEN 0 ELSE 1)
    /\ UNCHANGED <<disk, phase, request, start, cl, dirmoved, killed, ghosts>>

(* fatclusterareaisbad(): an area that goes over the end is searched       *)
(* around.                                                                 *)
AreaIsBad(b, n) ==
    \E c \in Clusters : /\ NextCluster(fs, c) = FAT_BAD
                        /\ b + n - 1 <= Last => c \in b .. b + n - 1

(* fatclustermostfree(): the first area of this size, of those that have   *)
(* no bad clusters, with most free ones.                                   *)
FreeFrom(b, n) == Cardinality({c \in b .. b + n - 1 : NextCluster(fs, c) = FAT_UNUSED})

MostFree(n) ==
    LET good == {b \in FAT_FIRST .. Last - n + 1 :
                    ~ AreaIsBad(b, n) /\ (b = FAT_FIRST \/ FreeFrom(b, n) > 0)}
        best == {b \in good : \A d \in good : FreeFrom(d, n) <= FreeFrom(b, n)}
    IN  IF FAT_FIRST + n > Last \/ good = {} THEN FAT_ERR
        ELSE CHOOSE b \in best : \A d \in best : b <= d

(* fatclusterlongestlinear(): the first of the longest linear parts, and   *)
(* how many clusters are before it; one if the chain has no two clusters   *)
(* in sequence.                                                            *)
LongestLinear(first) ==
    LET at[k \in 0 .. Last] == IF k = 0 THEN first ELSE NextCluster(fs, at[k - 1])
        parts == {p \in (0 .. size - 1) \X (1 .. size) :
                     /\ p[1] + p[2] <= size /\ at[p[1]] \in Clusters
                     /\ \A j \in 0 .. p[2] - 1 : at[p[1] + j] = at[p[1]] + j}
        best == CHOOSE p \in parts : \A q \in parts :
                    q[2] < p[2] \/ (q[2] = p[2] /\ q[1] >= p[1])
    IN  [start |-> at[best[1]], pos |-> IF best[2] = 1 THEN 1 ELSE best[1]]

Chosen ==
    LET target == Target(fs, request.ref)
        longest == LongestLinear(target)
    IN  CASE request.option = "root" ->
               IF target = FAT_ROOT THEN FAT_FIRST ELSE target
          [] request.option = "start"  -> target
          [] request.option = "min"    -> longest.start - longest.pos
          [] request.option = "free"   -> MostFree(size)
          [] request.option = "number" -> request.number
          [] request.option = "" ->
               IF AreaIsBad(target, size) \/ target + size - 1 > Last
               THEN MostFree(size) ELSE target

Refused(b) == b \notin FAT_ROOT .. Last - size + 1 \/ AreaIsBad(b, size)

(* The command exits, or calls fatlinearize(); if a cluster could not be   *)
(* read, the inverse FAT cannot be made and nothing is done.               *)
Choose ==
    /\ phase = "count" /\ stack = <<>>
    /\ IF status # 0 \/ Target(fs, request.ref) = FAT_UNUSED \/ Refused(Chosen)
       THEN /\ phase' = "refused"
            /\ UNCHANGED <<memory, traversal, start, cl>>
       ELSE /\ phase' = "create" /\ Begin(Boot)
            /\ start' = Chosen /\ cl' = Chosen
    /\ UNCHANGED <<disk, request, size, dirmoved, killed, ghosts>>

CallCreate ==
    /\ phase = "create" /\ Calling
    /\ \E a \in {InverseCreate(State, Pending)} : Returned(a.s, a.res)
    /\ UNCHANGED <<disk, phase, defragmentstruct, killed, ghosts>>

(* The second traversal begins; or fatinversecreate() failed.  Signals are *)
(* handled from here on.                                                   *)
Created ==
    /\ phase = "create" /\ stack = <<>>
    /\ IF status = 0
       THEN phase' = "run" /\ Begin(request.ref)
       ELSE phase' = "done" /\ UNCHANGED <<memory, traversal>>
    /\ UNCHANGED <<disk, defragmentstruct, killed, ghosts>>

-----------------------------------------------------------------------------
(* The next place, bad clusters aside.                                     *)
NextPlace(f, c) ==
    CHOOSE n \in c + 1 .. Last + 1 :
        /\ NextCluster(f, n) # FAT_BAD
        /\ \A m \in c + 1 .. n - 1 : NextCluster(f, m) = FAT_BAD

Step(s, place, moved, kill, res) ==
    [s |-> s, cl |-> place, dirmoved |-> moved, killed |-> kill, res |-> res]

(* fatinversemovereference() to a free place.  The unit is written and may *)
(* be deleted.                                                             *)
MoveThere(s, call) ==
    LET r == call.ref
        target == Target(s.fs, r)
        u == s.fs.at[target]
        m == ClusterMove(s.fs, r, cl, CannotRead(s), unwritable)
        rd == ReadInto(s, target)
        new == [rd EXCEPT !.fs = m.fs, !.dirty = @ \ {u},
                   !.rev = InverseMoved(s.fs, m.fs, @, r, IsDirRef(s.fs, call))]
        entry == IF IsEntry(r) THEN Touched(new, r.directory) ELSE new
    IN  IF m.res = -2 THEN Step(s, cl, dirmoved, 1, {})
        ELSE IF m.res = -5
             THEN Step([rd EXCEPT !.dirty = @ \cup {u}], cl, dirmoved, 1, {})
        ELSE Step(Deleted(entry, u), NextPlace(m.fs, cl), dirmoved, killed,
                  Cond(request.recur))

(* fatinverseswapreference() with the cluster that is there.  If it has no *)
(* reference, nothing is done.                                             *)
SwapThere(s, call) ==
    LET r == call.ref
        q == s.rev[cl].ref
        target == Target(s.fs, r)
        u == s.fs.at[target]
        w == s.fs.at[cl]
        m == ClusterSwap(s.fs, r, q, CannotRead(s), unwritable)
        rd == ReadInto(s, target)
        both == ReadInto(rd, cl)
        new == [both EXCEPT !.fs = m.fs, !.dirty = @ \ {u, w},
                   !.rev = InverseSwapped(s.fs, m.fs, @, r, IsDirRef(s.fs, call),
                                          q, s.rev[cl].isdir)]
        e1 == IF IsEntry(r) THEN Touched(new, r.directory) ELSE new
        e2 == IF IsEntry(q) THEN Touched(e1, q.directory) ELSE e1
        after == IF m.res = 0 THEN e2 ELSE s
        moved == dirmoved \/ (after.rev[target].isdir
                                /\ after.rev[target].ref.previous = 0)
    IN  CASE m.res = -2 -> Step(s, cl, dirmoved, 1, {})
          [] m.res = -4 -> Step(rd, cl, dirmoved, 1, {})
          [] m.res = -5 ->
               Step([both EXCEPT !.dirty = @ \cup {u, w}], cl, dirmoved, 1, {})
          [] m.res = -3 ->
               Step([both EXCEPT !.dirty = (@ \cup {u}) \ {w}], cl, dirmoved, 1, {})
          [] m.res \in {0, -1} ->
               Step(Deleted(Deleted(after, after.fs.at[cl]), after.fs.at[target]),
                    NextPlace(after.fs, cl), moved, killed, Cond(request.recur))

(* _fatdefragment().                                                       *)
Defragment(s, call) ==
    LET r == call.ref
        target == Target(s.fs, r)
        keep(t, res) == Step(t, cl, dirmoved, killed, res)
    IN  IF killed # 0 \/ call.direction # 0 THEN keep(s, {})
        ELSE IF target < FAT_FIRST THEN keep(s, Cond(request.recur))
        ELSE IF NextCluster(s.fs, target) = FAT_BAD
             THEN keep(TargetSet(s, r, FAT_EOF), {})
        ELSE IF cl > Last THEN keep(s, {})
        ELSE IF cl = target
             THEN Step(s, cl + 1, dirmoved, killed, Cond(request.recur))
        ELSE IF IsDotFile(s.fs, r) THEN keep(FixedDot(s, call), {})
        ELSE IF NextCluster(s.fs, cl) = FAT_UNUSED THEN MoveThere(s, call)
        ELSE SwapThere(s, call)

CallDefragment ==
    /\ phase = "run" /\ Calling
    /\ \E a \in {Defragment(State, Pending)} :
           /\ Returned(a.s, a.res)
           /\ cl' = a.cl /\ dirmoved' = a.dirmoved /\ killed' = a.killed
           /\ astray' = (astray \/ (IsDotFile(fs, Pending.ref) /\ a.cl # cl))
    /\ UNCHANGED <<disk, phase, request, linear, original>>

-----------------------------------------------------------------------------
CallFixDot ==
    /\ phase \in {"fix", "fixagain"} /\ Calling
    /\ FixDot
    /\ UNCHANGED <<disk, phase, defragmentstruct, killed, ghosts>>

(* The dot files are fixed if the reference is not the boot sector, and    *)
(* again if interrupted.                                                   *)
Ran ==
    /\ phase = "run" /\ stack = <<>>
    /\ IF ~ IsBoot(request.ref) /\ dirmoved THEN phase' = "fix" /\ Begin(Boot)
       ELSE IF killed # 0 /\ dirmoved THEN phase' = "fixagain" /\ Begin(Boot)
       ELSE phase' = "flush" /\ UNCHANGED <<memory, traversal>>
    /\ UNCHANGED <<disk, defragmentstruct, killed, ghosts>>

Fixed ==
    /\ phase \in {"fix", "fixagain"} /\ stack = <<>>
    /\ IF phase = "fix" /\ killed # 0 /\ dirmoved
       THEN phase' = "fixagain" /\ Begin(Boot)
       ELSE phase' = "flush" /\ UNCHANGED <<memory, traversal>>
    /\ UNCHANGED <<disk, defragmentstruct, killed, ghosts>>

(* fatinversedelete(): every count of the inverse FAT is given back, and   *)
(* what is no longer counted is deleted.                                   *)
CountedBy(u) == Cardinality({c \in Clusters : rev[c].ref.directory = u})

InverseDeleteOnce(s) ==
    LET after == [u \in Units |-> IF CountedBy(u) > 0 THEN s.refer[u] - 1 ELSE s.refer[u]]
    IN  [s EXCEPT !.refer = after,
           !.cached = {u \in @ : u \in s.dirty \/ CountedBy(u) = 0 \/ after[u] # 0}]

InverseDelete(s) ==
    LET after == [u \in Units |-> s.refer[u] - CountedBy(u)]
    IN  [s EXCEPT !.refer = after,
           !.cached = {u \in @ : u \in s.dirty \/ CountedBy(u) = 0 \/ after[u] # 0}]

Finish ==
    /\ phase = "flush"
    /\ Memory(InverseDelete(WrittenBack(State, dirty)))
    /\ phase' = "done"
    /\ UNCHANGED <<disk, traversal, defragmentstruct, killed, ghosts>>

(* SIGINT or SIGTERM.                                                      *)
Signal ==
    /\ Signals /\ killed = 0
    /\ phase \in {"run", "fix", "fixagain"}
    /\ killed' = -1
    /\ UNCHANGED <<memory, disk, traversal, phase, defragmentstruct, ghosts>>

Traversing == /\ Advance \/ Return
              /\ UNCHANGED <<disk, phase, defragmentstruct, killed, ghosts>>

Work == \/ CallCount \/ Choose \/ CallCreate \/ Created \/ CallDefragment \/ Ran \/ CallFixDot \/ Fixed
        \/ Finish \/ Traversing

Next == Work \/ Signal

Fairness == WF_vars(Work)

Spec == Init /\ [][Next]_vars /\ Fairness

-----------------------------------------------------------------------------
(* Whatever is moved and whenever it is interrupted, no file changes: each *)
(* entry leads to the same contents in the same order.  The clusters that  *)
(* cannot be reached are left alone.                                       *)
FilesUnchanged == Files(fs) = Files(original)

(* The inverse FAT that is updated by each move and each swap has the      *)
(* references that fatinversecheck() would find, and what is known of the  *)
(* clusters of directories is so unless a dot file was followed.           *)
InverseExact ==
    phase \in {"run", "fix", "fixagain"} =>
       LET exact == InverseOf(fs)
       IN  \A c \in Clusters : /\ rev[c].ref = exact[c].ref
                               /\ astray \/ rev[c].isdir = exact[c].isdir

(* The usage counters let no unit be deleted while a pointer to it may     *)
(* still be followed, in a frame, in the inverse FAT or by the command.    *)
InversePointers == {rev[c].ref.directory : c \in Clusters} \ {NoUnit}
NothingDangles ==
    /\ NoDangling
    /\ phase \notin Ended =>
          InversePointers \cup ({request.ref.directory} \ {NoUnit}) \subseteq cached

(* All that was counted is counted no more at the end.                     *)
CountersReturn == phase = "done" /\ status = 0 => \A u \in Units : refer[u] = 0

(* What is counted is what is pointed to, from the first call to the last. *)
UsageCounted == TypeOK /\ NothingDangles /\ CountersReturn

Succeeded == phase = "done" /\ killed = 0 /\ status = 0

Visited == LET first == {Target(fs, request.ref)}
           IN  IF request.recur THEN TreeFrom(fs, first) ELSE ChainFrom(fs, first)

NothingSpecial ==
    /\ \A c \in Clusters : fs.next[c] # FAT_BAD
    /\ \A c \in Clusters : fs.next[c] # FAT_UNUSED => c \in Reachable(fs)

Placeable ==
    /\ Succeeded /\ NothingSpecial
    /\ start \in Clusters /\ start + Cardinality(Visited \cap Clusters) - 1 <= Last
    /\ astray => cl <= Last

(* If nothing is lost, bad or fails, each cluster is at the end before the *)
(* one that follows it, and after the directory it is in and the files     *)
(* before it there; they are those from the start on.  A stale dot file    *)
(* that is taken for a cluster in place leaves a gap, for which there may  *)
(* be no room.                                                             *)
InOrder ==
    Placeable =>
       LET placed == Visited \cap Clusters
           after(c) == IF astray THEN c + 1 .. Last ELSE {c + 1}
       IN  /\ astray \/ placed = start .. start + Cardinality(placed) - 1
           /\ \A c \in placed : fs.next[c] \in after(c) \cup {FAT_EOF}
           /\ request.recur => \A c \in Visited : \A e \in FilesIn(fs, c) :
                 Target(fs, e) # FAT_UNUSED =>
                    /\ Target(fs, e) > c
                    /\ \A i \in 0 .. e.index - 1 : Target(fs, e) > fs.first[e.directory][i]

(* It ends although the callback moves the cluster the traversal is at,    *)
(* whatever is interrupted or fails: fairness is that of a process that is *)
(* run, a signal may not come.                                             *)
Termination == <>(phase \in Ended)

(* Unless it is stopped, the dot files follow the directories: all of them *)
(* if the last pass was made.  Otherwise those stay stale that are not in  *)
(* the tree of the reference: its own dotdot file, or if it is not         *)
(* recursive all that is in it; that are in the directory that was moved   *)
(* to the last cluster; or that are passed after one was taken for the     *)
(* next cluster.                                                           *)
DotsFollow ==
    Succeeded /\ DotsRight(original) =>
       \A s \in StaleDots(fs) :
          /\ IsBoot(request.ref) \/ ~ dirmoved
          /\ \/ astray
             \/ Last \in ChainFrom(fs, {Target(fs, s[2])})
             \/ IF request.recur THEN s[2] = request.ref /\ s[3] = "dotdot"
                ELSE \/ IsBoot(request.ref) /\ dirmoved
                     \/ s[2] = request.ref /\ s[3] = "dot"
                     \/ s[1] = request.ref /\ s[3] = "dotdot"

(* A directory that is linearized is in order and can be walked up.        *)
Linearized == InOrder /\ DotsFollow
=============================================================================
