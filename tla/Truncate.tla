------------------------------ MODULE Truncate ------------------------------
(***************************************************************************)
(* fattruncate() of lib/complex.c: a traversal that cuts each chain at the *)
(* first cluster over a bound and frees what follows, in subdirectories    *)
(* too.  Where the cut of a file begun is remembered until it ends; that   *)
(* of a directory is made when leaving it.                                 *)
(*                                                                         *)
(* The callback changes the state of the traversal and                     *)
(*    user     its struct truncatestruct, the bound aside                  *)
(*    sizes    the size in each directory entry, in clusters               *)
(*    dead     has a null pointer been followed?                           *)
(*    smashed  has memory been written that is not of a unit?              *)
(***************************************************************************)
EXTENDS Traverse

truncatestruct ==
    [num : Nat, cuttype : 0 .. 3,
     cutdirectory : Clusters \cup {FAT_ROOT}, cutindex : Indices]

(* The number and the index are not initialised, and not used before.      *)
NoCut == [num |-> 0, cuttype |-> 0, cutdirectory |-> FAT_ROOT, cutindex |-> 0]

IsAt(s, r, n, i) ==
    IsEntry(r) /\ NumberOf(s.fs, r.directory) = n /\ r.index = i

(* Is the reference where a cut begins, and of which type?                 *)
CutTypeEarly(s, call, target, bound) ==
    LET r == call.ref
        of == IF IsEntry(r) THEN r ELSE call.start
    IN  IF target < bound \/ (IsDirectory(s.fs, of) /\ call.direction # -2) THEN 0
        ELSE IF IsEntry(r) THEN 2 ELSE 1

CutType(s, call, target, bound) ==
    LET r == call.ref
        again == call.direction = -2
        over == target > bound
    IN  IF over /\ ~ IsEntry(r) /\ (~ IsDirectory(s.fs, call.start) \/ again)
        THEN 1
        ELSE IF over /\ IsEntry(r) /\ ~ IsDeleted(s.fs, r)
                  /\ (~ IsDirectory(s.fs, r) \/ again)
        THEN 2
        ELSE IF IsDirectory(s.fs, r) /\ NumberOf(s.fs, r.directory) > bound
        THEN 3
        ELSE 0

(* A cut is of the file that the reference belongs to, or of the directory *)
(* it is in; that of the root has no entry.                                *)
CutBegins(s, call, type) ==
    LET of == IF type = 2 THEN call.ref ELSE call.start
        number == IF IsBoot(of) THEN FAT_ROOT ELSE NumberOf(s.fs, of.directory)
        begun == [s EXCEPT !.user = [@ EXCEPT !.cuttype = type,
                               !.cutdirectory = number, !.cutindex = of.index]]
    IN  IF type = 3 /\ IsBoot(of) THEN [s EXCEPT !.dead = TRUE]
        ELSE TargetSet(begun, call.ref, FAT_EOF)

(* The last cluster of a chain that is being cut: the size of the file is  *)
(* what was counted before the cut.  The root of FAT32 has no entry for it *)
(* to be written in, and a directory that is all cut is deleted.           *)
LastFreed(s, call, target) ==
    LET r == call.ref
        c == s.user
        root == ~ IsEntry(r) /\ IsBoot(call.start) /\ call.direction = -2
        freed == Freed(s, target)
        sized == SizeSet(freed, s.fs.at[c.cutdirectory], c.cutindex, c.num)
        ends == c.cuttype <= 2
                  /\ IsAt(s, IF IsEntry(r) THEN r ELSE call.start,
                          c.cutdirectory, c.cutindex)
        ended == IF ends THEN [sized EXCEPT !.user.cuttype = 0] ELSE sized
    IN  IF root THEN Answer([freed EXCEPT !.smashed = TRUE], {})
        ELSE IF c.cutdirectory \in CannotRead(s)
             THEN Answer([freed EXCEPT !.dead = TRUE], {})
        ELSE IF call.direction # -2 \/ c.num > 0
             THEN Answer(ended, NORMAL \cup {ORIG, ALL})
        ELSE IF ~ IsEntry(r) THEN Answer([ended EXCEPT !.dead = TRUE], {})
        ELSE Answer(EntryDeleted(ended, r), NORMAL \cup {ORIG, ALL})

(* A reference to a cluster, not when leaving a directory.                 *)
CutCluster(s, call, target, bound) ==
    LET r == call.ref
        cutting == s.user.cuttype # 0
        counted == IF IsEntry(r) THEN [s EXCEPT !.user.num = 0] ELSE s
        freed == IF cutting /\ r.previous >= FAT_FIRST
                 THEN Freed(counted, r.previous) ELSE counted
        type == IF cutting THEN 0 ELSE CutType(freed, call, target, bound)
        cut == IF type = 0 THEN freed ELSE CutBegins(freed, call, type)
    IN  IF cut.dead THEN Answer(cut, {})
        ELSE IF cut.user.cuttype = 0
             THEN Answer([cut EXCEPT !.user.num = @ + 1], NORMAL \cup {ALL})
        ELSE IF NextCluster(cut.fs, target) >= FAT_FIRST
             THEN Answer(cut, NORMAL \cup {ORIG, ALL})
        ELSE LastFreed(cut, call, target)

(* _fattruncate(): a chain ends at a bad cluster.                          *)
Truncated(s, call, bound) ==
    LET r == call.ref
        target == Target(s.fs, r)
        t == IF NextCluster(s.fs, target) = FAT_BAD
             THEN TargetSet(s, r, FAT_EOF) ELSE s
    IN  IF IsBoot(r) \/ target < FAT_FIRST THEN Answer(s, NORMAL \cup {ALL})
        ELSE IF IsDirectory(s.fs, r) /\ call.direction = 0
             THEN Answer(t, {RECUR, DELETE})
        ELSE IF call.direction = -1
             THEN Answer(IF IsAt(s, r, s.user.cutdirectory, s.user.cutindex)
                         THEN [t EXCEPT !.user.cuttype = 0] ELSE t,
                         NORMAL \cup {ALL})
        ELSE CutCluster(t, call, target, bound)
=============================================================================
