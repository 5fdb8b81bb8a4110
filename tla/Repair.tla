------------------------------- MODULE Repair -------------------------------
(***************************************************************************)
(* Mending a filesystem: fatcutbad() of lib/reference.c ends the chains    *)
(* before their bad clusters, fatunreachable() of lib/inverse.c frees the  *)
(* clusters that no file has.  The state is as in Truncate, with struct    *)
(* cutbadstruct in user.                                                   *)
(***************************************************************************)
EXTENDS Traverse

cutbadstruct == [len : Nat, cut : BOOLEAN]
NoneBad == [len |-> 0, cut |-> FALSE]

(* The reference leads to a bad cluster: a directory is deleted, a file is *)
(* given the size of what comes before.                                    *)
CutHere(s, call) ==
    LET r == call.ref
        t == TargetSet([s EXCEPT !.user.cut = TRUE], r, FAT_EOF)
        file == call.start
    IN  IF IsEntry(r)
        THEN IF IsDirectory(s.fs, r) THEN EntryDeleted(t, r)
             ELSE SizeSet(t, r.directory, r.index, 0)
        ELSE IF IsEntry(file) /\ ~ IsDirectory(s.fs, file)
             THEN SizeSet(t, file.directory, file.index, s.user.len - 1)
             ELSE t

(* _fatcutbad().                                                           *)
CutBad(s, call) ==
    LET target == Target(s.fs, call.ref)
        counted == [s EXCEPT !.user.len = IF IsEntry(call.ref) THEN 1 ELSE @ + 1]
    IN  IF call.direction # 0 THEN Answer(s, {})
        ELSE IF target < FAT_FIRST THEN Answer(counted, {RECUR})
        ELSE IF NextCluster(s.fs, target) # FAT_BAD THEN Answer(counted, NORMAL)
        ELSE Answer(CutHere(counted, call), {RECUR, DELETE})

(* fatunreachable() with fix: the clusters in use that the inverse FAT has *)
(* no reference for are freed.                                             *)
UnreachedOrBad(s) == {c \in Clusters : /\ NextCluster(s.fs, c) # FAT_UNUSED
                                       /\ s.rev[c].ref = Void}

Unreached(s) == {c \in Clusters : /\ NextCluster(s.fs, c) \notin {FAT_UNUSED, FAT_BAD}
                                  /\ s.rev[c].ref = Void}

UnreachedFreed(s) ==
    [s EXCEPT !.fs.next = [c \in Clusters |->
        IF c \in Unreached(s) THEN FAT_UNUSED ELSE @[c]]]
=============================================================================
