------------------------------- MODULE Backup -------------------------------
(***************************************************************************)
(* tools/fatbackup.c: the clusters of the directories are copied to        *)
(* another file when the traversal leaves them, and the sectors of the     *)
(* table, with option -u only those that were read meanwhile: one for each *)
(* entry.  The state is as in Truncate, with what was copied in user.      *)
(***************************************************************************)
EXTENDS Traverse

backupstruct == [clusters : [Numbers -> Units \cup {NoUnit}], entries : SUBSET Clusters]
NothingCopied == [clusters |-> [c \in Numbers |-> NoUnit], entries |-> {}]

(* The entry of the previous cluster is read in all copies of the table.   *)
EntryRead(s, call) ==
    IF call.direction = 0 /\ call.ref.previous >= FAT_FIRST
    THEN [s EXCEPT !.user.entries = @ \cup {call.ref.previous}]
    ELSE s

(* copydirectoryclusters().                                                *)
Copied(s, call) ==
    LET cl == Target(s.fs, call.ref)
    IN  IF call.direction # -2 \/ cl < FAT_ROOT \/ cl \in CannotRead(s) THEN s
        ELSE [ReadInto(s, cl) EXCEPT !.user.clusters[cl] = s.fs.at[cl]]

CopyDirectory(s, call) == Answer(Copied(EntryRead(s, call), call), NORMAL)

(* The filesystem in the other file: what was not copied is not there.     *)
Restored(f, copy) ==
    [f EXCEPT !.at = copy.clusters,
              !.next = [c \in Clusters |->
                  IF c \in copy.entries THEN f.next[c] ELSE FAT_UNUSED]]
=============================================================================
