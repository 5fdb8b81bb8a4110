-------------------------------- MODULE Trees -------------------------------
(* Small filesystems for the runs, parts of one tree: the root has a         *)
(* directory d and a file a; d takes two clusters and has a subdirectory and *)
(* a file b.  The root is among the clusters (FAT32) or not (FAT12, FAT16).  *)
EXTENDS ClusterRefs

F == INSTANCE Functions

CONSTANTS rootdir, d1, d2, subdir, a1, a2, b1

TreeUnits == {rootdir, d1, d2, subdir, a1, a2, b1}

Layout(u, i) == CASE u = rootdir -> <<"dir", "deleted", "file">>[i + 1]
                  [] u = d1      -> <<"dot", "dotdot", "dir">>[i + 1]
                  [] u = d2      -> <<"file", "end", "end">>[i + 1]
                  [] u = subdir  -> <<"dot", "dotdot", "end">>[i + 1]
                  [] OTHER       -> "end"

Lead(u, i) == CASE u = rootdir -> <<d1, NoUnit, a1>>[i + 1]
                [] u = d1      -> <<d1, NoUnit, subdir>>[i + 1]
                [] u = d2      -> <<b1, NoUnit, NoUnit>>[i + 1]
                [] u = subdir  -> <<subdir, d1, NoUnit>>[i + 1]
                [] OTHER       -> NoUnit

Succ(u) == IF u = d1 THEN d2 ELSE IF u = a1 THEN a2 ELSE NoUnit

(* The filesystem where each unit is in the cluster p says; those that have  *)
(* none are not part of it.  The clusters in `bad` are marked so.            *)
Image(p, bad) ==
    LET number(u) == IF u \in DOMAIN p THEN p[u] ELSE FAT_UNUSED
        unit == [c \in Clusters |->
                   IF c \in F!Range(p) THEN CHOOSE u \in DOMAIN p : p[u] = c ELSE NoUnit]
    IN  [next |-> [c \in Clusters |->
                     IF c \in bad THEN FAT_BAD
                     ELSE IF unit[c] = NoUnit THEN FAT_UNUSED
                     ELSE IF Succ(unit[c]) \in DOMAIN p THEN number(Succ(unit[c]))
                     ELSE FAT_EOF],
         at |-> [c \in Clusters \cup {FAT_ROOT} |->
                   IF c = FAT_ROOT THEN (IF rootdir \in DOMAIN p THEN NoUnit ELSE rootdir)
                   ELSE unit[c]],
         root |-> IF rootdir \in DOMAIN p THEN p[rootdir] ELSE FAT_ROOT,
         kind |-> [u \in Units |-> [i \in Indices |->
                     IF Layout(u, i) = "dir" /\ Lead(u, i) \notin DOMAIN p
                     THEN "deleted" ELSE Layout(u, i)]],
         first |-> [u \in Units |-> [i \in Indices |-> number(Lead(u, i))]]]

Placements(us) == F!Injection(us, Clusters)
Images(us) == {Image(p, {}) : p \in Placements(us)}
BadImages(us, c) == {Image(p, {c}) : p \in {q \in Placements(us) : c \notin F!Range(q)}}
BadFileImages(us, u, c) ==
    {Image(p, {c}) : p \in {q \in Placements(us) : q[u] = c}}

(* All clusters of the tree but one; two directories, one in the other; a    *)
(* file of two clusters; a cluster that cannot be reached; a bad cluster     *)
(* that nobody uses.                                                         *)
AllRoots == Images({d1, d2, a1, b1}) \cup Images({rootdir, d1, subdir})
              \cup Images({rootdir, a1, a2}) \cup Images({d1, a2})
              \cup BadImages({d1, a1}, 3)
=============================================================================
