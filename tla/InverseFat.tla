----------------------------- MODULE InverseFat -----------------------------
(***************************************************************************)
(* lib/inverse.c: from the number of a cluster to its reference.           *)
(***************************************************************************)
EXTENDS ClusterRefs, FiniteSets

(* rev[c]: a reference, and whether c is a cluster of a directory.         *)
InversePair(r, isdir) == [ref |-> r, isdir |-> isdir]
NoInverse == InversePair(Void, FALSE)

InverseFats == [Clusters \cup {FAT_ROOT} ->
                   [ref : References, isdir : BOOLEAN]]

(* fatinverseset(): isdir is -1 for "as it was".                           *)
InverseSet(fs, rev, r, isdir) ==
    LET target == Target(fs, r)
    IN  IF target < FAT_ROOT THEN rev
        ELSE [rev EXCEPT ![target] =
                InversePair(r, IF isdir = -1 THEN @.isdir ELSE isdir = 1)]

Flag(isdir) == IF isdir THEN 1 ELSE 0

InverseClear(rev, c) ==
    IF c < FAT_ROOT THEN rev ELSE [rev EXCEPT ![c] = NoInverse]

(* fatinversemovereference() and fatinverseswapreference(), after the      *)
(* clusters are: `fs` is as before, `new` as after.                        *)
InverseMovedShort(fs, new, rev, r, isdir) ==
    InverseClear(InverseSet(new, rev, r, Flag(isdir)), Target(fs, r))

InverseMoved(fs, new, rev, r, isdir) ==
    LET dst == Target(new, r)
        rev1 == InverseSet(new, rev, r, Flag(isdir))
        rev2 == InverseSet(new, rev1, Following(dst), -1)
    IN  InverseClear(rev2, Target(fs, r))

InverseSwapped(fs, new, rev, r, risdir, q, qisdir) ==
    LET rev1 == InverseSet(new, rev, r, Flag(risdir))
        rev2 == InverseSet(new, rev1, Following(Target(fs, r)), -1)
        rev3 == InverseSet(new, rev2, q, Flag(qisdir))
    IN  InverseSet(new, rev3, Following(Target(fs, q)), -1)

(* What fatinversecreate() makes of a filesystem where no cluster has two  *)
(* references, and fatinversecheck() compares with.                        *)
InverseOf(fs) ==
    LET live == LiveRefs(fs)
        directories == ChainFrom(fs, {Target(fs, r) : r \in {q \in live : IsDirectory(fs, q)}})
    IN  [c \in Clusters \cup {FAT_ROOT} |->
            IF \E r \in live : Target(fs, r) = c
            THEN InversePair(CHOOSE r \in live : Target(fs, r) = c, c \in directories)
            ELSE NoInverse]
=============================================================================
