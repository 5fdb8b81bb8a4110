---------------------------- MODULE MCLinearize ----------------------------
(* Trees in five clusters, and one whose root has two of them.  All is       *)
(* defragmented; linear is given the root, a directory of it and its file,   *)
(* recursively or not, and a directory of that directory.                    *)
EXTENDS Linearize, Trees, TLC

MCUnits == TreeUnits
MCLast == 6
RootOfTwo(p) == [Image(p, {}) EXCEPT !.next[p[rootdir]] = p[d2], !.next[p[d1]] = FAT_EOF]
MCRoots == AllRoots \cup {RootOfTwo(p) : p \in Placements({rootdir, d1, d2})}

Request(ref, option, number, recur) ==
    [ref |-> ref, option |-> option, number |-> number, recur |-> recur]

MCRequests ==
    {Request(Boot, "defragment", 0, TRUE)}
    \cup {Request(Boot, "root", 0, recur) : recur \in BOOLEAN}
    \cup {Request(Entry(rootdir, 0), "number", 4, recur) : recur \in BOOLEAN}
    \cup {Request(Entry(d1, 2), "number", n, TRUE) : n \in {2, 6}}
    \cup {Request(Entry(rootdir, 2), o, 0, FALSE) : o \in {"start", "min", "free", ""}}

MCBadReads == {{}, {3}}
MCBadWrites == {{}, {4}}
=============================================================================
