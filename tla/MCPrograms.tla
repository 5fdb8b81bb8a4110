----------------------------- MODULE MCPrograms ----------------------------
EXTENDS Programs, Trees, TLC

MCUnits == TreeUnits
MCLast == 6
(* A file or a directory may have a bad cluster.                             *)
MCRoots == Images({d1, d2, b1}) \cup Images({rootdir, d1, subdir})
              \cup Images({rootdir, a1, a2}) \cup Images({d1, a2})
              \cup BadImages({d1, a1}, 3) \cup BadFileImages({d1, d2, b1}, d2, 4)
              \cup BadFileImages({rootdir, a1, a2}, a2, 4)
              \cup BadFileImages({d1, subdir}, subdir, 4)

Request(p, sb, se, db, de, m, t) ==
    [program |-> p, srcbegin |-> sb, srcend |-> se, dstbegin |-> db, dstend |-> de,
     move |-> m, truncate |-> t]

(* Compacting; making a hole in the middle, emptied into an area that goes   *)
(* on from the beginning; shrinking; mending; a backup.                      *)
MCRequests ==
    {Request("movearea", 2, 6, 2, 6, FALSE, FALSE),
     Request("hole", 3, 4, 5, 2, FALSE, FALSE),
     Request("shrink", 5, 6, 2, 4, FALSE, TRUE),
     Request("shrink", 4, 6, 2, 3, TRUE, TRUE),
     Request("shrink", 6, 6, 2, 5, FALSE, FALSE),
     Request("repair", 6, 6, 2, 5, FALSE, FALSE),
     Request("backup", 6, 6, 2, 5, FALSE, FALSE)}

MCBadReads == {{}, {3}}
MCBadWrites == {{}, {4}}
=============================================================================
