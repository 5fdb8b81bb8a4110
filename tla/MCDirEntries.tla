---------------------------- MODULE MCDirEntries ----------------------------
(* A short name and two long ones, of one part and of two, that are cut to   *)
(* that short name; clusters of two entries.                                 *)
EXTENDS DirEntries, TLC

CONSTANTS short, long, longer

MCNames == {short, long, longer}
MCParts == (short :> 0) @@ (long :> 1) @@ (longer :> 2)
MCStem  == [n \in MCNames |-> short]
MCClusters == 1 .. 3
MCBadReads == {{}, {2}}
NoBadReads == {{}}
MCFixed == BOOLEAN
=============================================================================
