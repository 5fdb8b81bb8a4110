---------------------------- MODULE MCUnitCache -----------------------------
(* Small instances of UnitCache for TLC: which unit is allocated where, and *)
(* which of the contents is which, make no difference.                      *)
EXTENDS UnitCache, TLC

Symmetry == Permutations(Units) \cup Permutations(Data)
               \cup Permutations(Holders)
=============================================================================
