----------------------------- MODULE MCNvmPool -----------------------------
(***************************************************************************)
(* NvmPool for TLC: three orders of 1, 2 and 4 units, so that an area has  *)
(* 8 units, the layout 1+1+2+4, and splits and merges of two levels.       *)
(***************************************************************************)
EXTENDS NvmPool, TLC

MCBuddySize == [k \in Orders |-> 2 ^ k]

Symmetry == Permutations(Areas) \cup Permutations(Clients)
=============================================================================
