---------------------------- MODULE MCDramCache ----------------------------
(***************************************************************************)
(* DramCache for TLC: objects o1 and o2 on server 0, o3 on the last one.   *)
(***************************************************************************)
EXTENDS DramCache, TLC

CONSTANTS o1, o2, o3

MCNodeOf == [o \in Objects |-> IF o = o3 THEN NodeNum - 1 ELSE 0]
MCLength == [o \in Objects |-> IF o = o2 THEN 2 ELSE 1]
=============================================================================
