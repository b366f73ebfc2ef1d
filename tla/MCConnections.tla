--------------------------- MODULE MCConnections ---------------------------
(***************************************************************************)
(* Connections for TLC: the processes are model values.                    *)
(***************************************************************************)
EXTENDS Connections

CONSTANTS c1, w
=============================================================================
