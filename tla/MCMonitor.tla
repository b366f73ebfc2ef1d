----------------------------- MODULE MCMonitor -----------------------------
(***************************************************************************)
(* Monitor for TLC: the page is a model value.                             *)
(***************************************************************************)
EXTENDS Monitor

CONSTANT p1
=============================================================================
