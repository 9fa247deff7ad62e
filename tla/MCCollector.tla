----------------------------- MODULE MCCollector ----------------------------
(***************************************************************************)
(* Small instances of Collector for TLC.                                   *)
(***************************************************************************)
EXTENDS Collector

CONSTANTS r1, r2, e1, e2, e3, periodic, stopper
=============================================================================
