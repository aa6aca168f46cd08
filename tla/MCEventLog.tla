------------------------------ MODULE MCEventLog ------------------------------
(***************************************************************************)
(* Instances of EventLog for TLC.                                          *)
(***************************************************************************)
EXTENDS EventLog, TLC

CONSTANTS a, b

MCNodes == {a, b}
MCOnlyA == {a}
=============================================================================
