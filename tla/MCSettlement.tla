---------------------------- MODULE MCSettlement ----------------------------
(***************************************************************************)
(* A settlement of node r whose committee is the validator v alone; v also *)
(* has the wallet of the rewarded worker.                                  *)
(***************************************************************************)
EXTENDS Settlement, TLC

MCBond == "v" :> 1
=============================================================================
