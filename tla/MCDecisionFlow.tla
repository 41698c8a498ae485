--------------------------- MODULE MCDecisionFlow ---------------------------
(* Instances of DecisionFlow for TLC.                                      *)
EXTENDS DecisionFlow, TLC
=============================================================================
