------------------------------ MODULE MCMerryVM ------------------------------
(***************************************************************************)
(* Instances of MerryVM for TLC: what the program's instructions may do.   *)
(***************************************************************************)
EXTENDS MerryVM

\* One instruction for each way through the handler.
BriefProgram == {"OP_HALT", "EXIT", "SERVICE", "NEWCORE", "FAULT"}
=============================================================================
