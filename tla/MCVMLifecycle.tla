---------------------------- MODULE MCVMLifecycle ----------------------------
(***************************************************************************)
(* The instance of VMLifecycle for TLC: what the program's instructions    *)
(* may do.                                                                 *)
(***************************************************************************)
EXTENDS VMLifecycle

\* Work, fail, halt, and ask for each thing the OS dispatches on its own.
AnyProgram == {"WORK", "FETCH_FAULT", "OP_HALT", "EXIT", "NEWCORE", "SERVICE"}
=============================================================================
